--------------------------- MODULE LogStreamProofs ---------------------------
(***************************************************************************)
(* Proofs about LogStream for any budgets, page sizes, pages, handlers and *)
(* numbers of broken connections.                                          *)
(***************************************************************************)
EXTENDS LogStream, SequenceTheorems, TLAPS

-------------------------------------------------------------------------------
(***************************************************************************)
(* Sequences of consecutive numbers                                        *)
(***************************************************************************)

UpTo(n) == [i \in 1..n |-> i]

LEMMA UpToSeq ==
    ASSUME NEW n \in Nat
    PROVE  UpTo(n) \in Seq(Nat) /\ Len(UpTo(n)) = n
BY DEF UpTo

LEMMA ConcatParts ==
    ASSUME NEW S, NEW s \in Seq(S), NEW t \in Seq(S)
    PROVE  /\ Len(s \o t) = Len(s) + Len(t)
           /\ \A i \in 1..Len(s) : (s \o t)[i] = s[i]
           /\ \A i \in Len(s)+1..Len(s)+Len(t) : (s \o t)[i] = t[i - Len(s)]
<1>1. Len(s) \in Nat /\ Len(t) \in Nat
  BY LenProperties
<1> QED BY <1>1, ConcatProperties

LEMMA MinOfTwo ==
    ASSUME NEW a \in Nat, NEW b \in Nat
    PROVE  Min({a, b}) = IF a <= b THEN a ELSE b
BY DEF Min

-------------------------------------------------------------------------------
(***************************************************************************)
(* The writer                                                              *)
(***************************************************************************)

Stream == {"command", "system"}

LoggerState == [at : {"begin", "command", "flushing", "written", "gone"}, owed : BOOLEAN,
                cut : BOOLEAN, told : BOOLEAN, failed : BOOLEAN, lost : BOOLEAN]

WriterTypeOK ==
    /\ status \in {"RUNNING", "ended", "interrupted"}
    /\ rows \in Nat
    /\ budget \in [Stream -> Nat]
    /\ pending \in [Output -> Nat]
    /\ logger \in LoggerState

\* A notice is owed only while the logger works, never after the last UPDATE.
OwedInv ==
    /\ logger.owed => logger.at \in {"command", "flushing", "written"}
    /\ status # "RUNNING" => logger.at = "gone"

\* Output is missing only when the command's budget is gone, which was told or
\* is about to be; an outcome is missing only when the reserve is gone.
BudgetInv ==
    status # "interrupted" /\ ~logger.failed =>
        /\ logger.cut => budget["command"] = 0
        /\ budget["command"] = 0 => logger.owed \/ logger.told \/ budget["system"] = 0
        /\ logger.lost => budget["system"] = 0

WriterInv == WriterTypeOK /\ OwedInv /\ BudgetInv

LEMMA WriterInvInit == Init => WriterInv
BY LogAssumption DEF Init, WriterInv, WriterTypeOK, Stream, LoggerState, OwedInv, BudgetInv

\* logBudget.take never takes more than there is.
LEMMA ChargeFacts ==
    ASSUME WriterTypeOK, NEW stream \in Stream, NEW size \in Nat
    PROVE  /\ Charge(stream, size) \in Nat /\ Charge(stream, size) <= budget[stream]
           /\ ~Whole(stream, size) => Charge(stream, size) = budget[stream]
           /\ stream = "command" /\ budget[stream] > 0 /\ Charge(stream, size) = budget[stream]
                 => Exhausted(stream, size)
<1> DEFINE cost == IF size = 0 THEN 1 ELSE size
<1>1. budget[stream] \in Nat /\ cost \in Nat /\ cost > 0 /\ size <= cost
  BY DEF WriterTypeOK
<1>2. Charge(stream, size) = IF cost <= budget[stream] THEN cost ELSE budget[stream]
  BY <1>1, MinOfTwo DEF Charge, Remaining
<1>3. Charge(stream, size) \in Nat /\ Charge(stream, size) <= budget[stream]
  BY <1>1, <1>2
<1>4. ~Whole(stream, size) => Charge(stream, size) = budget[stream]
  BY <1>1, <1>2 DEF Whole, Stored, Remaining
<1> QED BY <1>3, <1>4 DEF Exhausted, Stored, Remaining

LEMMA AppendedFacts ==
    ASSUME WriterTypeOK, NEW stream \in Stream, NEW size \in Nat, NEW inserted \in BOOLEAN,
           NEW next \in LoggerState, Appended(stream, size, inserted, next)
    PROVE  /\ budget' = [budget EXCEPT ![stream] = @ - Charge(stream, size)]
           /\ rows' \in Nat /\ rows <= rows'
           /\ logger' \in LoggerState
           /\ logger'.at = next.at /\ logger'.told = next.told /\ logger'.lost = next.lost
           /\ logger'.owed <=> Exhausted(stream, size) /\ inserted
           /\ logger'.cut <=> next.cut \/ (stream = "command" /\ ~Whole(stream, size))
           /\ logger'.failed <=> next.failed \/ ~inserted
<1> DEFINE owed == Exhausted(stream, size) /\ inserted
           cut == next.cut \/ (stream = "command" /\ ~Whole(stream, size))
           failed == next.failed \/ ~inserted
<1>1. rows' \in Nat /\ rows <= rows' /\ budget' = [budget EXCEPT ![stream] = @ - Charge(stream, size)]
  BY DEF Appended, WriterTypeOK
<1>2. logger' = [next EXCEPT !.owed = owed, !.cut = cut, !.failed = failed]
  BY DEF Appended
<1>3. owed \in BOOLEAN /\ cut \in BOOLEAN /\ failed \in BOOLEAN
  OBVIOUS
<1> HIDE DEF owed, cut, failed
<1>4. logger' \in LoggerState
  BY <1>2, <1>3 DEF LoggerState
<1>5. /\ logger'.at = next.at /\ logger'.told = next.told /\ logger'.lost = next.lost
      /\ logger'.owed = owed /\ logger'.cut = cut /\ logger'.failed = failed
  BY <1>2 DEF LoggerState
<1> QED BY <1>1, <1>4, <1>5 DEF owed, cut, failed

\* A line of the server leaves the command's budget alone, and is whole unless
\* it takes the rest of the reserve.
LEMMA SystemLineKeeps ==
    ASSUME WriterInv, NEW size \in Nat, NEW inserted \in BOOLEAN, NEW next \in LoggerState,
           Appended("system", size, inserted, next), UNCHANGED <<status, pending>>,
           logger.owed => (next.told <=> inserted /\ Whole("system", size)),
           ~logger.owed => next.told = logger.told,
           next.cut = logger.cut, next.failed = logger.failed,
           next.lost => logger.lost \/ ~inserted \/ ~Whole("system", size),
           status = "RUNNING"
    PROVE  WriterInv' /\ rows' \in Nat /\ rows <= rows'
<1>1. /\ budget' = [budget EXCEPT !["system"] = @ - Charge("system", size)] /\ rows' \in Nat /\ rows <= rows'
      /\ logger' \in LoggerState
      /\ logger'.told = next.told /\ logger'.lost = next.lost
      /\ logger'.owed <=> Exhausted("system", size) /\ inserted
      /\ logger'.cut <=> next.cut
      /\ logger'.failed <=> next.failed \/ ~inserted
  <2>1. "system" \in Stream /\ "system" # "command"
    BY DEF Stream
  <2> QED BY <2>1, AppendedFacts DEF WriterInv
<1>2. /\ budget' \in [Stream -> Nat]
      /\ budget'["system"] <= budget["system"] /\ budget'["command"] = budget["command"]
      /\ ~Exhausted("system", size)
      /\ ~Whole("system", size) => budget'["system"] = 0
      /\ budget["system"] = 0 => budget'["system"] = 0
  <2>1. /\ budget \in [Stream -> Nat] /\ Charge("system", size) \in Nat
        /\ Charge("system", size) <= budget["system"]
        /\ ~Whole("system", size) => Charge("system", size) = budget["system"]
    BY ChargeFacts DEF WriterInv, WriterTypeOK, Stream
  <2> QED BY <2>1, <1>1 DEF Stream, Exhausted
<1>3. WriterTypeOK' /\ OwedInv'
  BY <1>1, <1>2 DEF WriterInv, WriterTypeOK, OwedInv
<1>4. ASSUME status # "interrupted", ~logger'.failed
      PROVE  /\ logger'.cut => budget'["command"] = 0
             /\ budget'["command"] = 0 => logger'.told \/ budget'["system"] = 0
             /\ logger'.lost => budget'["system"] = 0
  <2>1. inserted /\ ~logger.failed
    BY <1>1, <1>4
  <2>2. /\ logger.cut => budget["command"] = 0
        /\ budget["command"] = 0 => logger.owed \/ logger.told \/ budget["system"] = 0
        /\ logger.lost => budget["system"] = 0
    BY <2>1, <1>4 DEF WriterInv, BudgetInv
  <2>3. logger'.cut => budget'["command"] = 0
    BY <2>2, <1>1, <1>2
  <2>4. logger'.lost => budget'["system"] = 0
    BY <2>1, <2>2, <1>1, <1>2
  <2>5. budget'["command"] = 0 => logger'.told \/ budget'["system"] = 0
    BY <2>1, <2>2, <1>1, <1>2
  <2> QED BY <2>3, <2>4, <2>5
<1>5. BudgetInv'
  BY <1>4 DEF BudgetInv
<1> QED BY <1>1, <1>3, <1>5 DEF WriterInv

\* A line of the command leaves the reserve alone; when it uses up the budget,
\* the notice is owed.
LEMMA CommandLineKeeps ==
    ASSUME WriterInv, NEW size \in Nat, NEW inserted \in BOOLEAN,
           Appended("command", size, inserted, logger), pending' \in [Output -> Nat],
           UNCHANGED status, ~logger.owed, logger.at \in {"command", "flushing", "written"}
    PROVE  WriterInv' /\ rows' \in Nat /\ rows <= rows'
<1>1. /\ budget' = [budget EXCEPT !["command"] = @ - Charge("command", size)] /\ rows' \in Nat /\ rows <= rows'
      /\ logger' \in LoggerState
      /\ logger'.at = logger.at /\ logger'.told = logger.told /\ logger'.lost = logger.lost
      /\ logger'.owed <=> Exhausted("command", size) /\ inserted
      /\ logger'.cut <=> logger.cut \/ ~Whole("command", size)
      /\ logger'.failed <=> logger.failed \/ ~inserted
  <2>1. logger \in LoggerState /\ "command" \in Stream
    BY DEF WriterInv, WriterTypeOK, Stream
  <2> QED BY <2>1, AppendedFacts DEF WriterInv
<1>2. /\ budget' \in [Stream -> Nat] /\ budget["command"] \in Nat
      /\ budget'["system"] = budget["system"]
      /\ budget["command"] > 0 /\ budget'["command"] = 0 => Exhausted("command", size)
      /\ ~Whole("command", size) => budget'["command"] = 0
      /\ budget["command"] = 0 => budget'["command"] = 0
  <2>1. /\ budget \in [Stream -> Nat] /\ Charge("command", size) \in Nat
        /\ Charge("command", size) <= budget["command"]
        /\ ~Whole("command", size) => Charge("command", size) = budget["command"]
        /\ budget["command"] > 0 /\ Charge("command", size) = budget["command"]
              => Exhausted("command", size)
    BY ChargeFacts DEF WriterInv, WriterTypeOK, Stream
  <2>2. budget'["command"] = budget["command"] - Charge("command", size)
    BY <2>1, <1>1 DEF Stream
  <2> QED BY <2>1, <2>2, <1>1 DEF Stream
<1>3. WriterTypeOK' /\ OwedInv'
  BY <1>1, <1>2 DEF WriterInv, WriterTypeOK, OwedInv
<1>4. ASSUME status # "interrupted", ~logger'.failed
      PROVE  /\ logger'.cut => budget'["command"] = 0
             /\ budget'["command"] = 0 => logger'.owed \/ logger'.told \/ budget'["system"] = 0
             /\ logger'.lost => budget'["system"] = 0
  <2>1. inserted /\ ~logger.failed
    BY <1>1, <1>4
  <2>2. /\ logger.cut => budget["command"] = 0
        /\ budget["command"] = 0 => logger.told \/ budget["system"] = 0
        /\ logger.lost => budget["system"] = 0
    BY <2>1, <1>4 DEF WriterInv, BudgetInv
  <2>3. budget'["command"] = 0 => logger'.owed \/ budget["command"] = 0
    BY <2>1, <1>1, <1>2
  <2> QED BY <2>2, <2>3, <1>1, <1>2
<1>5. BudgetInv'
  BY <1>4 DEF BudgetInv
<1> QED BY <1>1, <1>3, <1>5 DEF WriterInv

LEMMA LoggingKeepsWriter ==
    ASSUME WriterInv, Logging
    PROVE  WriterInv' /\ rows' \in Nat /\ rows <= rows'
<1>1. logger \in LoggerState /\ rows \in Nat /\ pending \in [Output -> Nat]
  BY DEF WriterInv, WriterTypeOK
<1>2. logger.at # "gone" => status = "RUNNING"
  BY DEF WriterInv, OwedInv
<1>3. ASSUME NEW size \in SystemLine, NEW b \in BOOLEAN, BeginLog(size, b)
      PROVE  WriterInv' /\ rows' \in Nat /\ rows <= rows'
  <2> DEFINE next == [logger EXCEPT !.at = "command"]
  <2>1. /\ next \in LoggerState /\ next.told = logger.told /\ next.cut = logger.cut
        /\ next.failed = logger.failed /\ next.lost = logger.lost
    BY <1>1 DEF LoggerState
  <2>2. ~logger.owed /\ status = "RUNNING" /\ size \in Nat
    BY <1>2, <1>3, LogAssumption DEF BeginLog, WriterInv, OwedInv
  <2> HIDE DEF next
  <2>3. Appended("system", size, b, next) /\ UNCHANGED <<status, pending>>
    BY <1>3 DEF BeginLog, next
  <2> QED BY <2>1, <2>2, <2>3, SystemLineKeeps
<1>4. ASSUME NEW size \in SystemLine, NEW b \in BOOLEAN, WriteNotice(size, b)
      PROVE  WriterInv' /\ rows' \in Nat /\ rows <= rows'
  <2> DEFINE told == b /\ Whole("system", size)
             next == [logger EXCEPT !.told = told]
  <2>1. told \in BOOLEAN
    OBVIOUS
  <2> HIDE DEF told
  <2>2. /\ next \in LoggerState /\ next.told = told /\ next.cut = logger.cut
        /\ next.failed = logger.failed /\ next.lost = logger.lost
    BY <1>1, <2>1 DEF LoggerState
  <2>3. logger.owed /\ status = "RUNNING" /\ size \in Nat
    BY <1>4, LogAssumption DEF WriteNotice, WriterInv, OwedInv
  <2> HIDE DEF next
  <2>4. Appended("system", size, b, next) /\ UNCHANGED <<status, pending>>
    BY <1>4 DEF WriteNotice, next, told
  <2>5. next.told <=> b /\ Whole("system", size)
    BY <2>2 DEF told
  <2> QED BY <2>2, <2>3, <2>4, <2>5, SystemLineKeeps
<1>5. ASSUME NEW size \in SystemLine, NEW b \in BOOLEAN, WriteOutcome(size, b)
      PROVE  WriterInv' /\ rows' \in Nat /\ rows <= rows'
  <2> DEFINE lost == logger.lost \/ ~b \/ ~Whole("system", size)
             next == [logger EXCEPT !.at = "written", !.lost = lost]
  <2>1. lost \in BOOLEAN
    OBVIOUS
  <2> HIDE DEF lost
  <2>2. /\ next \in LoggerState /\ next.told = logger.told /\ next.cut = logger.cut
        /\ next.failed = logger.failed /\ next.lost = lost
    BY <1>1, <2>1 DEF LoggerState
  <2>3. ~logger.owed /\ status = "RUNNING" /\ size \in Nat
    BY <1>2, <1>5, LogAssumption DEF WriteOutcome
  <2> HIDE DEF next
  <2>4. Appended("system", size, b, next) /\ UNCHANGED <<status, pending>>
    BY <1>5 DEF WriteOutcome, next, lost
  <2>5. next.lost => logger.lost \/ ~b \/ ~Whole("system", size)
    BY <2>2 DEF lost
  <2> QED BY <2>2, <2>3, <2>4, <2>5, SystemLineKeeps
<1>6. ASSUME NEW size \in SystemLine, NEW b \in BOOLEAN, StageLine(size, b)
      PROVE  WriterInv' /\ rows' \in Nat /\ rows <= rows'
  <2>1. ~logger.owed /\ status = "RUNNING" /\ size \in Nat
    BY <1>2, <1>6, LogAssumption DEF StageLine
  <2>2. Appended("system", size, b, logger) /\ UNCHANGED <<status, pending>>
    BY <1>6 DEF StageLine
  <2> QED BY <2>1, <2>2, <1>1, SystemLineKeeps
<1>7. ASSUME NEW s \in Output, NEW size \in LineSize, NEW newline \in BOOLEAN, NEW b \in BOOLEAN,
             WriteChunk(s, size, newline, b)
      PROVE  WriterInv' /\ rows' \in Nat /\ rows <= rows'
  <2>1. size \in Nat /\ pending[s] + size \in Nat
    BY <1>1, LogAssumption
  <2>2. CASE newline \/ pending[s] + size > MaxLine
    <3>1. /\ Appended("command", pending[s] + size, b, logger) /\ UNCHANGED status
          /\ ~logger.owed /\ logger.at \in {"command", "flushing", "written"}
          /\ pending' \in [Output -> Nat]
      BY <1>1, <1>7, <2>2 DEF WriteChunk
    <3> QED BY <2>1, <3>1, CommandLineKeeps
  <2>3. CASE ~(newline \/ pending[s] + size > MaxLine)
    <3>1. pending' \in [Output -> Nat] /\ UNCHANGED <<status, rows, budget, logger>>
      BY <1>1, <1>7, <2>1, <2>3 DEF WriteChunk
    <3> QED BY <3>1, <1>1 DEF WriterInv, WriterTypeOK, OwedInv, BudgetInv
  <2> QED BY <2>2, <2>3
<1>8. ASSUME NEW s \in Output, NEW b \in BOOLEAN, FlushLine(s, b)
      PROVE  WriterInv' /\ rows' \in Nat /\ rows <= rows'
  <2>1. /\ Appended("command", pending[s], b, logger) /\ UNCHANGED status
        /\ ~logger.owed /\ logger.at \in {"command", "flushing", "written"}
        /\ pending' \in [Output -> Nat] /\ pending[s] \in Nat
    BY <1>1, <1>8 DEF FlushLine
  <2> QED BY <2>1, CommandLineKeeps
<1>9. ASSUME CommandEnds \/ \E b \in BOOLEAN : RecordOutcome(b)
      PROVE  WriterInv' /\ rows' \in Nat /\ rows <= rows'
  <2>1. /\ UNCHANGED <<rows, budget, pending>> /\ ~logger.owed /\ logger.at # "gone"
        /\ \/ logger' = [logger EXCEPT !.at = "flushing"] /\ status' = status
           \/ logger' = [logger EXCEPT !.at = "gone"] /\ status' \in {"ended", status}
    BY <1>9 DEF CommandEnds, RecordOutcome
  <2>2. /\ logger' \in LoggerState /\ logger'.owed = logger.owed /\ logger'.cut = logger.cut
        /\ logger'.told = logger.told /\ logger'.failed = logger.failed
        /\ logger'.lost = logger.lost
    BY <1>1, <2>1 DEF LoggerState
  <2>3. status' = "ended" => logger'.at = "gone"
    BY <1>1, <1>2, <2>1 DEF LoggerState
  <2>4. status' \in {"ended", status}
    BY <2>1
  <2>5. status = "interrupted" => logger.at = "gone"
    BY DEF WriterInv, OwedInv
  <2>6. WriterTypeOK' /\ OwedInv'
    BY <1>1, <2>1, <2>2, <2>3, <2>4 DEF WriterInv, WriterTypeOK, OwedInv
  <2>7. BudgetInv'
    BY <2>1, <2>2, <2>4, <2>5 DEF WriterInv, BudgetInv
  <2> QED BY <1>1, <2>1, <2>6, <2>7 DEF WriterInv
<1> QED BY <1>3, <1>4, <1>5, <1>6, <1>7, <1>8, <1>9 DEF Logging

LEMMA RestartKeepsWriter ==
    ASSUME WriterInv, ServerRestarts
    PROVE  WriterInv' /\ rows' = rows
<1>1. /\ logger' = [logger EXCEPT !.at = "gone", !.owed = FALSE]
      /\ status' = IF status = "RUNNING" THEN "interrupted" ELSE status
      /\ UNCHANGED <<rows, budget, pending>>
  BY DEF ServerRestarts
<1>2. /\ logger' \in LoggerState /\ logger'.at = "gone" /\ ~logger'.owed
      /\ logger'.cut = logger.cut /\ logger'.told = logger.told
      /\ logger'.failed = logger.failed /\ logger'.lost = logger.lost
  BY <1>1 DEF WriterInv, WriterTypeOK, LoggerState
<1>3. WriterTypeOK' /\ OwedInv'
  BY <1>1, <1>2 DEF WriterInv, WriterTypeOK, OwedInv
<1>4. status' # "interrupted" => status = "ended" /\ ~logger.owed
  BY <1>1 DEF WriterInv, WriterTypeOK, OwedInv
<1>5. BudgetInv'
  BY <1>1, <1>2, <1>4 DEF WriterInv, BudgetInv
<1> QED BY <1>1, <1>3, <1>5 DEF WriterInv

-------------------------------------------------------------------------------
(***************************************************************************)
(* The streams and the pages                                               *)
(***************************************************************************)

LoadState == [on : BOOLEAN, cursor : Nat, pages : Nat]

ViewState == [at : {"new", "loading", "ready", "connecting", "streaming", "lost", "silent", "done"},
              detail : BOOLEAN, live : BOOLEAN, reloading : BOOLEAN, lines : Seq(Nat),
              truncated : BOOLEAN, cursor : Nat, loads : [Load -> LoadState],
              after : Nat, last : Nat, late : BOOLEAN]

EndEvent == {"end", "limit", "eof"}

FrameState == [event : EndEvent \cup {"log"}, id : Nat]

HandlerState == [at : {"closed", "lingering", "reading", "checking", "waiting"},
                 page : Page \cup {Nobody}, last : Nat, sent : Nat, over : BOOLEAN]

StreamTypeOK ==
    /\ view \in [Page -> ViewState]
    /\ wire \in [Page -> Seq(FrameState)]
    /\ handler \in [Handler -> HandlerState]
    /\ breaks \in Nat

\* Consecutive lines of the run, or at least lines in order, within the stored ones.
InOrder(lines, late) ==
    /\ \A i \in 1..Len(lines) : lines[i] <= rows
    /\ \A i \in 1..Len(lines) - 1 :
          \/ lines[i + 1] = lines[i] + 1
          \/ lines[i] = Other /\ lines[i + 1] = Other
          \/ late /\ lines[i] < lines[i + 1]

\* The cursor is the last line shown, unless a load came late.
Ends(lines, cursor) == cursor = IF lines = <<>> THEN 0 ELSE lines[Len(lines)]

\* What a page holds.  Only the detail page loads, and only its loads come late.
Shown(rec) ==
    /\ InOrder(rec.lines, rec.late)
    /\ rec.lines # <<>> /\ ~rec.late /\ ~rec.truncated => rec.lines[1] \in {Other, 1}
    /\ ~rec.late => Ends(rec.lines, rec.cursor)
    /\ rec.cursor <= rows
    /\ \A l \in Load : rec.loads[l].cursor <= rows
    /\ ~rec.detail => ~rec.late /\ \A l \in Load : ~rec.loads[l].on

\* Where a stream continues, ResumeFrom of the page's record.
Position(rec) == IF rec.last > rec.after THEN rec.last ELSE rec.after

\* A stream stands where the page's cursor does, unless a load moved the cursor.
Follows(rec) ==
    /\ rec.at = "new" => ~rec.detail /\ ~rec.late /\ rec.cursor = 0
    /\ rec.at \in {"connecting", "streaming"} =>
          Position(rec) <= rows /\ (~rec.late => Position(rec) = rec.cursor)

\* The frames under way continue the stream; only the last one may end it.
WireInv(v) ==
    /\ wire[v] # <<>> => view[v].at = "streaming"
    /\ \A i \in 1..Len(wire[v]) :
          \/ /\ wire[v][i] = Frame("log", Position(view[v]) + i)
             /\ Position(view[v]) + i <= rows
          \/ i = Len(wire[v]) /\ wire[v][i].event \in EndEvent

\* A page is served by one handler at most, which has sent all before its own
\* cursor and no end.
HandlerInv(h) ==
    /\ handler[h].last <= rows
    /\ handler[h].at \in {"reading", "checking", "waiting"} => handler[h].page # Nobody
    /\ handler[h].page # Nobody =>
          /\ handler[h].at \in {"reading", "checking", "waiting"}
          /\ view[handler[h].page].at = "streaming"
          /\ handler[h].last = Position(view[handler[h].page]) + Len(wire[handler[h].page])
          /\ \A i \in 1..Len(wire[handler[h].page]) : wire[handler[h].page][i].event = "log"
    /\ \A g \in Handler : handler[g].page = handler[h].page /\ handler[h].page # Nobody => g = h

StreamInv ==
    /\ StreamTypeOK
    /\ \A v \in Page : Shown(view[v]) /\ Follows(view[v]) /\ WireInv(v)
    /\ \A h \in Handler : HandlerInv(h)

LEMMA UpToInOrder ==
    ASSUME NEW n \in Nat, rows \in Nat, n <= rows
    PROVE  /\ UpTo(n) \in Seq(Nat) /\ \A late \in BOOLEAN : InOrder(UpTo(n), late)
           /\ UpTo(n) # <<>> => UpTo(n)[1] = 1
           /\ Ends(UpTo(n), n)
<1>1. UpTo(n) \in Seq(Nat) /\ Len(UpTo(n)) = n /\ \A i \in 1..n : UpTo(n)[i] = i
  BY UpToSeq DEF UpTo
<1> HIDE DEF UpTo
<1>2. \A late \in BOOLEAN : InOrder(UpTo(n), late)
  BY <1>1 DEF InOrder
<1>3. UpTo(n) # <<>> <=> n # 0
  BY <1>1, EmptySeq
<1> QED BY <1>1, <1>2, <1>3 DEF Ends

\* A view without lines, as it is before the page is opened.
LEMMA NewShown == rows \in Nat => NewView \in ViewState /\ Shown(NewView) /\ Follows(NewView)
<1> SUFFICES ASSUME rows \in Nat
             PROVE  NewView \in ViewState /\ Shown(NewView) /\ Follows(NewView)
  OBVIOUS
<1>1. NoLoad \in LoadState /\ NoLoad.cursor = 0 /\ ~NoLoad.on
  BY DEF NoLoad, LoadState
<1>2. /\ NewView.at = "new" /\ NewView.lines = <<>> /\ ~NewView.late /\ NewView.cursor = 0 /\ ~NewView.detail
      /\ NewView.loads = [l \in Load |-> NoLoad] /\ NewView \in ViewState
  <2>1. <<>> \in Seq(Nat)
    OBVIOUS
  <2> QED BY <1>1, <2>1 DEF NewView, ViewState
<1>3. Len(<<>>) = 0
  OBVIOUS
<1> QED BY <1>1, <1>2, <1>3 DEF Shown, InOrder, Ends, Follows

LEMMA StreamInvInit == Init => StreamInv
<1> SUFFICES ASSUME Init
             PROVE  StreamInv
  OBVIOUS
<1>1. rows \in Nat /\ rows = 0
  BY DEF Init
<1>2. NewView \in ViewState /\ Shown(NewView) /\ Follows(NewView) /\ NoHandler \in HandlerState
  BY <1>1, NewShown DEF NoHandler, HandlerState
<1>3. StreamTypeOK
  BY <1>2 DEF Init, StreamTypeOK
<1>4. \A v \in Page : Shown(view[v]) /\ Follows(view[v]) /\ WireInv(v)
  BY <1>1, <1>2 DEF Init, WireInv
<1>5. \A h \in Handler : HandlerInv(h)
  BY <1>1 DEF Init, NoHandler, HandlerInv
<1> QED BY <1>3, <1>4, <1>5 DEF StreamInv

LEMMA PositionType == \A rec \in ViewState : Position(rec) \in Nat
BY DEF Position, ViewState

\* New rows disturb no reader.
LEMMA RowsKeepStream ==
    ASSUME StreamInv, rows \in Nat, rows' \in Nat, rows <= rows', breaks' \in Nat,
           UNCHANGED <<view, wire, handler>>
    PROVE  StreamInv'
<1>1. StreamTypeOK'
  BY DEF StreamInv, StreamTypeOK
<1>2. ASSUME NEW v \in Page
      PROVE  Shown(view[v])' /\ Follows(view[v])' /\ WireInv(v)'
  <2>1. view[v] \in ViewState /\ view'[v] = view[v] /\ Position(view[v]) \in Nat /\ Len(wire[v]) \in Nat
    BY PositionType DEF StreamInv, StreamTypeOK
  <2>2. Shown(view[v])' /\ Follows(view[v])'
    <3> DEFINE rec == view[v]
    <3>1. Shown(rec) /\ Follows(rec) /\ rec \in ViewState
      BY <2>1 DEF StreamInv
    <3>2. InOrder(rec.lines, rec.late)'
      <4>1. rec.lines \in Seq(Nat)
        BY <3>1 DEF ViewState
      <4>2. \A i \in 1..Len(rec.lines) : rec.lines[i] \in Nat
        BY <4>1
      <4> QED BY <3>1, <4>2 DEF Shown, InOrder
    <3>3. rec.cursor \in Nat /\ \A l \in Load : rec.loads[l].cursor \in Nat
      BY <3>1 DEF ViewState, LoadState
    <3> QED BY <2>1, <3>1, <3>2, <3>3 DEF Shown, Follows, Ends, Position
  <2>3. WireInv(v)'
    BY <2>1 DEF StreamInv, WireInv, Position
  <2> QED BY <2>2, <2>3
<1>3. \A h \in Handler : HandlerInv(h)'
  BY DEF StreamInv, StreamTypeOK, HandlerState, HandlerInv, Position
<1> QED BY <1>1, <1>2, <1>3 DEF StreamInv

\* No handler serves a page that is not being streamed to.
LEMMA UnservedPage ==
    ASSUME StreamInv, NEW v \in Page, view[v].at # "streaming"
    PROVE  wire[v] = <<>> /\ \A h \in Handler : handler[h].page # v
BY LogAssumption DEF StreamInv, WireInv, HandlerInv

\* A page that no handler serves any longer changes, and does not stream now.
LEMMA UnservedPageKeepsStream ==
    ASSUME StreamInv, rows \in Nat, UNCHANGED rows, breaks' \in Nat,
           NEW v \in Page, NEW rec \in ViewState, SetView(v, rec),
           wire' = [wire EXCEPT ![v] = <<>>],
           handler' \in [Handler -> HandlerState],
           \A h \in Handler : IF handler[h].page = v THEN handler'[h] = Lingering
                                                     ELSE handler'[h] = handler[h],
           Shown(rec), Follows(rec), rec.at # "streaming"
    PROVE  StreamInv'
<1>1. /\ view' \in [Page -> ViewState] /\ view'[v] = rec /\ \A u \in Page : u # v => view'[u] = view[u]
      /\ wire' \in [Page -> Seq(FrameState)] /\ wire'[v] = <<>>
      /\ \A u \in Page : u # v => wire'[u] = wire[u]
  BY DEF SetView, StreamInv, StreamTypeOK
<1>2. StreamTypeOK'
  BY <1>1 DEF StreamInv, StreamTypeOK
<1>3. ASSUME NEW u \in Page
      PROVE  Shown(view[u])' /\ Follows(view[u])' /\ WireInv(u)'
  <2>1. CASE u = v
    <3>1. Shown(view[v])' /\ Follows(view[v])'
      BY <1>1 DEF Shown, InOrder, Ends, Follows, Position
    <3>2. WireInv(v)'
      BY <1>1 DEF WireInv
    <3> QED BY <2>1, <3>1, <3>2
  <2>2. CASE u # v
    <3>1. view'[u] = view[u] /\ wire'[u] = wire[u]
      BY <2>2, <1>1
    <3>2. Shown(view[u]) /\ Follows(view[u]) /\ WireInv(u)
      BY DEF StreamInv
    <3>3. Shown(view[u])' /\ Follows(view[u])'
      BY <3>1, <3>2 DEF Shown, InOrder, Ends, Follows, Position
    <3>4. WireInv(u)'
      BY <3>1, <3>2 DEF WireInv, Position
    <3> QED BY <3>3, <3>4
  <2> QED BY <2>1, <2>2
<1>4. Lingering.page = Nobody /\ Lingering.last = 0 /\ Lingering.at = "lingering" /\ v # Nobody
  BY LogAssumption DEF Lingering, NoHandler
<1>5. ASSUME NEW h \in Handler
      PROVE  HandlerInv(h)'
  <2>1. CASE handler[h].page = v
    BY <1>4, <2>1 DEF HandlerInv
  <2>2. CASE handler[h].page # v
    <3>1. handler'[h] = handler[h] /\ handler[h].page \in Page \cup {Nobody}
      BY <2>2 DEF StreamInv, StreamTypeOK, HandlerState
    <3>2. handler[h].page # Nobody => /\ view'[handler[h].page] = view[handler[h].page]
                                      /\ wire'[handler[h].page] = wire[handler[h].page]
      BY <1>1, <2>2, <3>1
    <3>3. \A g \in Handler : handler'[g].page = handler[h].page /\ handler[h].page # Nobody => g = h
      BY <1>4 DEF StreamInv, HandlerInv
    <3> QED BY <3>1, <3>2, <3>3 DEF StreamInv, HandlerInv, Position
  <2> QED BY <2>1, <2>2
<1> QED BY <1>2, <1>3, <1>5 DEF StreamInv

LEMMA DisconnectKeepsStream ==
    ASSUME StreamInv, rows \in Nat, UNCHANGED rows, breaks' \in Nat,
           NEW v \in Page, NEW rec \in ViewState, SetView(v, rec), Disconnect(v),
           Shown(rec), Follows(rec), rec.at # "streaming"
    PROVE  StreamInv'
<1>1. handler \in [Handler -> HandlerState] /\ Lingering \in HandlerState
  BY DEF StreamInv, StreamTypeOK, Lingering, NoHandler, HandlerState
<1>2. /\ handler' \in [Handler -> HandlerState]
      /\ \A h \in Handler : IF handler[h].page = v THEN handler'[h] = Lingering
                                                   ELSE handler'[h] = handler[h]
      /\ wire' = [wire EXCEPT ![v] = <<>>]
  BY <1>1 DEF Disconnect
<1> QED BY <1>2, UnservedPageKeepsStream

LEMMA PageKeepsStream ==
    ASSUME StreamInv, rows \in Nat, UNCHANGED <<rows, wire, handler>>, breaks' \in Nat,
           NEW v \in Page, NEW rec \in ViewState, SetView(v, rec), view[v].at # "streaming",
           Shown(rec), Follows(rec), rec.at # "streaming"
    PROVE  StreamInv'
<1>1. wire[v] = <<>> /\ \A h \in Handler : handler[h].page # v
  BY UnservedPage
<1>2. wire' = [wire EXCEPT ![v] = <<>>] /\ handler' \in [Handler -> HandlerState]
  BY <1>1 DEF StreamInv, StreamTypeOK
<1> QED BY <1>1, <1>2, UnservedPageKeepsStream

\* A page changes and its stream, if it has one, does not.
LEMMA StreamUntouched ==
    ASSUME StreamInv, rows \in Nat, UNCHANGED <<rows, wire, handler>>, breaks' \in Nat,
           NEW v \in Page, NEW rec \in ViewState, SetView(v, rec),
           rec.at = view[v].at, rec.after = view[v].after, rec.last = view[v].last,
           Shown(rec), Follows(rec)
    PROVE  StreamInv'
<1>1. /\ view' \in [Page -> ViewState] /\ view'[v] = rec /\ \A u \in Page : u # v => view'[u] = view[u]
  BY DEF SetView, StreamInv, StreamTypeOK
<1>2. StreamTypeOK'
  BY <1>1 DEF StreamInv, StreamTypeOK
<1>3. \A u \in Page : view'[u].at = view[u].at /\ Position(view'[u]) = Position(view[u])
  BY <1>1 DEF Position
<1>4. ASSUME NEW u \in Page
      PROVE  Shown(view[u])' /\ Follows(view[u])'
  <2>1. CASE u = v
    BY <1>1, <2>1 DEF Shown, InOrder, Ends, Follows, Position
  <2>2. CASE u # v
    <3>1. view'[u] = view[u]
      BY <2>2, <1>1
    <3> QED BY <3>1 DEF StreamInv, Shown, InOrder, Ends, Follows, Position
  <2> QED BY <2>1, <2>2
<1>5. \A u \in Page : WireInv(u)'
  <2>1. ASSUME NEW u \in Page
        PROVE  WireInv(u)'
    <3>1. Position(view[u])' = Position(view[u])
      BY <1>3 DEF Position
    <3> QED BY <1>3, <3>1 DEF StreamInv, WireInv
  <2> QED BY <2>1
<1>6. ASSUME NEW h \in Handler
      PROVE  HandlerInv(h)'
  <2>1. handler[h].page \in Page \cup {Nobody} /\ HandlerInv(h)
    BY DEF StreamInv, StreamTypeOK, HandlerState
  <2>2. handler[h].page # Nobody => /\ Position(view[handler[h].page])' = Position(view[handler[h].page])
                                    /\ view'[handler[h].page].at = view[handler[h].page].at
    BY <1>3, <2>1 DEF Position
  <2> QED BY <2>1, <2>2 DEF HandlerInv
<1> QED BY <1>2, <1>4, <1>5, <1>6 DEF StreamInv

LEMMA LoadSlots ==
    ASSUME rows \in Nat, NEW loads \in [Load -> LoadState], \A k \in Load : loads[k].cursor <= rows,
           NEW l \in Load, NEW load \in LoadState, load.cursor <= rows
    PROVE  /\ [loads EXCEPT ![l] = load] \in [Load -> LoadState]
           /\ \A k \in Load : [loads EXCEPT ![l] = load][k].cursor <= rows
OBVIOUS

\* The end of a load: lines and cursor agree, and a stream that is open is
\* allowed to stand elsewhere.
LEMMA LoadedKeepsStream ==
    ASSUME StreamInv, rows \in Nat, NEW v \in Page, NEW l \in Load, NEW cursor \in Nat,
           cursor <= rows, view[v].detail, SetView(v, LogsLoaded(v, l, cursor)),
           UNCHANGED <<rows, wire, handler>>, breaks' \in Nat
    PROVE  StreamInv'
<1> DEFINE loads == [view[v].loads EXCEPT ![l] = NoLoad]
           lines == UpTo(cursor)
           late == (view[v].at \in {"connecting", "streaming"})
           at == CASE view[v].at = "loading" -> "ready"
                   [] view[v].at = "lost"    -> "silent"
                   [] OTHER                  -> view[v].at
           rec == [view[v] EXCEPT !.loads = loads, !.lines = lines, !.cursor = cursor,
                                  !.late = late, !.at = at]
<1>1. view[v] \in ViewState /\ Shown(view[v]) /\ Follows(view[v])
  BY DEF StreamInv, StreamTypeOK
<1>2. SetView(v, rec)
  BY DEF LogsLoaded, UpTo
<1>3. loads \in [Load -> LoadState] /\ \A k \in Load : loads[k].cursor <= rows
  <2>1. NoLoad \in LoadState /\ NoLoad.cursor <= rows
    BY DEF NoLoad, LoadState
  <2>2. view[v].loads \in [Load -> LoadState] /\ \A k \in Load : view[v].loads[k].cursor <= rows
    BY <1>1 DEF ViewState, Shown
  <2> QED BY <2>1, <2>2, LoadSlots
<1>4. /\ lines \in Seq(Nat) /\ InOrder(lines, late) /\ Ends(lines, cursor)
      /\ lines # <<>> => lines[1] = 1
  <2>1. late \in BOOLEAN
    OBVIOUS
  <2> HIDE DEF late, lines
  <2> QED BY <2>1, UpToInOrder DEF lines
<1>5. /\ at \in {"new", "loading", "ready", "connecting", "streaming", "lost", "silent", "done"}
      /\ at # view[v].at => at \in {"ready", "silent"} /\ view[v].at \in {"loading", "lost"}
      /\ late <=> at \in {"connecting", "streaming"}
      /\ late \in BOOLEAN
  BY <1>1 DEF ViewState
<1> HIDE DEF loads, lines, late, at
<1>6. /\ rec \in ViewState /\ rec.at = at /\ rec.lines = lines /\ rec.cursor = cursor
      /\ rec.loads = loads /\ rec.late = late /\ rec.detail /\ rec.after = view[v].after
      /\ rec.last = view[v].last
  BY <1>1, <1>3, <1>4, <1>5 DEF ViewState
<1> HIDE DEF rec
<1>7. Shown(rec)
  BY <1>3, <1>4, <1>6 DEF Shown
<1>8. Follows(rec)
  <2>1. late => Position(rec) = Position(view[v]) /\ view[v].at \in {"connecting", "streaming"}
    BY <1>6 DEF Position, late
  <2> QED BY <1>1, <1>5, <1>6, <2>1 DEF Follows
<1>9. CASE at = view[v].at
  BY <1>2, <1>6, <1>7, <1>8, <1>9, StreamUntouched
<1>10. CASE at # view[v].at
  <2>1. view[v].at # "streaming" /\ rec.at # "streaming"
    BY <1>5, <1>6, <1>10
  <2> QED BY <1>2, <1>6, <1>7, <1>8, <2>1, PageKeepsStream
<1> QED BY <1>9, <1>10

LEMMA LoadPageKeepsStream ==
    ASSUME StreamInv, rows \in Nat, NEW v \in Page, NEW l \in Load, NEW n \in 0..StoredPage,
           LoadPage(v, l, n)
    PROVE  StreamInv'
<1> DEFINE load == view[v].loads[l]
           cursor == load.cursor + n
<1>1. /\ view[v] \in ViewState /\ Shown(view[v]) /\ Follows(view[v]) /\ breaks \in Nat
      /\ load \in LoadState /\ load.cursor \in Nat /\ load.pages \in Nat
  BY DEF StreamInv, StreamTypeOK, ViewState, LoadState
<1>2. /\ load.on /\ cursor <= rows /\ UNCHANGED <<rows, wire, handler>>
      /\ Fault(n < StoredPage /\ cursor < rows)
  BY DEF LoadPage, nextLogCursor, writerVars
<1>3. /\ n \in Nat /\ cursor \in Nat /\ view[v].detail /\ breaks' \in Nat
  <2>1. n \in Nat /\ cursor \in Nat
    BY <1>1, LogAssumption
  <2>2. view[v].detail
    BY <1>1, <1>2 DEF Shown
  <2>3. breaks' \in Nat
    BY <1>1, <1>2 DEF Fault
  <2> QED BY <2>1, <2>2, <2>3
<1>4. \/ SetView(v, [view[v] EXCEPT !.loads[l].cursor = cursor, !.loads[l].pages = @ + 1])
      \/ SetView(v, LogsLoaded(v, l, cursor))
  BY DEF LoadPage, nextLogCursor
<1>5. CASE SetView(v, LogsLoaded(v, l, cursor))
  <2> HIDE DEF cursor
  <2> QED BY <1>2, <1>3, <1>5, LoadedKeepsStream
<1>6. CASE SetView(v, [view[v] EXCEPT !.loads[l].cursor = cursor, !.loads[l].pages = @ + 1])
  <2> DEFINE pages == load.pages + 1
             next == [load EXCEPT !.cursor = cursor, !.pages = pages]
             loads == [view[v].loads EXCEPT ![l] = next]
             rec == [view[v] EXCEPT !.loads = loads]
  <2>1. SetView(v, rec)
    BY <1>1, <1>6 DEF SetView, ViewState
  <2>2. pages \in Nat
    BY <1>1
  <2> HIDE DEF pages, cursor
  <2>3. next \in LoadState /\ next.cursor = cursor
    BY <1>1, <1>3, <2>2 DEF LoadState
  <2> HIDE DEF next
  <2>4. loads \in [Load -> LoadState] /\ \A k \in Load : loads[k].cursor <= rows
    <3>1. view[v].loads \in [Load -> LoadState] /\ \A k \in Load : view[v].loads[k].cursor <= rows
      BY <1>1 DEF ViewState, Shown
    <3> QED BY <1>2, <2>3, <3>1, LoadSlots
  <2> HIDE DEF loads
  <2>5. /\ rec \in ViewState /\ rec.at = view[v].at /\ rec.after = view[v].after
        /\ rec.last = view[v].last /\ rec.lines = view[v].lines /\ rec.cursor = view[v].cursor
        /\ rec.truncated = view[v].truncated /\ rec.late = view[v].late
        /\ rec.detail = view[v].detail /\ rec.loads = loads
    BY <1>1, <2>4 DEF ViewState
  <2> HIDE DEF rec
  <2>6. Shown(rec)
    BY <1>1, <1>3, <2>4, <2>5 DEF Shown
  <2>7. Follows(rec)
    BY <1>1, <2>5 DEF Follows, Position
  <2> QED BY <1>2, <1>3, <2>1, <2>5, <2>6, <2>7, StreamUntouched
<1> QED BY <1>4, <1>5, <1>6

LEMMA LoadFailsKeepsStream ==
    ASSUME StreamInv, rows \in Nat, NEW v \in Page, NEW l \in Load, LoadFails(v, l)
    PROVE  StreamInv'
<1> DEFINE loads == [view[v].loads EXCEPT ![l] = NoLoad]
           at == IF view[v].at = "loading" THEN "ready" ELSE view[v].at
           rec == [view[v] EXCEPT !.loads = loads, !.at = at]
<1>1. /\ view[v] \in ViewState /\ Shown(view[v]) /\ Follows(view[v]) /\ breaks \in Nat
  BY DEF StreamInv, StreamTypeOK
<1>2. SetView(v, rec) /\ view[v].loads[l].on /\ UNCHANGED <<rows, wire, handler>> /\ breaks' \in Nat
  BY <1>1 DEF LoadFails, writerVars, Fault
<1>3. loads \in [Load -> LoadState] /\ \A k \in Load : loads[k].cursor <= rows
  <2>1. NoLoad \in LoadState /\ NoLoad.cursor <= rows
    BY DEF NoLoad, LoadState
  <2>2. view[v].loads \in [Load -> LoadState] /\ \A k \in Load : view[v].loads[k].cursor <= rows
    BY <1>1 DEF ViewState, Shown
  <2> QED BY <2>1, <2>2, LoadSlots
<1>4. /\ at \in {"new", "loading", "ready", "connecting", "streaming", "lost", "silent", "done"}
      /\ at # view[v].at => at = "ready" /\ view[v].at = "loading"
      /\ view[v].detail
  BY <1>1, <1>2 DEF ViewState, Shown
<1> HIDE DEF loads, at
<1>5. /\ rec \in ViewState /\ rec.at = at /\ rec.lines = view[v].lines /\ rec.cursor = view[v].cursor
      /\ rec.truncated = view[v].truncated /\ rec.late = view[v].late
      /\ rec.detail = view[v].detail /\ rec.loads = loads
      /\ rec.after = view[v].after /\ rec.last = view[v].last
  BY <1>1, <1>3, <1>4 DEF ViewState
<1> HIDE DEF rec
<1>6. Shown(rec) /\ Follows(rec)
  BY <1>1, <1>3, <1>4, <1>5 DEF Shown, Follows, Position
<1>7. CASE at = view[v].at
  BY <1>2, <1>5, <1>6, <1>7, StreamUntouched
<1>8. CASE at # view[v].at
  BY <1>2, <1>4, <1>5, <1>6, <1>8, PageKeepsStream
<1> QED BY <1>7, <1>8

\* A page that starts a load streams no longer.
LEMMA LoadingShown ==
    ASSUME StreamInv, rows \in Nat, NEW v \in Page, NEW l \in Load
    PROVE  /\ Loading(v, l) \in ViewState /\ Loading(v, l).at = "loading"
           /\ Loading(v, l).lines = view[v].lines /\ Loading(v, l).cursor = view[v].cursor
           /\ Loading(v, l).truncated = view[v].truncated /\ Loading(v, l).late = view[v].late
           /\ Loading(v, l).detail = view[v].detail
           /\ Loading(v, l).loads \in [Load -> LoadState]
           /\ \A k \in Load : Loading(v, l).loads[k].cursor <= rows
<1> DEFINE first == [NoLoad EXCEPT !.on = TRUE]
           loads == [view[v].loads EXCEPT ![l] = first]
           rec == [view[v] EXCEPT !.at = "loading", !.after = 0, !.last = 0, !.loads = loads]
<1>1. view[v] \in ViewState /\ Shown(view[v])
  BY DEF StreamInv, StreamTypeOK
<1>2. first \in LoadState /\ first.cursor = 0
  BY DEF NoLoad, LoadState
<1>3. Loading(v, l) = rec
  BY DEF Loading
<1> HIDE DEF first
<1>4. loads \in [Load -> LoadState] /\ \A k \in Load : loads[k].cursor <= rows
  <2>1. view[v].loads \in [Load -> LoadState] /\ \A k \in Load : view[v].loads[k].cursor <= rows
    BY <1>1 DEF ViewState, Shown
  <2> QED BY <1>2, <2>1, LoadSlots
<1> HIDE DEF loads
<1>5. /\ rec \in ViewState /\ rec.at = "loading" /\ rec.lines = view[v].lines
      /\ rec.cursor = view[v].cursor /\ rec.truncated = view[v].truncated
      /\ rec.late = view[v].late /\ rec.detail = view[v].detail /\ rec.loads = loads
  BY <1>1, <1>4 DEF ViewState
<1> QED BY <1>3, <1>4, <1>5

\* The lines of other packages are no lines of the run.
LEMMA OthersInOrder ==
    ASSUME NEW n \in Nat, rows \in Nat
    PROVE  /\ [i \in 1..n |-> Other] \in Seq(Nat) /\ InOrder([i \in 1..n |-> Other], FALSE)
           /\ [i \in 1..n |-> Other] # <<>> => [i \in 1..n |-> Other][1] = Other
           /\ Ends([i \in 1..n |-> Other], 0)
<1> DEFINE s == [i \in 1..n |-> Other]
<1>1. s \in Seq(Nat) /\ Len(s) = n /\ (\A i \in 1..n : s[i] = Other) /\ Other = 0
  BY DEF Other
<1> HIDE DEF s
<1>2. InOrder(s, FALSE)
  BY <1>1 DEF InOrder
<1>3. s # <<>> => n # 0
  BY <1>1, EmptySeq
<1>4. (s # <<>> => s[1] = Other) /\ Ends(s, 0)
  BY <1>1, <1>3 DEF Ends
<1> QED BY <1>1, <1>2, <1>4 DEF s

LEMMA OpenKeepsStream ==
    ASSUME StreamInv, rows \in Nat, NEW v \in Page,
           \/ \E l \in Load : OpenDetailPage(v, l)
           \/ \E others \in 1..MaxShown : OpenDeployPage(v, others)
    PROVE  StreamInv'
<1>1. /\ view[v] \in ViewState /\ Shown(view[v]) /\ Follows(view[v]) /\ breaks \in Nat
      /\ view[v].at = "new" /\ UNCHANGED <<rows, wire, handler, breaks>>
  BY DEF StreamInv, StreamTypeOK, OpenDetailPage, OpenDeployPage, writerVars
<1>2. ASSUME NEW l \in Load, OpenDetailPage(v, l)
      PROVE  StreamInv'
  <2> DEFINE base == Loading(v, l)
             live == (status = "RUNNING")
             rec == [base EXCEPT !.detail = TRUE, !.live = live]
  <2>1. /\ base \in ViewState /\ base.at = "loading" /\ base.lines = view[v].lines
        /\ base.cursor = view[v].cursor /\ base.truncated = view[v].truncated
        /\ base.late = view[v].late /\ base.loads \in [Load -> LoadState]
        /\ \A k \in Load : base.loads[k].cursor <= rows
    BY <1>1, LoadingShown
  <2>2. SetView(v, rec) /\ live \in BOOLEAN
    BY <1>2 DEF OpenDetailPage
  <2> HIDE DEF base, live
  <2>3. /\ rec \in ViewState /\ rec.at = "loading" /\ rec.lines = view[v].lines
        /\ rec.cursor = view[v].cursor /\ rec.truncated = view[v].truncated
        /\ rec.late = view[v].late /\ rec.detail /\ rec.loads = base.loads
    BY <2>1, <2>2 DEF ViewState
  <2> HIDE DEF rec
  <2>4. Shown(rec) /\ Follows(rec)
    BY <1>1, <2>1, <2>3 DEF Shown, Follows
  <2> QED BY <1>1, <2>2, <2>3, <2>4, PageKeepsStream
<1>3. ASSUME NEW others \in 1..MaxShown, OpenDeployPage(v, others)
      PROVE  StreamInv'
  <2> DEFINE lines == [i \in 1..others |-> Other]
             rec == [view[v] EXCEPT !.at = "ready", !.live = TRUE, !.lines = lines]
  <2>1. SetView(v, rec)
    BY <1>3 DEF OpenDeployPage
  <2>2. others \in Nat
    BY LogAssumption
  <2>3. /\ lines \in Seq(Nat) /\ InOrder(lines, FALSE) /\ Ends(lines, 0)
        /\ lines # <<>> => lines[1] = Other
    BY <1>1, <2>2, OthersInOrder
  <2>5. ~view[v].late /\ view[v].cursor = 0
    BY <1>1 DEF Follows
  <2> HIDE DEF lines
  <2>6. /\ rec \in ViewState /\ rec.at = "ready" /\ rec.lines = lines /\ rec.cursor = 0
        /\ rec.late = FALSE /\ rec.loads = view[v].loads /\ rec.detail = view[v].detail
    BY <1>1, <2>3, <2>5 DEF ViewState
  <2> HIDE DEF rec
  <2>7. Shown(rec) /\ Follows(rec)
    BY <1>1, <2>3, <2>5, <2>6 DEF Shown, Follows
  <2> QED BY <1>1, <2>1, <2>6, <2>7, PageKeepsStream
<1> QED BY <1>2, <1>3

\* What a page does of itself between two streams.
LEMMA PageStepKeepsStream ==
    ASSUME StreamInv, rows \in Nat, NEW v \in Page,
           NothingToFollow(v) \/ NewStream(v) \/ StreamRefused(v) \/ reconnectStream(v)
    PROVE  StreamInv'
<1>1. /\ view[v] \in ViewState /\ Shown(view[v]) /\ Follows(view[v]) /\ breaks \in Nat
  BY DEF StreamInv, StreamTypeOK
<1>2. breaks' \in Nat /\ UNCHANGED <<rows, wire, handler>>
  <2>1. UNCHANGED <<rows, wire, handler>>
    BY DEF NothingToFollow, NewStream, StreamRefused, reconnectStream, writerVars
  <2>2. breaks' = breaks \/ Fault(acquireLogStream)
    BY DEF NothingToFollow, NewStream, StreamRefused, reconnectStream
  <2> QED BY <1>1, <2>1, <2>2 DEF Fault
<1>3. ASSUME NothingToFollow(v)
      PROVE  StreamInv'
  <2> DEFINE rec == [view[v] EXCEPT !.at = "done"]
  <2>1. /\ rec \in ViewState /\ rec.at = "done" /\ rec.lines = view[v].lines
        /\ rec.cursor = view[v].cursor /\ rec.truncated = view[v].truncated
        /\ rec.late = view[v].late /\ rec.detail = view[v].detail /\ rec.loads = view[v].loads
    BY <1>1 DEF ViewState
  <2>2. SetView(v, rec) /\ view[v].at = "ready"
    BY <1>3 DEF NothingToFollow
  <2> HIDE DEF rec
  <2>3. Shown(rec) /\ Follows(rec)
    BY <1>1, <2>1 DEF Shown, Follows
  <2> QED BY <1>2, <2>1, <2>2, <2>3, PageKeepsStream
<1>4. ASSUME NewStream(v)
      PROVE  StreamInv'
  <2> DEFINE rec == [view[v] EXCEPT !.at = "connecting", !.after = view[v].cursor, !.last = 0]
  <2>1. /\ rec \in ViewState /\ rec.at = "connecting" /\ rec.lines = view[v].lines
        /\ rec.cursor = view[v].cursor /\ rec.truncated = view[v].truncated
        /\ rec.late = view[v].late /\ rec.detail = view[v].detail /\ rec.loads = view[v].loads
        /\ rec.after = view[v].cursor /\ rec.last = 0 /\ view[v].cursor \in Nat
    BY <1>1 DEF ViewState
  <2>2. SetView(v, rec) /\ view[v].at = "ready"
    BY <1>4 DEF NewStream
  <2> HIDE DEF rec
  <2>3. Shown(rec) /\ Follows(rec)
    BY <1>1, <2>1 DEF Shown, Follows, Position
  <2> QED BY <1>2, <2>1, <2>2, <2>3, PageKeepsStream
<1>5. ASSUME StreamRefused(v)
      PROVE  StreamInv'
  <2> DEFINE rec == [view[v] EXCEPT !.at = "lost", !.after = 0, !.last = 0]
  <2>1. /\ rec \in ViewState /\ rec.at = "lost" /\ rec.lines = view[v].lines
        /\ rec.cursor = view[v].cursor /\ rec.truncated = view[v].truncated
        /\ rec.late = view[v].late /\ rec.detail = view[v].detail /\ rec.loads = view[v].loads
    BY <1>1 DEF ViewState
  <2>2. SetView(v, rec) /\ view[v].at = "connecting"
    BY <1>5 DEF StreamRefused
  <2> HIDE DEF rec
  <2>3. Shown(rec) /\ Follows(rec)
    BY <1>1, <2>1 DEF Shown, Follows
  <2> QED BY <1>2, <2>1, <2>2, <2>3, PageKeepsStream
<1>6. ASSUME reconnectStream(v)
      PROVE  StreamInv'
  <2> DEFINE resume == [view[v] EXCEPT !.at = "ready"]
  <2>1. view[v].at = "lost"
    BY <1>6 DEF reconnectStream
  <2>2. CASE SetView(v, resume)
    <3>1. /\ resume \in ViewState /\ resume.at = "ready" /\ resume.lines = view[v].lines
          /\ resume.cursor = view[v].cursor /\ resume.truncated = view[v].truncated
          /\ resume.late = view[v].late /\ resume.detail = view[v].detail
          /\ resume.loads = view[v].loads
      BY <1>1 DEF ViewState
    <3> HIDE DEF resume
    <3>2. Shown(resume) /\ Follows(resume)
      BY <1>1, <3>1 DEF Shown, Follows
    <3> QED BY <1>2, <2>1, <2>2, <3>1, <3>2, PageKeepsStream
  <2>3. ASSUME NEW l \in Load, view[v].detail, SetView(v, Loading(v, l))
        PROVE  StreamInv'
    <3> DEFINE rec == Loading(v, l)
    <3>1. /\ rec \in ViewState /\ rec.at = "loading" /\ rec.lines = view[v].lines
          /\ rec.cursor = view[v].cursor /\ rec.truncated = view[v].truncated
          /\ rec.late = view[v].late /\ rec.detail = view[v].detail
          /\ \A k \in Load : rec.loads[k].cursor <= rows
      BY LoadingShown
    <3>2. SetView(v, rec)
      BY <2>3
    <3> HIDE DEF rec
    <3>3. Shown(rec) /\ Follows(rec)
      BY <1>1, <2>3, <3>1 DEF Shown, Follows
    <3> QED BY <1>2, <2>1, <3>1, <3>2, <3>3, PageKeepsStream
  <2> QED BY <1>6, <2>2, <2>3 DEF reconnectStream
<1> QED BY <1>3, <1>4, <1>5, <1>6

\* A refresh, or the news that the run is over, closes the page's stream.
LEMMA RefreshKeepsStream ==
    ASSUME StreamInv, rows \in Nat, NEW v \in Page, NEW l \in Load, Refresh(v, l)
    PROVE  StreamInv'
<1> DEFINE base == Loading(v, l)
           rec == [base EXCEPT !.reloading = TRUE]
<1>1. /\ view[v] \in ViewState /\ Shown(view[v]) /\ breaks \in Nat
  BY DEF StreamInv, StreamTypeOK
<1>2. /\ SetView(v, rec) /\ Disconnect(v) /\ view[v].detail /\ UNCHANGED rows /\ breaks' \in Nat
  BY <1>1 DEF Refresh, writerVars, Fault
<1>3. /\ base \in ViewState /\ base.at = "loading" /\ base.lines = view[v].lines
      /\ base.cursor = view[v].cursor /\ base.truncated = view[v].truncated
      /\ base.late = view[v].late /\ base.detail = view[v].detail
      /\ \A k \in Load : base.loads[k].cursor <= rows
  BY LoadingShown
<1> HIDE DEF base
<1>4. /\ rec \in ViewState /\ rec.at = "loading" /\ rec.lines = view[v].lines
      /\ rec.cursor = view[v].cursor /\ rec.truncated = view[v].truncated
      /\ rec.late = view[v].late /\ rec.detail = view[v].detail /\ rec.loads = base.loads
  BY <1>3 DEF ViewState
<1> HIDE DEF rec
<1>5. Shown(rec) /\ Follows(rec)
  BY <1>1, <1>2, <1>3, <1>4 DEF Shown, Follows
<1> QED BY <1>2, <1>4, <1>5, DisconnectKeepsStream

LEMMA ReloadKeepsStream ==
    ASSUME StreamInv, rows \in Nat, NEW v \in Page, NEW answered \in BOOLEAN, ReloadRun(v, answered)
    PROVE  StreamInv'
<1> DEFINE live == IF answered THEN status = "RUNNING" ELSE view[v].live
           rec == [view[v] EXCEPT !.reloading = FALSE, !.live = live]
           closed == [view[v] EXCEPT !.reloading = FALSE, !.live = live,
                                     !.at = "done", !.after = 0, !.last = 0]
<1>1. /\ view[v] \in ViewState /\ Shown(view[v]) /\ Follows(view[v]) /\ breaks \in Nat
  BY DEF StreamInv, StreamTypeOK
<1>2. UNCHANGED rows /\ breaks' \in Nat /\ live \in BOOLEAN
  <2>1. UNCHANGED rows /\ Fault(~answered)
    BY DEF ReloadRun, writerVars
  <2>2. breaks' \in Nat
    BY <1>1, <2>1 DEF Fault
  <2>3. live \in BOOLEAN
    BY <1>1 DEF ViewState
  <2> QED BY <2>1, <2>2, <2>3
<1>3. IF ~live /\ view[v].at \in {"ready", "connecting", "streaming", "silent"}
        THEN SetView(v, closed) /\ Disconnect(v)
        ELSE SetView(v, rec) /\ UNCHANGED <<wire, handler>>
  BY Zenon DEF ReloadRun
<1> HIDE DEF live
<1>4. CASE SetView(v, closed) /\ Disconnect(v)
  <2>1. /\ closed \in ViewState /\ closed.at = "done" /\ closed.lines = view[v].lines
        /\ closed.cursor = view[v].cursor /\ closed.truncated = view[v].truncated
        /\ closed.late = view[v].late /\ closed.detail = view[v].detail
        /\ closed.loads = view[v].loads
    BY <1>1, <1>2 DEF ViewState
  <2> HIDE DEF closed
  <2>2. Shown(closed) /\ Follows(closed)
    BY <1>1, <2>1 DEF Shown, Follows
  <2> QED BY <1>2, <1>4, <2>1, <2>2, DisconnectKeepsStream
<1>5. CASE SetView(v, rec) /\ UNCHANGED <<wire, handler>>
  <2>1. /\ rec \in ViewState /\ rec.at = view[v].at /\ rec.lines = view[v].lines
        /\ rec.cursor = view[v].cursor /\ rec.truncated = view[v].truncated
        /\ rec.late = view[v].late /\ rec.detail = view[v].detail
        /\ rec.loads = view[v].loads /\ rec.after = view[v].after /\ rec.last = view[v].last
    BY <1>1, <1>2 DEF ViewState
  <2> HIDE DEF rec
  <2>2. Shown(rec) /\ Follows(rec)
    BY <1>1, <2>1 DEF Shown, Follows, Position
  <2> QED BY <1>2, <1>5, <2>1, <2>2, StreamUntouched
<1> QED BY <1>3, <1>4, <1>5

\* What was on the wire is lost; the page tries again from where it stands.
LEMMA BreakKeepsStream ==
    ASSUME StreamInv, rows \in Nat, NEW v \in Page, Break(v)
    PROVE  StreamInv'
<1> DEFINE rec == [view[v] EXCEPT !.at = "connecting"]
<1>1. /\ view[v] \in ViewState /\ Shown(view[v]) /\ Follows(view[v]) /\ breaks \in Nat
  BY DEF StreamInv, StreamTypeOK
<1>2. /\ SetView(v, rec) /\ Disconnect(v) /\ view[v].at = "streaming" /\ UNCHANGED rows
      /\ breaks' \in Nat
  BY <1>1 DEF Break, writerVars, Fault
<1>3. /\ rec \in ViewState /\ rec.at = "connecting" /\ rec.lines = view[v].lines
      /\ rec.cursor = view[v].cursor /\ rec.truncated = view[v].truncated
      /\ rec.late = view[v].late /\ rec.detail = view[v].detail
      /\ rec.loads = view[v].loads /\ rec.after = view[v].after /\ rec.last = view[v].last
  BY <1>1 DEF ViewState
<1> HIDE DEF rec
<1>4. Shown(rec) /\ Follows(rec)
  BY <1>1, <1>2, <1>3 DEF Shown, Follows, Position
<1> QED BY <1>2, <1>3, <1>4, DisconnectKeepsStream

LEMMA LogFrames == \A n : Frame("log", n).event = "log"
BY DEF Frame

\* A handler goes on, having sent the rows up to its new cursor, or closes,
\* having sent at most one end.
LEMMA HandlerKeepsStream ==
    ASSUME StreamInv, rows \in Nat, UNCHANGED <<rows, view>>, breaks' \in Nat,
           NEW h \in Handler, NEW rec \in HandlerState, NEW frames \in Seq(FrameState),
           handler[h].page # Nobody, SetHandler(h, rec), Send(h, frames), rec.last <= rows,
           \/ /\ rec.page = handler[h].page /\ rec.at \in {"reading", "checking", "waiting"}
              /\ rec.last = handler[h].last + Len(frames)
              /\ \A i \in 1..Len(frames) : frames[i] = Frame("log", handler[h].last + i)
           \/ /\ rec.page = Nobody /\ rec.at = "closed" /\ Len(frames) <= 1
              /\ \A i \in 1..Len(frames) : frames[i].event \in EndEvent
    PROVE  StreamInv'
<1> DEFINE v == handler[h].page
<1>1. /\ handler \in [Handler -> HandlerState] /\ wire \in [Page -> Seq(FrameState)]
      /\ v \in Page \cup {Nobody} /\ handler[h].last \in Nat /\ HandlerInv(h)
  BY DEF StreamInv, StreamTypeOK, HandlerState
<1>2. /\ handler' \in [Handler -> HandlerState] /\ handler'[h] = rec
      /\ \A g \in Handler : g # h => handler'[g] = handler[g]
  BY <1>1 DEF SetHandler
<1>3. /\ wire' \in [Page -> Seq(FrameState)]
      /\ \A u \in Page : u # v => wire'[u] = wire[u]
      /\ wire'[v] = wire[v] \o frames
  BY <1>1 DEF Send
<1>4. StreamTypeOK'
  BY <1>2, <1>3 DEF StreamInv, StreamTypeOK
<1> HIDE DEF v
<1>5. ASSUME v # Nobody
      PROVE  /\ v \in Page /\ wire[v] \in Seq(FrameState) /\ view[v].at = "streaming"
             /\ Position(view[v]) \in Nat
             /\ handler[h].last = Position(view[v]) + Len(wire[v])
             /\ \A i \in 1..Len(wire[v]) : /\ wire[v][i] = Frame("log", Position(view[v]) + i)
                                           /\ Position(view[v]) + i <= rows
             /\ \A g \in Handler : handler[g].page = v => g = h
  <2>1. v \in Page /\ wire[v] \in Seq(FrameState)
    BY <1>1, <1>5
  <2>2. view[v] \in ViewState /\ WireInv(v)
    BY <2>1 DEF StreamInv, StreamTypeOK
  <2>3. /\ view[v].at = "streaming" /\ handler[h].last = Position(view[v]) + Len(wire[v])
        /\ \A i \in 1..Len(wire[v]) : wire[v][i].event = "log"
        /\ \A g \in Handler : handler[g].page = v => g = h
    BY <1>1, <1>5 DEF HandlerInv, v
  <2>4. \A i \in 1..Len(wire[v]) : wire[v][i] = Frame("log", Position(view[v]) + i)
                                    /\ Position(view[v]) + i <= rows
    BY <2>2, <2>3 DEF WireInv, EndEvent
  <2> QED BY <2>1, <2>2, <2>3, <2>4, PositionType
<1>6. ASSUME NEW u \in Page
      PROVE  Shown(view[u])' /\ Follows(view[u])' /\ WireInv(u)'
  <2>1. Shown(view[u])' /\ Follows(view[u])'
    BY DEF StreamInv, Shown, InOrder, Ends, Follows, Position
  <2>2. CASE u # v
    BY <1>3, <2>1, <2>2 DEF StreamInv, WireInv, Position
  <2>3. CASE u = v
    <3> DEFINE old == wire[v]
               cursor == Position(view[v])
    <3>1. v # Nobody
      BY <2>3, LogAssumption
    <3>2. old \in Seq(FrameState) /\ Len(old) \in Nat /\ Len(frames) \in Nat /\ cursor \in Nat
      BY <1>5, <3>1
    <3>3. /\ wire'[v] = old \o frames /\ Len(wire'[v]) = Len(old) + Len(frames)
          /\ \A i \in 1..Len(old) : wire'[v][i] = old[i]
          /\ \A i \in Len(old)+1..Len(old)+Len(frames) : wire'[v][i] = frames[i - Len(old)]
      <4>1. wire'[v] = old \o frames
        BY <1>3, <3>1
      <4> HIDE DEF old
      <4> QED BY <3>2, <4>1, ConcatParts
    <3>4. /\ \A i \in 1..Len(old) : old[i] = Frame("log", cursor + i) /\ cursor + i <= rows
          /\ handler[h].last = cursor + Len(old)
      BY <1>5, <3>1
    <3> HIDE DEF old, cursor
    <3>5. ASSUME NEW i \in 1..Len(wire'[v])
          PROVE  \/ wire'[v][i] = Frame("log", cursor + i) /\ cursor + i <= rows
                 \/ i = Len(wire'[v]) /\ wire'[v][i].event \in EndEvent
      <4>1. CASE i <= Len(old)
        BY <3>2, <3>3, <3>4, <4>1
      <4>2. CASE i > Len(old)
        <5>1. i - Len(old) \in 1..Len(frames) /\ wire'[v][i] = frames[i - Len(old)]
          <6>1. i \in Len(old)+1..Len(old)+Len(frames)
            BY <3>2, <3>3, <4>2
          <6>2. wire'[v][i] = frames[i - Len(old)]
            BY <3>3, <6>1
          <6> QED BY <3>2, <6>1, <6>2
        <5>2. CASE rec.last = handler[h].last + Len(frames)
                   /\ \A k \in 1..Len(frames) : frames[k] = Frame("log", handler[h].last + k)
          <6>1. frames[i - Len(old)] = Frame("log", handler[h].last + (i - Len(old)))
            BY <5>1, <5>2
          <6>2. handler[h].last + (i - Len(old)) = cursor + i /\ cursor + i <= rows
            BY <3>2, <3>4, <5>1, <5>2
          <6> QED BY <5>1, <6>1, <6>2
        <5>3. CASE Len(frames) <= 1 /\ \A k \in 1..Len(frames) : frames[k].event \in EndEvent
          BY <3>2, <3>3, <5>1, <5>3
        <5> QED BY <5>2, <5>3
      <4> QED BY <3>2, <3>3, <4>1, <4>2
    <3>6. view[v].at = "streaming"
      BY <1>5, <3>1
    <3>7. Position(view'[u]) = cursor
      BY <2>3 DEF Position, cursor
    <3> QED BY <2>1, <2>3, <3>5, <3>6, <3>7 DEF WireInv
  <2> QED BY <2>1, <2>2, <2>3
<1>7. ASSUME NEW g \in Handler
      PROVE  HandlerInv(g)'
  <2>1. CASE g # h
    <3>1. handler'[g] = handler[g] /\ HandlerInv(g) /\ handler[g].page \in Page \cup {Nobody}
      BY <1>1, <1>2, <2>1 DEF StreamInv, HandlerState
    <3>2. handler[g].page # Nobody => handler[g].page # v /\ wire'[handler[g].page] = wire[handler[g].page]
      BY <1>3, <1>5, <2>1, <3>1
    <3>3. rec.page \in {Nobody, v}
      BY DEF v
    <3>4. \A f \in Handler : handler'[f].page = handler[g].page /\ handler[g].page # Nobody => f = g
      BY <1>2, <3>1, <3>2, <3>3 DEF HandlerInv
    <3> QED BY <3>1, <3>2, <3>4 DEF HandlerInv, Position
  <2>2. CASE g = h /\ rec.page = Nobody
    BY <1>2, <2>2 DEF HandlerInv
  <2>3. CASE g = h /\ rec.page # Nobody
    <3>1. /\ rec.page = v /\ v # Nobody /\ rec.at \in {"reading", "checking", "waiting"}
          /\ rec.last = handler[h].last + Len(frames)
          /\ \A i \in 1..Len(frames) : frames[i] = Frame("log", handler[h].last + i)
      BY <2>3 DEF v
    <3> DEFINE old == wire[v]
    <3>2. old \in Seq(FrameState) /\ Len(old) \in Nat /\ Len(frames) \in Nat
      BY <1>5, <3>1
    <3>3. /\ Len(wire'[v]) = Len(old) + Len(frames)
          /\ \A i \in 1..Len(old) : wire'[v][i] = old[i]
          /\ \A i \in Len(old)+1..Len(old)+Len(frames) : wire'[v][i] = frames[i - Len(old)]
      <4>1. wire'[v] = old \o frames
        BY <1>3, <3>1
      <4> HIDE DEF old
      <4> QED BY <3>2, <4>1, ConcatParts
    <3>4. \A i \in 1..Len(old) : old[i].event = "log"
      BY <1>5, <3>1, LogFrames
    <3>5. handler[h].last = Position(view[v]) + Len(old) /\ Position(view[v]) \in Nat
      BY <1>5, <3>1
    <3> HIDE DEF old
    <3>6. ASSUME NEW i \in 1..Len(wire'[v])
          PROVE  wire'[v][i].event = "log"
      <4>1. CASE i <= Len(old)
        BY <3>2, <3>3, <3>4, <4>1
      <4>2. CASE i > Len(old)
        <5>1. i - Len(old) \in 1..Len(frames) /\ wire'[v][i] = frames[i - Len(old)]
          <6>1. i \in Len(old)+1..Len(old)+Len(frames)
            BY <3>2, <3>3, <4>2
          <6>2. wire'[v][i] = frames[i - Len(old)]
            BY <3>3, <6>1
          <6> QED BY <3>2, <6>1, <6>2
        <5> QED BY <3>1, <5>1, LogFrames
      <4> QED BY <3>2, <3>3, <4>1, <4>2
    <3>7. rec.last = Position(view[v]) + Len(wire'[v])
      BY <3>1, <3>2, <3>3, <3>5
    <3>8. \A f \in Handler : handler'[f].page = v => f = h
      BY <1>2, <1>5, <3>1
    <3>9. view[v].at = "streaming"
      BY <1>5, <3>1
    <3>10. Position(view'[v]) = Position(view[v])
      BY DEF Position
    <3> QED BY <1>2, <2>3, <3>1, <3>6, <3>7, <3>8, <3>9, <3>10 DEF HandlerInv
  <2> QED BY <2>1, <2>2, <2>3
<1> QED BY <1>4, <1>6, <1>7 DEF StreamInv

LEMMA SendNothing ==
    ASSUME StreamInv, NEW h \in Handler, handler[h].page # Nobody, wire' = wire
    PROVE  Send(h, <<>>)
<1>1. /\ wire \in [Page -> Seq(FrameState)] /\ handler[h].page \in Page
      /\ wire[handler[h].page] \in Seq(FrameState)
  BY DEF StreamInv, StreamTypeOK, HandlerState
<1>2. wire[handler[h].page] \o <<>> = wire[handler[h].page]
  BY <1>1, ConcatEmptySeq
<1> QED BY <1>1, <1>2 DEF Send

\* A handler that serves nobody closes.
LEMMA NoticeKeepsStream ==
    ASSUME StreamInv, rows \in Nat, NEW h \in Handler, HandlerNotices(h)
    PROVE  StreamInv'
<1>1. /\ handler[h].at = "lingering" /\ SetHandler(h, NoHandler) /\ UNCHANGED <<rows, view, wire, breaks>>
  BY DEF HandlerNotices, writerVars
<1>2. NoHandler \in HandlerState /\ NoHandler.page = Nobody /\ NoHandler.last = 0 /\ NoHandler.at = "closed"
  BY DEF NoHandler, HandlerState
<1>3. /\ handler' \in [Handler -> HandlerState] /\ handler'[h] = NoHandler
      /\ \A g \in Handler : g # h => handler'[g] = handler[g]
  BY <1>1, <1>2 DEF SetHandler, StreamInv, StreamTypeOK
<1>4. StreamTypeOK'
  BY <1>1, <1>3 DEF StreamInv, StreamTypeOK
<1>5. \A v \in Page : Shown(view[v])' /\ Follows(view[v])' /\ WireInv(v)'
  BY <1>1 DEF StreamInv, Shown, InOrder, Ends, Follows, Position, WireInv
<1>6. ASSUME NEW g \in Handler
      PROVE  HandlerInv(g)'
  <2>1. CASE g = h
    BY <1>1, <1>2, <1>3, <2>1 DEF HandlerInv
  <2>2. CASE g # h
    <3>1. handler'[g] = handler[g] /\ HandlerInv(g)
      BY <1>3, <2>2 DEF StreamInv
    <3>2. \A f \in Handler : handler'[f].page = handler[g].page /\ handler[g].page # Nobody => f = g
      BY <1>2, <1>3, <3>1 DEF HandlerInv
    <3> QED BY <1>1, <3>1, <3>2 DEF HandlerInv, Position
  <2> QED BY <2>1, <2>2
<1> QED BY <1>4, <1>5, <1>6 DEF StreamInv

LEMMA HandlerStepKeepsStream ==
    ASSUME StreamInv, rows \in Nat, NEW h \in Handler,
           Serving(h) \/ MaxDuration(h) \/ HandlerFails(h)
    PROVE  StreamInv'
<1>1. /\ handler[h] \in HandlerState /\ handler[h].last \in Nat /\ handler[h].last <= rows
      /\ breaks \in Nat /\ NoHandler \in HandlerState
      /\ handler[h].at \in {"reading", "checking", "waiting"} => handler[h].page # Nobody
  BY DEF StreamInv, StreamTypeOK, HandlerInv, HandlerState, NoHandler
<1>2. NoHandler.page = Nobody /\ NoHandler.last = 0 /\ NoHandler.at = "closed"
  BY DEF NoHandler
<1>3. <<>> \in Seq(FrameState) /\ Len(<<>>) = 0
  OBVIOUS
<1>4. ASSUME NEW n \in 0..PageSize, ReadRows(h, n)
      PROVE  StreamInv'
  <2> DEFINE last == handler[h].last
             frames == [i \in 1..n |-> Frame("log", last + i)]
             at == IF n = PageSize THEN "reading" ELSE "checking"
             upto == last + n
             rec == [handler[h] EXCEPT !.last = upto, !.sent = n, !.at = at]
  <2>1. n \in Nat /\ upto \in Nat /\ upto <= rows /\ at \in {"reading", "checking"}
    <3>1. n \in Nat /\ upto \in Nat
      BY <1>1, <1>4, LogAssumption
    <3>2. upto <= rows
      BY <1>4, Zenon DEF ReadRows
    <3> QED BY <3>1, <3>2
  <2>2. /\ Send(h, frames) /\ SetHandler(h, rec) /\ UNCHANGED <<rows, view>>
        /\ handler[h].page # Nobody /\ breaks' \in Nat
    <3>1. Send(h, frames) /\ SetHandler(h, rec) /\ UNCHANGED <<rows, view>> /\ handler[h].at = "reading"
      BY <1>4 DEF ReadRows, writerVars
    <3>2. breaks' \in Nat
      BY <1>1, <1>4 DEF ReadRows, Fault
    <3> QED BY <1>1, <3>1, <3>2
  <2>3. frames \in Seq(FrameState) /\ Len(frames) = n
        /\ \A i \in 1..Len(frames) : frames[i] = Frame("log", last + i)
    <3>1. \A i \in 1..n : Frame("log", last + i) \in FrameState
      BY <1>1, <2>1 DEF Frame, FrameState
    <3> QED BY <2>1, <3>1
  <2> HIDE DEF frames, at
  <2>4. rec \in HandlerState /\ rec.page = handler[h].page /\ rec.at = at /\ rec.last = upto
    <3> HIDE DEF upto
    <3> QED BY <1>1, <2>1 DEF HandlerState
  <2> HIDE DEF rec
  <2>5. rec.last = handler[h].last + Len(frames)
    BY <2>3, <2>4
  <2> QED BY <1>1, <2>1, <2>2, <2>3, <2>4, <2>5, HandlerKeepsStream
<1>5. ASSUME NEW at \in {"reading", "waiting"}, NEW over \in BOOLEAN,
             handler[h].page # Nobody, UNCHANGED <<rows, view, wire>>, breaks' \in Nat,
             SetHandler(h, [handler[h] EXCEPT !.at = at, !.over = over])
      PROVE  StreamInv'
  <2> DEFINE rec == [handler[h] EXCEPT !.at = at, !.over = over]
  <2>1. rec \in HandlerState /\ rec.page = handler[h].page /\ rec.at = at /\ rec.last = handler[h].last
    BY <1>1 DEF HandlerState
  <2>2. SetHandler(h, rec)
    BY <1>5
  <2> HIDE DEF rec
  <2>3. Send(h, <<>>)
    BY <1>5, SendNothing
  <2>4. rec.last = handler[h].last + Len(<<>>)
    BY <1>1, <1>3, <2>1
  <2>5. \A i \in 1..Len(<<>>) : <<>>[i] = Frame("log", handler[h].last + i)
    BY <1>3
  <2> QED BY <1>1, <1>3, <1>5, <2>1, <2>2, <2>3, <2>4, <2>5, HandlerKeepsStream
<1>6. ASSUME NEW event \in EndEvent, handler[h].page # Nobody,
             Send(h, <<Frame(event, 0)>>), SetHandler(h, NoHandler), UNCHANGED <<rows, view>>, breaks' \in Nat
      PROVE  StreamInv'
  <2> DEFINE frames == <<Frame(event, 0)>>
  <2>1. frames \in Seq(FrameState) /\ Len(frames) = 1 /\ frames[1].event = event
    <3>1. Frame(event, 0) \in FrameState /\ Frame(event, 0).event = event
      BY DEF Frame, FrameState
    <3> QED BY <3>1
  <2>2. Send(h, frames)
    BY <1>6
  <2> HIDE DEF frames
  <2>3. Len(frames) <= 1 /\ \A i \in 1..Len(frames) : frames[i].event \in EndEvent
    BY <2>1
  <2>4. NoHandler.last <= rows
    BY <1>2
  <2> QED BY <1>1, <1>2, <1>6, <2>1, <2>2, <2>3, <2>4, HandlerKeepsStream
<1>7. ASSUME NEW read \in BOOLEAN, CheckStatus(h, read)
      PROVE  StreamInv'
  <2> DEFINE over == IF read THEN status # "RUNNING" ELSE handler[h].over
  <2>1. /\ handler[h].at = "checking" /\ UNCHANGED <<rows, view>>
    BY <1>7 DEF CheckStatus, writerVars
  <2>2. breaks' \in Nat
    <3>1. Fault(~read)
      BY <1>7 DEF CheckStatus
    <3> QED BY <1>1, <3>1 DEF Fault
  <2>3. \/ Send(h, <<Frame("end", 0)>>) /\ SetHandler(h, NoHandler)
        \/ SetHandler(h, [handler[h] EXCEPT !.at = "waiting", !.over = over]) /\ wire' = wire
    BY <1>7, Zenon DEF CheckStatus
  <2>4. "end" \in EndEvent /\ over \in BOOLEAN /\ handler[h].page # Nobody
    BY <1>1, <2>1 DEF EndEvent, HandlerState
  <2> HIDE DEF over
  <2> QED BY <1>5, <1>6, <2>1, <2>2, <2>3, <2>4
<1>8. ASSUME Poll(h)
      PROVE  StreamInv'
  <2>1. /\ handler[h].at = "waiting" /\ UNCHANGED <<rows, view, wire, breaks>>
        /\ SetHandler(h, [handler[h] EXCEPT !.at = "reading"])
    BY <1>8 DEF Poll, writerVars
  <2>2. [handler[h] EXCEPT !.at = "reading"] = [handler[h] EXCEPT !.at = "reading", !.over = handler[h].over]
    BY <1>1 DEF HandlerState
  <2>3. handler[h].over \in BOOLEAN /\ handler[h].page # Nobody
    BY <1>1, <2>1 DEF HandlerState
  <2> QED BY <1>1, <1>5, <2>1, <2>2, <2>3
<1>9. ASSUME MaxDuration(h) \/ HandlerFails(h)
      PROVE  StreamInv'
  <2>1. /\ UNCHANGED <<rows, view>> /\ breaks' \in Nat /\ SetHandler(h, NoHandler)
        /\ handler[h].at \in {"reading", "waiting"}
    BY <1>1, <1>9 DEF MaxDuration, HandlerFails, writerVars, Fault
  <2>2. Send(h, <<Frame("limit", 0)>>) \/ Send(h, <<Frame("eof", 0)>>)
    BY <1>9 DEF MaxDuration, HandlerFails
  <2>3. "limit" \in EndEvent /\ "eof" \in EndEvent
    BY DEF EndEvent
  <2> QED BY <1>1, <1>6, <2>1, <2>2, <2>3
<1> QED BY <1>4, <1>7, <1>8, <1>9, NoticeKeepsStream DEF Serving

\* A restart closes every connection; the browsers try again.
LEMMA RestartKeepsStream ==
    ASSUME StreamInv, rows \in Nat, ServerRestarts
    PROVE  StreamInv'
<1>1. /\ view \in [Page -> ViewState] /\ breaks \in Nat /\ NoHandler \in HandlerState
      /\ NoHandler.page = Nobody /\ NoHandler.last = 0 /\ NoHandler.at = "closed"
  BY DEF StreamInv, StreamTypeOK, HandlerState, NoHandler
<1>2. /\ rows' = rows /\ breaks' \in Nat
      /\ handler' = [h \in Handler |-> NoHandler] /\ wire' = [v \in Page |-> <<>>]
      /\ view' = [v \in Page |-> IF view[v].at = "streaming"
                                 THEN [view[v] EXCEPT !.at = "connecting"] ELSE view[v]]
  BY <1>1 DEF ServerRestarts, Fault
<1>3. ASSUME NEW v \in Page
      PROVE  /\ view'[v] \in ViewState /\ view'[v].lines = view[v].lines
             /\ view'[v].truncated = view[v].truncated /\ view'[v].cursor = view[v].cursor
             /\ view'[v].loads = view[v].loads /\ view'[v].late = view[v].late
             /\ view'[v].detail = view[v].detail
             /\ view'[v].after = view[v].after /\ view'[v].last = view[v].last
             /\ view'[v].at \in {"connecting", "streaming"} =>
                   view[v].at \in {"connecting", "streaming"}
             /\ view'[v].at = "new" => view[v].at = "new"
  <2>1. view[v] \in ViewState
    BY <1>1
  <2>2. CASE view[v].at = "streaming"
    <3>1. view'[v] = [view[v] EXCEPT !.at = "connecting"]
      BY <1>2, <2>2
    <3> QED BY <2>1, <2>2, <3>1 DEF ViewState
  <2>3. CASE view[v].at # "streaming"
    <3>1. view'[v] = view[v]
      BY <1>2, <2>3
    <3> QED BY <2>1, <2>3, <3>1
  <2> QED BY <2>2, <2>3
<1>4. StreamTypeOK'
  <2>1. view' \in [Page -> ViewState]
    BY <1>2, <1>3
  <2> QED BY <1>1, <1>2, <2>1 DEF StreamTypeOK
<1>5. ASSUME NEW v \in Page
      PROVE  Shown(view[v])' /\ Follows(view[v])' /\ WireInv(v)'
  <2>1. Shown(view[v]) /\ Follows(view[v])
    BY DEF StreamInv
  <2>2. Shown(view[v])'
    BY <1>2, <1>3, <2>1 DEF Shown, InOrder, Ends
  <2>3. Follows(view[v])'
    BY <1>2, <1>3, <2>1 DEF Follows, Position
  <2>4. WireInv(v)'
    BY <1>2 DEF WireInv
  <2> QED BY <2>2, <2>3, <2>4
<1>6. \A h \in Handler : HandlerInv(h)'
  BY <1>1, <1>2 DEF HandlerInv
<1> QED BY <1>4, <1>5, <1>6 DEF StreamInv

\* A new handler starts where the page's stream stands.
LEMMA ConnectedKeepsStream ==
    ASSUME StreamInv, rows \in Nat, NEW v \in Page, NEW h \in Handler, Connected(v, h)
    PROVE  StreamInv'
<1> DEFINE over == (status # "RUNNING")
           place == Position(view[v])
           start == [at |-> "reading", page |-> v, last |-> place, sent |-> 0, over |-> over]
           shown == [view[v] EXCEPT !.at = "streaming"]
<1>1. /\ view[v] \in ViewState /\ handler \in [Handler -> HandlerState]
      /\ view \in [Page -> ViewState] /\ Shown(view[v]) /\ Follows(view[v]) /\ place \in Nat
      /\ \A g \in Handler : handler[g].page \in Page \cup {Nobody}
  BY PositionType DEF StreamInv, StreamTypeOK, HandlerState
<1>2. /\ view[v].at = "connecting" /\ UNCHANGED <<rows, wire, breaks>>
      /\ handler' = [handler EXCEPT ![h] = start] /\ view' = [view EXCEPT ![v] = shown]
  BY DEF Connected, SetHandler, SetView, writerVars, ResumeFrom, Position
<1>3. wire[v] = <<>> /\ (\A g \in Handler : handler[g].page # v) /\ v # Nobody /\ place <= rows
  BY <1>1, <1>2, UnservedPage, LogAssumption DEF Follows
<1>4. over \in BOOLEAN
  OBVIOUS
<1> HIDE DEF over
<1>5. /\ shown \in ViewState /\ shown.at = "streaming" /\ shown.lines = view[v].lines
      /\ shown.truncated = view[v].truncated /\ shown.cursor = view[v].cursor
      /\ shown.loads = view[v].loads /\ shown.late = view[v].late /\ shown.detail = view[v].detail
      /\ shown.after = view[v].after /\ shown.last = view[v].last
  BY <1>1 DEF ViewState
<1>6. Position(shown) = place
  BY <1>5 DEF Position
<1> HIDE DEF place
<1>7. start \in HandlerState /\ start.page = v /\ start.last = place /\ start.at = "reading"
  BY <1>1, <1>4 DEF HandlerState
<1> HIDE DEF start, shown
<1>8. /\ view' \in [Page -> ViewState] /\ view'[v] = shown /\ \A u \in Page : u # v => view'[u] = view[u]
      /\ handler' \in [Handler -> HandlerState] /\ handler'[h] = start
      /\ \A g \in Handler : g # h => handler'[g] = handler[g]
  BY <1>1, <1>2, <1>5, <1>7
<1>9. StreamTypeOK'
  BY <1>2, <1>8 DEF StreamInv, StreamTypeOK
<1>10. ASSUME NEW u \in Page
       PROVE  Shown(view[u])' /\ Follows(view[u])' /\ WireInv(u)'
  <2>1. CASE u = v
    <3>1. Shown(shown) /\ Follows(shown)
      BY <1>1, <1>2, <1>3, <1>5, <1>6 DEF Shown, Follows, place
    <3>2. Shown(view[v])' /\ Follows(view[v])'
      BY <1>2, <1>8, <3>1 DEF Shown, InOrder, Ends, Follows
    <3>3. WireInv(v)'
      BY <1>2, <1>3 DEF WireInv
    <3> QED BY <2>1, <3>2, <3>3
  <2>2. CASE u # v
    <3>1. view'[u] = view[u] /\ wire'[u] = wire[u]
      BY <1>2, <1>8, <2>2
    <3> QED BY <1>2, <3>1 DEF StreamInv, Shown, InOrder, Ends, Follows, WireInv
  <2> QED BY <2>1, <2>2
<1>11. ASSUME NEW g \in Handler
       PROVE  HandlerInv(g)'
  <2>1. CASE g = h
    <3>1. /\ handler'[g].page = v /\ handler'[g].last = place /\ handler'[g].at = "reading"
          /\ view'[v].at = "streaming" /\ Position(view'[v]) = place
          /\ wire'[v] = <<>> /\ Len(wire'[v]) = 0 /\ rows' = rows
      BY <1>2, <1>3, <1>5, <1>6, <1>7, <1>8, <2>1
    <3>2. \A f \in Handler : handler'[f].page = v => f = h
      BY <1>3, <1>8
    <3> QED BY <1>1, <1>3, <2>1, <3>1, <3>2 DEF HandlerInv
  <2>2. CASE g # h
    <3>1. handler'[g] = handler[g] /\ HandlerInv(g) /\ handler[g].page # v
      BY <1>3, <1>8, <2>2 DEF StreamInv
    <3>2. handler[g].page # Nobody => view'[handler[g].page] = view[handler[g].page]
      BY <1>1, <1>8, <3>1
    <3>3. \A f \in Handler : handler'[f].page = handler[g].page /\ handler[g].page # Nobody => f = g
      BY <1>7, <1>8, <3>1 DEF HandlerInv
    <3> QED BY <1>2, <3>1, <3>2, <3>3 DEF HandlerInv
  <2> QED BY <2>1, <2>2
<1> QED BY <1>9, <1>10, <1>11 DEF StreamInv

\* A line joins those shown.
LEMMA AppendInOrder ==
    ASSUME rows \in Nat, NEW lines \in Seq(Nat), NEW late \in BOOLEAN, NEW id \in Nat,
           InOrder(lines, late), id <= rows,
           lines # <<>> => id = lines[Len(lines)] + 1 \/ (late /\ lines[Len(lines)] < id)
    PROVE  /\ Append(lines, id) \in Seq(Nat) /\ Len(Append(lines, id)) = Len(lines) + 1
           /\ InOrder(Append(lines, id), late) /\ Ends(Append(lines, id), id)
           /\ Append(lines, id)[1] = IF lines = <<>> THEN id ELSE lines[1]
<1> DEFINE more == Append(lines, id)
           n == Len(lines)
<1>1. n \in Nat /\ (lines = <<>> <=> n = 0) /\ \A i \in 1..n : lines[i] \in Nat
  BY EmptySeq
<1>2. /\ more \in Seq(Nat) /\ Len(more) = n + 1 /\ more[n + 1] = id
      /\ \A i \in 1..n : more[i] = lines[i]
  BY AppendProperties
<1> HIDE DEF more, n
<1>3. ASSUME NEW i \in 1..n + 1
      PROVE  more[i] <= rows
  <2>1. i = n + 1 \/ i \in 1..n
    BY <1>1
  <2>2. i \in 1..n => lines[i] <= rows
    BY DEF InOrder, n
  <2> QED BY <1>2, <2>1, <2>2
<1>4. ASSUME NEW i \in 1..n
      PROVE  \/ more[i + 1] = more[i] + 1
             \/ more[i] = Other /\ more[i + 1] = Other
             \/ late /\ more[i] < more[i + 1]
  <2>1. CASE i = n
    <3>1. more[i] = lines[n] /\ more[i + 1] = id /\ lines # <<>>
      BY <1>1, <1>2, <2>1
    <3> QED BY <3>1 DEF n
  <2>2. CASE i # n
    <3>1. i \in 1..n - 1 /\ i + 1 \in 1..n
      BY <1>1, <2>2
    <3>2. more[i] = lines[i] /\ more[i + 1] = lines[i + 1]
      BY <1>2, <3>1
    <3> QED BY <3>1, <3>2 DEF InOrder, n
  <2> QED BY <2>1, <2>2
<1>5. InOrder(more, late)
  <2>1. Len(more) - 1 = n /\ Len(more) = n + 1
    BY <1>1, <1>2
  <2> QED BY <1>3, <1>4, <2>1 DEF InOrder
<1>6. more # <<>>
  BY <1>1, <1>2, EmptySeq
<1>7. Ends(more, id)
  BY <1>2, <1>6 DEF Ends
<1>8. more[1] = IF lines = <<>> THEN id ELSE lines[1]
  BY <1>1, <1>2
<1> QED BY <1>2, <1>5, <1>7, <1>8 DEF more, n

\* The oldest line shown is dropped.
LEMMA TailInOrder ==
    ASSUME rows \in Nat, NEW lines \in Seq(Nat), NEW late \in BOOLEAN, NEW cursor \in Nat,
           InOrder(lines, late), Ends(lines, cursor), Len(lines) > 1
    PROVE  Tail(lines) \in Seq(Nat) /\ InOrder(Tail(lines), late) /\ Ends(Tail(lines), cursor)
<1> DEFINE rest == Tail(lines)
           n == Len(lines)
<1>1. n \in Nat /\ n > 1 /\ lines # <<>>
  BY EmptySeq
<1>2. /\ rest \in Seq(Nat) /\ Len(rest) = n - 1 /\ \A i \in 1..n - 1 : rest[i] = lines[i + 1]
  BY <1>1, HeadTailProperties
<1> HIDE DEF rest, n
<1>3. ASSUME NEW i \in 1..n - 1
      PROVE  rest[i] <= rows
  <2>1. i + 1 \in 1..n /\ rest[i] = lines[i + 1]
    BY <1>1, <1>2
  <2> QED BY <2>1 DEF InOrder, n
<1>4. ASSUME NEW i \in 1..n - 1 - 1
      PROVE  \/ rest[i + 1] = rest[i] + 1
             \/ rest[i] = Other /\ rest[i + 1] = Other
             \/ late /\ rest[i] < rest[i + 1]
  <2>1. i + 1 \in 1..n - 1 /\ i \in 1..n - 1
    BY <1>1
  <2>2. rest[i] = lines[i + 1] /\ rest[i + 1] = lines[i + 1 + 1]
    BY <1>2, <2>1
  <2> QED BY <2>1, <2>2 DEF InOrder, n
<1>5. InOrder(rest, late)
  BY <1>2, <1>3, <1>4 DEF InOrder
<1>6. rest # <<>> /\ rest[Len(rest)] = lines[n]
  <2>1. n - 1 \in 1..n - 1 /\ n - 1 + 1 = n
    BY <1>1
  <2> QED BY <1>1, <1>2, <2>1, EmptySeq
<1>7. Ends(rest, cursor)
  BY <1>1, <1>6 DEF Ends, n
<1> QED BY <1>2, <1>5, <1>7 DEF rest

\* The next line of its stream leaves a page in order, shown or left out.
LEMMA ReceivedShown ==
    ASSUME StreamInv, rows \in Nat, NEW v \in Page, view[v].at = "streaming",
           NEW id \in Nat, id = Position(view[v]) + 1, id <= rows
    PROVE  /\ receive(v, id) \in ViewState /\ receive(v, id).at = "streaming"
           /\ Shown(receive(v, id)) /\ Follows(receive(v, id)) /\ Position(receive(v, id)) = id
<1> DEFINE moved == [view[v] EXCEPT !.cursor = id, !.last = id]
           lines == view[v].lines
           late == view[v].late
           more == Append(lines, id)
<1>1. /\ view[v] \in ViewState /\ Shown(view[v]) /\ Follows(view[v]) /\ lines \in Seq(Nat)
      /\ late \in BOOLEAN /\ Position(view[v]) \in Nat /\ Len(lines) \in Nat
      /\ view[v].after \in Nat /\ view[v].last \in Nat /\ view[v].cursor \in Nat
      /\ (lines = <<>> <=> Len(lines) = 0) /\ (lines # <<>> => lines[Len(lines)] \in Nat)
  <2>1. view[v] \in ViewState /\ Shown(view[v]) /\ Follows(view[v]) /\ lines \in Seq(Nat)
    BY DEF StreamInv, StreamTypeOK, ViewState
  <2>2. Len(lines) \in Nat /\ (lines = <<>> <=> Len(lines) = 0)
    BY <2>1, EmptySeq
  <2>3. lines # <<>> => lines[Len(lines)] \in Nat
    BY <2>1, <2>2
  <2> QED BY <2>1, <2>2, <2>3, PositionType DEF ViewState
<1>2. view[v].after < id
  BY <1>1 DEF Position
<1>3. ASSUME NEW rec \in ViewState, rec.at = "streaming", rec.cursor = id, rec.last = id,
             rec.after = view[v].after, rec.detail = view[v].detail, rec.loads = view[v].loads,
             rec.late = late, InOrder(rec.lines, late), ~late => Ends(rec.lines, id),
             rec.lines # <<>> /\ ~late /\ ~rec.truncated => rec.lines[1] \in {Other, 1}
      PROVE  Shown(rec) /\ Follows(rec) /\ Position(rec) = id
  <2>1. Position(rec) = id
    BY <1>1, <1>2, <1>3 DEF Position
  <2>2. Shown(rec)
    BY <1>1, <1>3 DEF Shown
  <2>3. Follows(rec)
    BY <1>3, <2>1 DEF Follows
  <2> QED BY <2>1, <2>2, <2>3
<1>4. /\ moved \in ViewState /\ moved.at = "streaming" /\ moved.cursor = id /\ moved.last = id
      /\ moved.after = view[v].after /\ moved.detail = view[v].detail
      /\ moved.loads = view[v].loads /\ moved.late = late /\ moved.lines = lines
      /\ moved.truncated = view[v].truncated
  BY <1>1 DEF ViewState
<1>5. /\ InOrder(lines, late)
      /\ ~late /\ lines # <<>> => id = lines[Len(lines)] + 1
      /\ ~late /\ lines = <<>> => id = 1
      /\ ~late /\ lines # <<>> /\ ~view[v].truncated => lines[1] \in {Other, 1}
  BY <1>1 DEF Shown, Follows, Ends
<1>6. receive(v, id) = IF view[v].detail THEN appendStreamedLine(moved, id)
                       ELSE appendDeployLogLine(moved, id)
  BY DEF receive
<1> HIDE DEF moved, lines, late
<1>7. ASSUME lines # <<>> => id > lines[Len(lines)]
      PROVE  /\ more \in Seq(Nat) /\ Len(more) = Len(lines) + 1 /\ InOrder(more, late)
             /\ Ends(more, id) /\ (~late /\ ~view[v].truncated => more[1] \in {Other, 1})
  <2>1. lines # <<>> => id = lines[Len(lines)] + 1 \/ (late /\ lines[Len(lines)] < id)
    BY <1>1, <1>5, <1>7
  <2> QED BY <1>1, <1>5, <2>1, AppendInOrder
<1>8. CASE view[v].detail
  <2>1. CASE lines # <<>> /\ id <= lines[Len(lines)]
    <3>1. receive(v, id) = moved
      BY <1>4, <1>6, <1>8, <2>1 DEF appendStreamedLine, Last
    <3>2. late
      BY <1>1, <1>5, <2>1
    <3> QED BY <1>3, <1>4, <1>5, <3>1, <3>2
  <2>2. CASE ~(lines # <<>> /\ id <= lines[Len(lines)])
    <3> DEFINE rec == [moved EXCEPT !.lines = more]
    <3>1. receive(v, id) = rec
      BY <1>4, <1>6, <1>8, <2>2 DEF appendStreamedLine, Last
    <3>2. /\ more \in Seq(Nat) /\ InOrder(more, late) /\ Ends(more, id)
          /\ ~late /\ ~view[v].truncated => more[1] \in {Other, 1}
      <4>1. lines # <<>> => id > lines[Len(lines)]
        BY <1>1, <2>2
      <4> HIDE DEF more
      <4> QED BY <1>7, <4>1
    <3> HIDE DEF more
    <3>3. /\ rec \in ViewState /\ rec.at = "streaming" /\ rec.cursor = id /\ rec.last = id
          /\ rec.after = view[v].after /\ rec.detail = view[v].detail
          /\ rec.loads = view[v].loads /\ rec.late = late /\ rec.lines = more
          /\ rec.truncated = view[v].truncated
      BY <1>4, <3>2 DEF ViewState
    <3> HIDE DEF rec
    <3> QED BY <1>3, <3>1, <3>2, <3>3
  <2> QED BY <2>1, <2>2
<1>9. CASE ~view[v].detail
  <2> DEFINE dropped == Len(more) > MaxShown
             kept == IF dropped THEN Tail(more) ELSE more
             truncated == view[v].truncated \/ dropped
             rec == [moved EXCEPT !.lines = kept, !.truncated = truncated]
  <2>1. receive(v, id) = rec
    BY <1>4, <1>6, <1>9 DEF appendDeployLogLine
  <2>2. ~late
    BY <1>1, <1>9 DEF Shown, late
  <2>3. /\ more \in Seq(Nat) /\ InOrder(more, late) /\ Ends(more, id)
        /\ Len(more) = Len(lines) + 1
        /\ ~late /\ ~view[v].truncated => more[1] \in {Other, 1}
    <3>1. lines # <<>> => id > lines[Len(lines)]
      BY <1>1, <1>5, <2>2
    <3> HIDE DEF more
    <3> QED BY <1>7, <3>1
  <2> HIDE DEF more
  <2>4. dropped => Len(more) > 1
    BY <1>1, <2>3, LogAssumption
  <2>5. /\ kept \in Seq(Nat) /\ InOrder(kept, late) /\ Ends(kept, id)
        /\ ~truncated => kept[1] \in {Other, 1}
    BY <1>1, <2>2, <2>3, <2>4, TailInOrder
  <2>6. truncated \in BOOLEAN
    BY <1>1 DEF ViewState
  <2> HIDE DEF kept, truncated
  <2>7. /\ rec \in ViewState /\ rec.at = "streaming" /\ rec.cursor = id /\ rec.last = id
        /\ rec.after = view[v].after /\ rec.detail = view[v].detail
        /\ rec.loads = view[v].loads /\ rec.late = late /\ rec.lines = kept
        /\ rec.truncated = truncated
    BY <1>4, <2>5, <2>6 DEF ViewState
  <2> HIDE DEF rec
  <2> QED BY <1>3, <2>1, <2>5, <2>7
<1> QED BY <1>8, <1>9

LEMMA ReceiveKeepsStream ==
    ASSUME StreamInv, rows \in Nat, NEW v \in Page, NEW reloaded \in BOOLEAN,
           ReceiveFrame(v, reloaded)
    PROVE  StreamInv'
<1> DEFINE old == wire[v]
           frame == Head(old)
           place == Position(view[v])
<1>1. /\ view[v] \in ViewState /\ view \in [Page -> ViewState] /\ wire \in [Page -> Seq(FrameState)]
      /\ handler \in [Handler -> HandlerState] /\ Shown(view[v]) /\ Follows(view[v]) /\ WireInv(v)
      /\ old \in Seq(FrameState) /\ place \in Nat /\ breaks \in Nat
  BY PositionType DEF StreamInv, StreamTypeOK
<1>2. /\ view[v].at = "streaming" /\ old # <<>> /\ UNCHANGED <<rows, handler, breaks>>
      /\ wire' = [wire EXCEPT ![v] = Tail(old)]
  BY DEF ReceiveFrame, writerVars
<1>3. /\ Len(old) \in Nat /\ Len(old) > 0 /\ frame = old[1] /\ frame \in FrameState
      /\ Tail(old) \in Seq(FrameState) /\ Len(Tail(old)) = Len(old) - 1
      /\ \A i \in 1..Len(Tail(old)) : Tail(old)[i] = old[i + 1]
  <2>1. Len(old) \in Nat /\ Len(old) > 0 /\ frame = old[1]
    BY <1>1, <1>2
  <2> HIDE DEF old
  <2> QED BY <1>1, <1>2, <2>1, HeadTailProperties
<1>5. \A i \in 1..Len(old) : \/ old[i] = Frame("log", place + i) /\ place + i <= rows
                             \/ i = Len(old) /\ old[i].event \in EndEvent
  BY <1>1 DEF WireInv
<1>6. CASE frame.event \in EndEvent
  <2>1. Len(old) = 1 /\ Tail(old) = <<>>
    <3>1. "log" \notin EndEvent
      BY DEF EndEvent
    <3>2. Len(old) = 1
      <4>1. frame = Frame("log", place + 1) \/ 1 = Len(old)
        <5>1. 1 \in 1..Len(old)
          BY <1>3
        <5>2. old[1] = Frame("log", place + 1) \/ 1 = Len(old)
          BY <1>5, <5>1
        <5> QED BY <1>3, <5>2
      <4>2. frame # Frame("log", place + 1)
        BY <1>6, <3>1, LogFrames
      <4> QED BY <4>1, <4>2
    <3>3. Len(Tail(old)) = 0
      BY <1>3, <3>2
    <3> QED BY <1>3, <3>2, <3>3, EmptySeq
  <2>2. \A h \in Handler : handler[h].page # v
    <3>1. \A h \in Handler : handler[h].page = v => old[1].event = "log"
      BY <1>3, LogAssumption DEF StreamInv, HandlerInv
    <3> QED BY <1>3, <1>6, <3>1 DEF EndEvent
  <2>3. /\ wire' = [wire EXCEPT ![v] = <<>>] /\ handler' \in [Handler -> HandlerState]
        /\ breaks' \in Nat
        /\ \A h \in Handler : IF handler[h].page = v THEN handler'[h] = Lingering
                                                     ELSE handler'[h] = handler[h]
    BY <1>1, <1>2, <2>1, <2>2
  <2>4. ASSUME NEW rec \in ViewState, SetView(v, rec), rec.at \in {"done", "ready", "connecting"},
               rec.lines = view[v].lines, rec.truncated = view[v].truncated,
               rec.cursor = view[v].cursor, rec.loads = view[v].loads, rec.late = view[v].late,
               rec.detail = view[v].detail,
               rec.at = "connecting" => rec.after = view[v].after /\ rec.last = view[v].last
        PROVE  StreamInv'
    <3>1. Shown(rec) /\ Follows(rec)
      BY <1>1, <1>2, <2>4 DEF Shown, Follows, Position
    <3> QED BY <1>2, <2>3, <2>4, <3>1, UnservedPageKeepsStream
  <2>5. CASE frame.event = "end"
    <3> DEFINE detail == view[v].detail
               rec == [view[v] EXCEPT !.after = 0, !.last = 0, !.at = "done", !.reloading = detail]
    <3>1. SetView(v, rec) /\ detail \in BOOLEAN
      BY <1>1, <2>5 DEF ReceiveFrame, ViewState
    <3>2. /\ rec \in ViewState /\ rec.at = "done" /\ rec.lines = view[v].lines
          /\ rec.truncated = view[v].truncated /\ rec.cursor = view[v].cursor
          /\ rec.loads = view[v].loads /\ rec.late = view[v].late /\ rec.detail = view[v].detail
      BY <1>1, <3>1 DEF ViewState
    <3> HIDE DEF rec
    <3> QED BY <2>4, <3>1, <3>2
  <2>6. CASE frame.event = "limit"
    <3> DEFINE live == IF view[v].detail /\ reloaded THEN status = "RUNNING" ELSE view[v].live
               rec == [view[v] EXCEPT !.after = 0, !.last = 0, !.at = "ready", !.live = live]
    <3>1. SetView(v, rec)
      BY <1>1, <2>6 DEF ReceiveFrame, ViewState
    <3>2. live \in BOOLEAN
      BY <1>1 DEF ViewState
    <3> HIDE DEF live
    <3>3. /\ rec \in ViewState /\ rec.at = "ready" /\ rec.lines = view[v].lines
          /\ rec.truncated = view[v].truncated /\ rec.cursor = view[v].cursor
          /\ rec.loads = view[v].loads /\ rec.late = view[v].late /\ rec.detail = view[v].detail
      BY <1>1, <3>2 DEF ViewState
    <3> HIDE DEF rec
    <3> QED BY <2>4, <3>1, <3>3
  <2>7. CASE frame.event = "eof"
    <3> DEFINE rec == [view[v] EXCEPT !.at = "connecting"]
    <3>1. SetView(v, rec)
      BY <2>7 DEF ReceiveFrame
    <3>2. /\ rec \in ViewState /\ rec.at = "connecting" /\ rec.lines = view[v].lines
          /\ rec.truncated = view[v].truncated /\ rec.cursor = view[v].cursor
          /\ rec.loads = view[v].loads /\ rec.late = view[v].late /\ rec.detail = view[v].detail
          /\ rec.after = view[v].after /\ rec.last = view[v].last
      BY <1>1 DEF ViewState
    <3> HIDE DEF rec
    <3> QED BY <2>4, <3>1, <3>2
  <2> QED BY <1>6, <2>5, <2>6, <2>7 DEF EndEvent
<1>7. CASE frame.event = "log"
  <2> DEFINE next == place + 1
             rec == receive(v, next)
  <2>1. frame.id = next /\ next <= rows /\ next \in Nat
    <3>1. frame = Frame("log", next) /\ next <= rows
      BY <1>3, <1>5, <1>7 DEF EndEvent
    <3> QED BY <1>1, <3>1 DEF Frame
  <2>2. view' = [view EXCEPT ![v] = rec]
    <3>1. SetView(v, receive(v, frame.id))
      BY <1>7 DEF ReceiveFrame
    <3> QED BY <2>1, <3>1 DEF SetView
  <2>3. /\ rec \in ViewState /\ rec.at = "streaming" /\ Shown(rec) /\ Follows(rec)
        /\ Position(rec) = next
    BY <1>2, <2>1, ReceivedShown
  <2> HIDE DEF rec, next
  <2>6. /\ view' \in [Page -> ViewState] /\ view'[v] = rec
        /\ \A u \in Page : u # v => view'[u] = view[u]
        /\ wire' \in [Page -> Seq(FrameState)] /\ wire'[v] = Tail(old)
        /\ \A u \in Page : u # v => wire'[u] = wire[u]
    <3> HIDE DEF old
    <3> QED BY <1>1, <1>2, <1>3, <2>2, <2>3
  <2>7. StreamTypeOK'
    BY <1>2, <2>6 DEF StreamInv, StreamTypeOK
  <2>8. Shown(view[v])' /\ Follows(view[v])'
    BY <1>2, <2>3, <2>6 DEF Shown, InOrder, Ends, Follows, Position
  <2>9. WireInv(v)'
    <3> DEFINE new == Tail(old)
    <3>1. ASSUME NEW i \in 1..Len(new)
          PROVE  \/ new[i] = Frame("log", next + i) /\ next + i <= rows
                 \/ i = Len(new) /\ new[i].event \in EndEvent
      <4>1. i + 1 \in 1..Len(old) /\ new[i] = old[i + 1] /\ Len(new) = Len(old) - 1
        BY <1>3
      <4>2. place + (i + 1) = next + i
        BY <1>1 DEF next
      <4>3. \/ old[i + 1] = Frame("log", place + (i + 1)) /\ place + (i + 1) <= rows
            \/ i + 1 = Len(old) /\ old[i + 1].event \in EndEvent
        BY <1>5, <4>1
      <4>4. Len(old) \in Nat /\ (i + 1 = Len(old) => i = Len(new))
        BY <1>3, <4>1
      <4> QED BY <4>1, <4>2, <4>3, <4>4
    <3> HIDE DEF new
    <3>2. wire'[v] = new /\ view'[v] = rec /\ rec.at = "streaming" /\ rows' = rows
      BY <1>2, <2>3, <2>6 DEF new
    <3>3. Position(view'[v]) = next
      BY <2>3, <3>2
    <3> QED BY <3>1, <3>2, <3>3 DEF WireInv
  <2>10. ASSUME NEW u \in Page, u # v
         PROVE  Shown(view[u])' /\ Follows(view[u])' /\ WireInv(u)'
    <3>1. view'[u] = view[u] /\ wire'[u] = wire[u]
      BY <2>6, <2>10
    <3>2. Shown(view[u]) /\ Follows(view[u]) /\ WireInv(u)
      BY DEF StreamInv
    <3>3. Shown(view[u])' /\ Follows(view[u])'
      BY <1>2, <3>1, <3>2 DEF Shown, InOrder, Ends, Follows, Position
    <3>4. WireInv(u)'
      BY <1>2, <3>1, <3>2 DEF WireInv, Position
    <3> QED BY <3>3, <3>4
  <2>11. ASSUME NEW h \in Handler
         PROVE  HandlerInv(h)'
    <3>1. HandlerInv(h) /\ handler[h].page \in Page \cup {Nobody}
      BY DEF StreamInv, StreamTypeOK, HandlerState
    <3>2. CASE handler[h].page # v
      <4>1. handler[h].page # Nobody => /\ view'[handler[h].page] = view[handler[h].page]
                                        /\ wire'[handler[h].page] = wire[handler[h].page]
        BY <2>6, <3>1, <3>2
      <4> QED BY <1>2, <3>1, <4>1 DEF HandlerInv, Position
    <3>3. CASE handler[h].page = v
      <4>1. v # Nobody
        BY LogAssumption
      <4>2. /\ handler[h].at \in {"reading", "checking", "waiting"}
            /\ handler[h].last = place + Len(old) /\ handler[h].last <= rows
            /\ \A i \in 1..Len(old) : old[i].event = "log"
            /\ \A g \in Handler : handler[g].page = v => g = h
        BY <3>1, <3>3, <4>1 DEF HandlerInv
      <4> HIDE DEF old, place
      <4>3. \A i \in 1..Len(Tail(old)) : Tail(old)[i].event = "log"
        BY <1>3, <4>2
      <4>4. handler[h].last = next + Len(Tail(old))
        <5> DEFINE k == Len(old)
                   m == Len(Tail(old))
        <5>1. m = k - 1 /\ k \in Nat /\ k > 0 /\ place \in Nat /\ next = place + 1
          BY <1>1, <1>3 DEF next
        <5>2. handler[h].last = place + k
          BY <4>2
        <5> HIDE DEF k, m
        <5>3. handler[h].last = next + m
          BY <5>1, <5>2
        <5> QED BY <5>3 DEF m
      <4>5. Position(view'[v]) = next /\ view'[v].at = "streaming"
        BY <2>3, <2>6
      <4> QED BY <1>2, <2>6, <3>3, <4>1, <4>2, <4>3, <4>4, <4>5 DEF HandlerInv
    <3> QED BY <3>2, <3>3
  <2> QED BY <2>7, <2>8, <2>9, <2>10, <2>11 DEF StreamInv
<1> QED BY <1>3, <1>6, <1>7 DEF FrameState

LEMMA LoggingCounts ==
    ASSUME breaks \in Nat, Logging
    PROVE  breaks' \in Nat
<1>1. ASSUME NEW b \in BOOLEAN, Fault(~b)
      PROVE  breaks' \in Nat
  BY <1>1 DEF Fault
<1>2. ASSUME NEW size \in SystemLine, NEW b \in BOOLEAN,
             BeginLog(size, b) \/ WriteNotice(size, b) \/ WriteOutcome(size, b) \/ StageLine(size, b)
      PROVE  breaks' \in Nat
  BY <1>1, <1>2 DEF BeginLog, WriteNotice, WriteOutcome, StageLine, Appended
<1>3. ASSUME NEW s \in Output, NEW size \in LineSize, NEW newline \in BOOLEAN, NEW b \in BOOLEAN,
             WriteChunk(s, size, newline, b)
      PROVE  breaks' \in Nat
  <2>1. Fault(~b) \/ breaks' = breaks
    BY <1>3, Zenon DEF WriteChunk, Appended
  <2> QED BY <1>1, <2>1
<1>4. ASSUME NEW s \in Output, NEW b \in BOOLEAN, FlushLine(s, b)
      PROVE  breaks' \in Nat
  BY <1>1, <1>4 DEF FlushLine, Appended
<1>5. ASSUME CommandEnds \/ \E b \in BOOLEAN : RecordOutcome(b)
      PROVE  breaks' \in Nat
  BY <1>1, <1>5 DEF CommandEnds, RecordOutcome
<1> QED BY <1>2, <1>3, <1>4, <1>5 DEF Logging

LEMMA StreamInvStep ==
    ASSUME WriterInv, StreamInv, [Next]_vars
    PROVE  WriterInv' /\ StreamInv'
<1>1. rows \in Nat /\ breaks \in Nat
  BY DEF WriterInv, WriterTypeOK, StreamInv, StreamTypeOK
<1>2. ASSUME UNCHANGED writerVars
      PROVE  WriterInv'
  BY <1>2 DEF writerVars, WriterInv, WriterTypeOK, OwedInv, BudgetInv
<1>3. CASE Logging
  <2>1. UNCHANGED <<view, wire, handler>>
    BY <1>3 DEF Logging
  <2> QED BY <1>1, <1>3, <2>1, LoggingKeepsWriter, LoggingCounts, RowsKeepStream
<1>4. CASE ServerRestarts
  BY <1>1, <1>4, RestartKeepsWriter, RestartKeepsStream
<1>5. ASSUME NEW h \in Handler, Serving(h) \/ MaxDuration(h) \/ HandlerFails(h)
      PROVE  WriterInv' /\ StreamInv'
  <2>1. UNCHANGED writerVars
    BY <1>5 DEF Serving, ReadRows, CheckStatus, Poll, HandlerNotices, MaxDuration, HandlerFails
  <2> QED BY <1>1, <1>2, <1>5, <2>1, HandlerStepKeepsStream
<1>6. ASSUME NEW v \in Page,
             \/ Browsing(v) \/ Break(v) \/ reconnectStream(v)
             \/ \E l \in Load : OpenDetailPage(v, l) \/ Refresh(v, l)
             \/ \E others \in 1..MaxShown : OpenDeployPage(v, others)
      PROVE  WriterInv' /\ StreamInv'
  <2>1. UNCHANGED writerVars
    BY <1>6 DEF Browsing, LoadPage, LoadFails, ReloadRun, NothingToFollow, NewStream, Connected,
                StreamRefused, ReceiveFrame, Break, reconnectStream, OpenDetailPage, Refresh,
                OpenDeployPage
  <2>2. \/ \E l \in Load : LoadFails(v, l) \/ Refresh(v, l) \/ \E n \in 0..StoredPage : LoadPage(v, l, n)
        \/ \E b \in BOOLEAN : ReloadRun(v, b)
        \/ NothingToFollow(v) \/ NewStream(v) \/ StreamRefused(v) \/ reconnectStream(v)
        \/ \E l \in Load : OpenDetailPage(v, l)
        \/ \E others \in 1..MaxShown : OpenDeployPage(v, others)
        \/ \E h \in Handler : Connected(v, h)
        \/ \E b \in BOOLEAN : ReceiveFrame(v, b)
        \/ Break(v)
    BY <1>6 DEF Browsing
  <2>3. StreamInv'
    BY <1>1, <2>2, LoadPageKeepsStream, LoadFailsKeepsStream, RefreshKeepsStream,
       ReloadKeepsStream, PageStepKeepsStream, OpenKeepsStream, ConnectedKeepsStream,
       ReceiveKeepsStream, BreakKeepsStream
  <2> QED BY <1>2, <2>1, <2>3
<1>7. CASE UNCHANGED vars
  <2>1. UNCHANGED writerVars /\ UNCHANGED <<view, wire, handler, breaks>> /\ rows' = rows
    BY <1>7 DEF vars, writerVars
  <2> QED BY <1>1, <1>2, <2>1, RowsKeepStream
<1> QED BY <1>3, <1>4, <1>5, <1>6, <1>7 DEF Next

\* The writer and the readers keep their invariants through every run, with any
\* number of pages, loads, handlers, failed INSERTs and requests, broken
\* connections, refreshes and restarts.
THEOREM LogInvariant == Spec => [](WriterInv /\ StreamInv)
<1>1. Init => WriterInv /\ StreamInv
  BY WriterInvInit, StreamInvInit
<1>2. (WriterInv /\ StreamInv) /\ [Next]_vars => (WriterInv /\ StreamInv)'
  BY StreamInvStep
<1> QED BY <1>1, <1>2, PTL DEF Spec

\* For any page sizes, display limit, number of pages, loads and streams, and
\* however often connections break, are refused or time out, pages are refreshed
\* and the server restarts: what a page shows are stored lines, each followed by
\* the next, from the first on unless it says that it dropped older ones; and in
\* order where overlapping loads replaced the lines under an open stream
\* (streamSimpleRunLogs with collectStoredLogs, appendStreamedLine and
\* appendDeployLogLine).
THEOREM ShownLogsAreUnbroken == Spec => []ShownLogIsUnbroken
<1>1. StreamInv => ShownLogIsUnbroken
  <2> SUFFICES ASSUME StreamInv, NEW v \in Page
               PROVE  /\ \A i \in DOMAIN view[v].lines : view[v].lines[i] <= rows
                      /\ \A i \in DOMAIN view[v].lines : i + 1 \in DOMAIN view[v].lines =>
                            MayFollow(v, view[v].lines[i], view[v].lines[i + 1])
                      /\ view[v].lines # <<>> /\ ~view[v].late /\ ~view[v].truncated =>
                            view[v].lines[1] \in {Other, 1}
    BY DEF ShownLogIsUnbroken
  <2> DEFINE lines == view[v].lines
  <2>1. Shown(view[v]) /\ lines \in Seq(Nat)
    BY DEF StreamInv, StreamTypeOK, ViewState
  <2>2. DOMAIN lines = 1..Len(lines) /\ Len(lines) \in Nat
    BY <2>1
  <2>3. \A i \in DOMAIN lines : i + 1 \in DOMAIN lines => i \in 1..Len(lines) - 1
    BY <2>2
  <2>4. InOrder(lines, view[v].late)
    BY <2>1 DEF Shown
  <2>5. \A i \in DOMAIN lines : i + 1 \in DOMAIN lines => MayFollow(v, lines[i], lines[i + 1])
    <3> HIDE DEF lines
    <3> QED BY <2>3, <2>4 DEF InOrder, MayFollow
  <2>6. \A i \in DOMAIN lines : lines[i] <= rows
    BY <2>2, <2>4 DEF InOrder
  <2> QED BY <2>1, <2>5, <2>6 DEF Shown
<1> QED BY <1>1, LogInvariant, PTL

\* For any budgets, line lengths and interleaving of the output streams: a run
\* that recorded its outcome has it in its log, and the log says when output is
\* missing (logBudget.take and simpleRunLogger.append).
THEOREM LogsTellTheOutcome == Spec => []LogTellsTheOutcome
<1>1. WriterInv => LogTellsTheOutcome
  <2> SUFFICES ASSUME WriterInv, status = "ended", ~logger.failed, budget["system"] > 0
               PROVE  ~logger.lost /\ (logger.cut => logger.told)
    BY DEF LogTellsTheOutcome
  <2>1. ~logger.owed /\ budget["system"] # 0
    BY DEF WriterInv, OwedInv
  <2> QED BY <2>1 DEF WriterInv, BudgetInv
<1> QED BY <1>1, LogInvariant, PTL

===============================================================================
