------------------------------ MODULE LogQuery ------------------------------
(***************************************************************************)
(* encoder.QueryLogs (src/log/encoder/text_query.go): the lines of the     *)
(* daily log files that match a request, up to a limit.  The count that    *)
(* stops a query is a package variable that every query resets.  A file is *)
(* one chunk (more than one only above 400 MB, see LogText); a line is  *)
(* its time and where the pattern of a message request occurs in it; the   *)
(* separator is the default one, and more fields are named than the time.  *)
(***************************************************************************)
EXTENDS Integers, Sequences, SequencesExt, FiniteSets

CONSTANTS
  Queries,     \* goroutines that call QueryLogs
  Moments,     \* times, two to a day: DayOf(t) is the day of time t
  Days,        \* bound: days that have a file
  MaxLines,    \* bound: lines in all files together
  LogLimit,    \* logLimit
  MaxQueries   \* bound: calls

DayNumbers == 1..Days
DayOf(t) == t \div 2

ASSUME QueryAssumption ==
  /\ Moments \subseteq {t \in Nat : DayOf(t) \in DayNumbers}
  /\ Days \in Nat /\ MaxLines \in Nat /\ LogLimit \in Nat \ {0} /\ MaxQueries \in Nat
  /\ IsFiniteSet(Queries)

VARIABLES
  tqFiles,     \* tqFiles[d]: the file of day d: its lines, and does it end in '\n'
  tqTotal,     \* the package variable total
  tqQuery,     \* tqQuery[q]: the request, the day and line it is at, its results
  tqAlone,     \* the queries no other has overlapped
  tqCount      \* calls so far

queryVars == <<tqFiles, tqTotal, tqQuery, tqAlone, tqCount>>

StoredLines(d) == [time : {t \in Moments : DayOf(t) = d},
                   pattern : {"no", "elsewhere", "message"}]
\* A request asks for a message with a pattern in it, or with "", or for none.
Requests == {r \in [from : Moments, to : Moments, message : {"any", "pattern", "empty"}] :
               r.from <= r.to}

\* The files the log writes: in the order of time, complete lines but for the last.
InOrder(lines) == \A i, j \in DOMAIN lines : i < j => lines[i].time <= lines[j].time
Files == {f \in [DayNumbers -> UNION {[lines : BoundedSeq(StoredLines(d), MaxLines),
                                       newline : BOOLEAN] : d \in DayNumbers}] :
            \A d \in DayNumbers : /\ f[d].lines \in Seq(StoredLines(d)) /\ InOrder(f[d].lines)
                                  /\ f[d].lines = <<>> => f[d].newline}

NoQuery == [step |-> "idle", request |-> CHOOSE r \in Requests : TRUE,
            day |-> 0, line |-> 0, chunk |-> <<>>, results |-> <<>>]

QueryTypeOK ==
  /\ tqTotal \in 0..(LogLimit + Cardinality(Queries)) /\ tqCount \in 0..MaxQueries
  /\ tqAlone \subseteq Queries
  /\ \A q \in Queries : tqQuery[q].step \in {"idle", "file", "line", "done"}

QueryStart ==
  /\ tqTotal = 0 /\ tqAlone = {} /\ tqCount = 0
  /\ tqQuery = [q \in Queries |-> NoQuery]

QueryInit ==
  /\ tqFiles \in {f \in Files :
       FoldFunction(+, 0, [d \in DayNumbers |-> Len(f[d].lines)]) <= MaxLines}
  /\ QueryStart

Active == {q \in Queries : tqQuery[q].step \in {"file", "line"}}

ResetTotal_not == tqTotal     \* fault: newManager does not reset the count
ResetTotal == 0

\* newManager resets the count, whoever else is counting.
BeginQuery(q, request) ==
  /\ tqQuery[q].step \in {"idle", "done"} /\ tqCount < MaxQueries
  /\ tqCount' = tqCount + 1 /\ tqTotal' = ResetTotal
  /\ tqQuery' = [tqQuery EXCEPT ![q] = [NoQuery EXCEPT
       !.step = "file", !.request = request, !.day = DayOf(request.from)]]
  /\ tqAlone' = IF Active = {} THEN {q} ELSE {}
  /\ UNCHANGED tqFiles

\* The time range of the file's one chunk: of its first line to its last.
Outside(lines, request) ==
  lines = <<>> \/ Head(lines).time > request.to \/ Last(lines).time < request.from

\* processFiles: the next day's file, unless the count has reached the limit.
NextFile(q) ==
  LET c == tqQuery[q]
      ends == c.day > DayOf(c.request.to) \/ tqTotal >= LogLimit
  IN /\ c.step = "file"
     /\ tqQuery' = [tqQuery EXCEPT ![q] =
          IF ends THEN [c EXCEPT !.step = "done"]
          ELSE IF Outside(tqFiles[c.day].lines, c.request) THEN [c EXCEPT !.day = @ + 1]
          ELSE [c EXCEPT !.step = "line", !.line = 1, !.chunk = <<>>]]
     /\ UNCHANGED <<tqFiles, tqTotal, tqAlone, tqCount>>

\* processChunk found a line: with a message request the search skips the lines
\* that do not hold the pattern anywhere; "" is in every line.
Searched(c, i) == c.request.message = "pattern" => tqFiles[c.day].lines[i].pattern # "no"

\* matchFilters.
MatchesTime(line, request) == request.from <= line.time /\ line.time <= request.to
Matches(line, request) ==
  MatchesTime(line, request) /\ (request.message = "pattern" => line.pattern = "message")

\* total++ is not atomic: of two at once, one may be lost.
Counted == {tqTotal + 1} \cup (IF Cardinality(Active) > 1 THEN {tqTotal} ELSE {})

NextLine(q) ==
  LET c == tqQuery[q]
      lines == tqFiles[c.day].lines
  IN /\ c.step = "line" /\ tqTotal < LogLimit /\ c.line <= Len(lines)
     /\ IF Searched(c, c.line) /\ Matches(lines[c.line], c.request)
        THEN /\ tqTotal' \in Counted
             /\ tqQuery' = [tqQuery EXCEPT ![q].line = @ + 1,
                                           ![q].chunk = Append(@, lines[c.line])]
        ELSE /\ UNCHANGED tqTotal
             /\ tqQuery' = [tqQuery EXCEPT ![q].line = @ + 1]
     /\ UNCHANGED <<tqFiles, tqAlone, tqCount>>

\* The search for a message goes on behind the last line.  The slice is out of
\* range where that line held the pattern and no newline ends it, and always when
\* the pattern is "", which is found once more behind the newline: processChunk
\* recovers from the panic and returns no results.
SearchPanics(c) ==
  LET file == tqFiles[c.day]
  IN /\ tqTotal < LogLimit
     /\ \/ c.request.message = "empty"
        \/ c.request.message = "pattern" /\ ~file.newline /\ Searched(c, Len(file.lines))

ChunkEnds(q) ==
  LET c == tqQuery[q]
  IN /\ c.step = "line" /\ (tqTotal >= LogLimit \/ c.line > Len(tqFiles[c.day].lines))
     /\ tqQuery' = [tqQuery EXCEPT
          ![q].step = "file", ![q].day = @ + 1, ![q].chunk = <<>>,
          ![q].results = IF SearchPanics(c) THEN @ ELSE @ \o c.chunk]
     /\ UNCHANGED <<tqFiles, tqTotal, tqAlone, tqCount>>

QueryNext == \E q \in Queries :
  NextFile(q) \/ NextLine(q) \/ ChunkEnds(q) \/ \E r \in Requests : BeginQuery(q, r)

QuerySpec == QueryInit /\ [][QueryNext]_queryVars

\* What a request asks for: the places (day and line) of the lines that match.
Asked(files, request) == {p \in DayNumbers \X (1..MaxLines) :
  p[2] <= Len(files[p[1]].lines) /\ Matches(files[p[1]].lines[p[2]], request)}

\* The asked places that come earlier in the files.
EarlierThan(p, asked) == {o \in asked : o[1] < p[1] \/ (o[1] = p[1] /\ o[2] < p[2])}

\* The first LogLimit of these lines, each behind the ones that come earlier.
Answers(results, files, asked) ==
  /\ Len(results) = IF Cardinality(asked) < LogLimit THEN Cardinality(asked) ELSE LogLimit
  /\ \A p \in asked : LET rank == Cardinality(EarlierThan(p, asked)) IN
       rank < LogLimit => results[rank + 1] = files[p[1]].lines[p[2]]

(***************************************************************************)
(* A query that no other overlapped returns the lines asked for, in order, *)
(* over the files of all days and up to the limit, whatever earlier        *)
(* queries left in the package's count, when the files end in a newline    *)
(* and it does not ask for a message with "" in it: of such a query a file *)
(* searched to its end gives nothing.  Two at once cut each other short    *)
(* (text_query.go:83,273,309).                                             *)
(***************************************************************************)
QueryExact == \A q \in tqAlone :
  LET c == tqQuery[q]
      complete == \A d \in DayNumbers : tqFiles[d].newline
  IN  c.step = "done" /\ complete /\ c.request.message # "empty" =>
        Answers(c.results, tqFiles, Asked(tqFiles, c.request))
=============================================================================
