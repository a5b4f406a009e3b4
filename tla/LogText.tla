------------------------------ MODULE LogText -------------------------------
(***************************************************************************)
(* The data of the log packages: the fields a hook core sends on           *)
(* (hook/core.go), the line the text encoder writes and the query parses   *)
(* (encoder/text_encoder.go, text_query.go), and the cut of a file into    *)
(* chunks.  A text is the sequence of its parts between separators, so one *)
(* without the separator has one part; data is a sequence of bytes of      *)
(* which only "\n" matters.  Each action is a call with its result.        *)
(***************************************************************************)
EXTENDS Integers, Sequences, SequencesExt

CONSTANTS FieldKeys,   \* keys of log fields
          MaxData,     \* bounds the bytes of a file
          MaxChunks,   \* bounds the chunks of a file
          MaxText      \* bounds the parts of a text

ASSUME LogTextAssumption == MaxData \in Nat /\ MaxChunks \in Nat /\ MaxText \in Nat

VARIABLES ltCall,  \* the last call: "none", "write", "line" or "split"
          ltIn,    \* its arguments
          ltOut    \* its result
logTextVars == <<ltCall, ltIn, ltOut>>

-----------------------------------------------------------------------------
\* A field is its key and where its value comes from; a map has one for each key.
NoField == "absent"
FieldMap(fields) ==
  [k \in FieldKeys |->
     LET at == {i \in DOMAIN fields : fields[i].key = k}
     IN  IF at = {} THEN NoField
         ELSE fields[CHOOSE i \in at : \A j \in at : j <= i].value]

\* filterFields: the fields of the configuration, then the filter.
FilterFields_filterFirst(map, config, filter) ==
  [k \in FieldKeys |-> IF k \in config THEN "config" ELSE IF k \in filter THEN NoField ELSE map[k]]
FilterFields(map, config, filter) ==
  [k \in FieldKeys |-> IF k \in filter THEN NoField ELSE IF k \in config THEN "config" ELSE map[k]]

\* BaseCore.Write: the fields of With take the place of those of the call.
WriteFields(fields, with, config, filter) ==
  LET called == FieldMap(fields)  kept == FieldMap(with)
      merged == [k \in FieldKeys |-> IF kept[k] # NoField THEN kept[k] ELSE called[k]]
  IN  FilterFields(merged, config, filter)

CallFields(source) == UNION {[1..n -> [key : FieldKeys, value : {source}]] : n \in 0..1}

CallWrite ==
  /\ ltCall = "none" /\ ltCall' = "write"
  /\ \E fields \in CallFields("call"), with \in CallFields("with"),
        config, filter \in SUBSET FieldKeys :
       /\ ltIn' = [fields |-> fields, with |-> with, config |-> config, filter |-> filter]
       /\ ltOut' = WriteFields(fields, with, config, filter)

-----------------------------------------------------------------------------
\* A text of n parts; its own parts tell texts apart.
Text(name, n) == [i \in 1..n |-> <<name, i>>]

\* EncodeEntry: time and level, the header the application adds, the message, then
\* key and value of each field, every one followed by a separator.
EncodeEntry(header, message, fields) ==
  Text("time", 1) \o Text("level", 1) \o header \o message \o fields \o <<<<"rest", 1>>>>

\* parseLogLine: the first parts of the line under the names of the request.
ParseLogLine_shifted(parts, names) ==
  IF names = <<>> \/ Len(parts) < Len(names) THEN <<>>
  ELSE [i \in DOMAIN names |-> IF i > 2 THEN parts[i - 1] ELSE parts[i]]
ParseLogLine(parts, names) ==
  IF names = <<>> \/ Len(parts) < Len(names) THEN <<>>
  ELSE [i \in DOMAIN names |-> parts[i]]

HeaderOf(lengths) == FlattenSeq([i \in DOMAIN lengths |-> Text("header", lengths[i])])

CallLine ==
  /\ ltCall = "none" /\ ltCall' = "line"
  /\ \E lengths \in UNION {[1..n -> 1..MaxText] : n \in 0..2}, message, fields \in 0..MaxText :
       LET names == <<"time", "level">> \o [i \in DOMAIN lengths |-> "header"] \o <<"message">> IN
       /\ ltIn' = [names |-> names, lengths |-> lengths, message |-> message]
       /\ ltOut' = ParseLogLine(EncodeEntry(HeaderOf(lengths), Text("message", message),
                                            Text("field", 2 * fields)), names)

-----------------------------------------------------------------------------
\* splitDataToChunks: chunk i of n from start on, its end moved behind the next
\* line feed; the last one ends with the data.
ChunkEnd_exact(data, start, i, n) ==
  IF i = n THEN Len(data) ELSE start + Len(data) \div n
ChunkEnd(data, start, i, n) ==
  LET end == start + Len(data) \div n
      feeds == {k \in (end + 1)..Len(data) : data[k] = "\n"}
  IN  IF i = n THEN Len(data)
      ELSE IF feeds # {} THEN CHOOSE k \in feeds : \A l \in feeds : k <= l
      ELSE IF end > Len(data) THEN end ELSE Len(data)

SplitDataToChunks(data, n) ==
  LET end[i \in 0..n] == IF i = 0 THEN 0 ELSE ChunkEnd(data, end[i - 1], i, n)
  IN  [i \in 1..n |-> [start |-> end[i - 1], end |-> end[i]]]

CallSplit ==
  /\ ltCall = "none" /\ ltCall' = "split"
  /\ \E size \in 0..MaxData, n \in 1..MaxChunks : \E data \in [1..size -> {"x", "\n"}] :
       ltIn' = data /\ ltOut' = SplitDataToChunks(data, n)

-----------------------------------------------------------------------------
LogTextInit == ltCall = "none" /\ ltIn = <<>> /\ ltOut = <<>>
LogTextNext == CallWrite \/ CallLine \/ CallSplit
LogTextSpec == LogTextInit /\ [][LogTextNext]_logTextVars

LogTextTypeOK == ltCall \in {"none", "write", "line", "split"}

(***************************************************************************)
(* A key the configuration filters never leaves the process, wherever its  *)
(* field came from; any other key of the configuration, of With or of the  *)
(* call leaves, with the first of these that has it (core.go:54-66,        *)
(* 146-158).                                                               *)
(***************************************************************************)
FilteredStays == ltCall = "write" => \A k \in FieldKeys :
  LET has(fields) == \E i \in DOMAIN fields : fields[i].key = k IN
  ltOut[k] = IF k \in ltIn.filter THEN NoField
             ELSE IF k \in ltIn.config THEN "config"
             ELSE IF has(ltIn.with) THEN "with"
             ELSE IF has(ltIn.fields) THEN "call" ELSE NoField

(***************************************************************************)
(* The query finds every part of a line under its name, for a header of    *)
(* one text for each name and a message that has no separator in it        *)
(* (text_encoder.go:98-130, text_query.go:316-330).                        *)
(***************************************************************************)
LinesParseBack ==
  (ltCall = "line" /\ (\A i \in DOMAIN ltIn.lengths : ltIn.lengths[i] = 1) /\ ltIn.message = 1) =>
    /\ Len(ltOut) = Len(ltIn.names)
    /\ \A i \in DOMAIN ltOut : ltOut[i][1] = ltIn.names[i]

\* A line of data: from behind a line feed, or the start, up to the next one.
IsLine(data, a, b) ==
  /\ a < b /\ (a = 0 \/ data[a] = "\n")
  /\ (b = Len(data) \/ data[b] = "\n")
  /\ \A k \in (a + 1)..(b - 1) : data[k] # "\n"

(***************************************************************************)
(* Every line of a file lies whole in exactly one of the chunks the        *)
(* goroutines of a query read (text_query.go:189-214).                     *)
(***************************************************************************)
LinesInOneChunk == ltCall = "split" =>
  \A a \in 0..Len(ltIn), b \in 1..Len(ltIn) : IsLine(ltIn, a, b) =>
    \E i \in DOMAIN ltOut :
      /\ ltOut[i].start <= a /\ b <= ltOut[i].end
      /\ \A j \in DOMAIN ltOut \ {i} : ltOut[j].end <= a \/ b <= ltOut[j].start

(***************************************************************************)
(* The data of a log line survives: filtered keys stay in the process and  *)
(* the others leave (core.go Write), a line parses back into its parts,    *)
(* and a file is cut between lines (text_query.go).                        *)
(***************************************************************************)
LogDataKept == FilteredStays /\ LinesParseBack /\ LinesInOneChunk
=============================================================================
