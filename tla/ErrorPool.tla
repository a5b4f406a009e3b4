----------------------------- MODULE ErrorPool ------------------------------
(***************************************************************************)
(* Coded errors of errors/errors.go: families (From) that add their base   *)
(* to each code and share one pool of codes, and the two forms of an error *)
(* on its way through a service, a gRPC status or the JSON text of one     *)
(* (BuiltIn).  An error is its form, code and number of details; nil is    *)
(* what Err() gives for code 0, and "text" is an error Parse cannot read.  *)
(***************************************************************************)
EXTENDS Integers, Sequences

CONSTANTS Bases,       \* base codes of the families
          Escaping,    \* those of them kept out of the pool (EscapePool)
          Codes,       \* the codes given to New and Add, of type int
          HalfWord,    \* int32 holds -HalfWord..HalfWord-1
          MaxErrors,   \* bounds the errors made
          MaxDetails   \* bounds the details added to one

ASSUME ErrorPoolAssumption ==
  /\ HalfWord \in Nat \ {0} /\ MaxErrors \in Nat /\ MaxDetails \in Nat \ {0}
  /\ Codes \subseteq Int /\ Bases \subseteq Int /\ Escaping \subseteq Bases

VARIABLES erPool,     \* errPool: the codes taken
          erMade,     \* the pooled codes of the errors made, for the properties
          erBuiltIn,  \* BuiltIn of the families
          erErr,      \* the error in hand
          erWant,     \* its code and details if the package made it, else <<>>
          erPanic     \* a duplicate or a code that is no integer
errorVars == <<erPool, erMade, erBuiltIn, erErr, erWant, erPanic>>

Int32(n) == ((n + HalfWord) % (2 * HalfWord)) - HalfWord
NoError == [form |-> "none", code |-> 0, details |-> 0]
Nil == [form |-> "nil", code |-> 0, details |-> 0]

\* status.FromError: nil is a status too; Parse falls back on the JSON text.
IsStatus(err) == err.form \in {"nil", "status"}
Parse_statusOnly(err) == IF IsStatus(err) THEN <<err.code, err.details>> ELSE <<>>
Parse(err) == IF IsStatus(err) \/ err.form = "json" THEN <<err.code, err.details>> ELSE <<>>

\* s.Err() and the JSON of s; a status of code 0 is no error.
ErrOf(code, details) == IF code = 0 THEN Nil ELSE [form |-> "status", code |-> code, details |-> details]
JsonOf(code, details) == [form |-> "json", code |-> code, details |-> details]
MarshalStatus(code, details) ==
  IF erBuiltIn THEN ErrOf(code, details) ELSE JsonOf(code, details)

\* gRPC refuses details on code 0.
Detailed(code, details) == IF code = 0 THEN 0 ELSE details + 1

ErrorInit ==
  /\ erPool = {} /\ erMade = <<>> /\ erBuiltIn = TRUE
  /\ erErr = NoError /\ erWant = <<>> /\ erPanic = FALSE

BuiltIn(flag) ==
  /\ erBuiltIn' = flag /\ UNCHANGED <<erPool, erMade, erErr, erWant, erPanic>>

\* AssertCode cuts an int to 32 bits; the sum with the base wraps.
FullCode(base, code) == Int32(Int32(code) + base)
Taken_beforeBase(base, code) == Int32(code) \in erPool
Taken(base, code) == FullCode(base, code) \in erPool

AddError(base, code) ==
  /\ Len(erMade) < MaxErrors
  /\ IF base \notin Escaping /\ Taken(base, code)
     THEN erPanic' = TRUE /\ UNCHANGED <<erPool, erMade, erErr, erWant>>
     ELSE /\ IF base \in Escaping THEN UNCHANGED <<erPool, erMade>>
             ELSE /\ erPool' = erPool \cup {FullCode(base, code)}
                  /\ erMade' = Append(erMade, FullCode(base, code))
          /\ erErr' = MarshalStatus(FullCode(base, code), 0)
          /\ erWant' = <<FullCode(base, code), 0>>
          /\ UNCHANGED erPanic
  /\ UNCHANGED erBuiltIn

\* Internal: no base and no pool, the cause as a detail.
Internal(code, cause) ==
  LET details == IF cause THEN Detailed(Int32(code), 0) ELSE 0 IN
  /\ erErr' = MarshalStatus(Int32(code), details) /\ erWant' = <<Int32(code), details>>
  /\ UNCHANGED <<erPool, erMade, erBuiltIn, erPanic>>

\* An error of somebody else: text json.Unmarshal refuses, or any JSON object or
\* null, which it reads as a status with the object's code, 0 if it has none.
ForeignError ==
  /\ \/ erErr' = [form |-> "text", code |-> 0, details |-> 0]
     \/ \E code \in Codes \cup {0} : code = Int32(code) /\ erErr' = JsonOf(code, 0)
  /\ erWant' = <<>>
  /\ UNCHANGED <<erPool, erMade, erBuiltIn, erPanic>>

Marshal ==
  /\ erErr # NoError
  /\ erErr' = IF IsStatus(erErr) THEN JsonOf(erErr.code, erErr.details) ELSE erErr
  /\ UNCHANGED <<erPool, erMade, erBuiltIn, erWant, erPanic>>

\* An error that is neither a status nor the text of one comes back as nil.
WithDetails ==
  /\ erErr # NoError /\ erErr.details < MaxDetails
  /\ erErr' = IF erErr.form = "text" THEN Nil
              ELSE ErrOf(erErr.code, Detailed(erErr.code, erErr.details))
  /\ erWant' = IF erWant = <<>> THEN <<>> ELSE <<erWant[1], Detailed(erWant[1], erWant[2])>>
  /\ UNCHANGED <<erPool, erMade, erBuiltIn, erPanic>>

ErrorNext == ~erPanic /\
  \/ \E flag \in BOOLEAN : BuiltIn(flag)
  \/ \E base \in Bases, code \in Codes : AddError(base, code)
  \/ \E code \in Codes, cause \in BOOLEAN : Internal(code, cause)
  \/ ForeignError \/ Marshal \/ WithDetails

ErrorSpec == ErrorInit /\ [][ErrorNext]_errorVars

ErrorTypeOK ==
  /\ erPool \subseteq -HalfWord..(HalfWord - 1) /\ erMade \in Seq(erPool)
  /\ erBuiltIn \in BOOLEAN /\ erPanic \in BOOLEAN
  /\ erErr \in [form : {"none", "nil", "status", "json", "text"},
                code : -HalfWord..(HalfWord - 1), details : 0..MaxDetails]

(***************************************************************************)
(* No two errors of the pool share a code, whatever the bases of their     *)
(* families and though codes are cut to 32 bits (errors.go:94-104): the    *)
(* second one panics instead.                                              *)
(***************************************************************************)
CodesDistinct == \A i, j \in DOMAIN erMade : erMade[i] = erMade[j] => i = j

(***************************************************************************)
(* Parse finds the code and the details of an error this package made,     *)
(* after any chain of Marshal and WithDetails and in either form           *)
(* (errors.go:18-52, 150-169).  Of an error of somebody else nothing is    *)
(* promised: its text may read as a status, and WithDetails may lose it.   *)
(***************************************************************************)
ParseRecovers == erWant # <<>> => Parse(erErr) = erWant

(***************************************************************************)
(* A code names one error of the pool, and code and details of the         *)
(* package's own errors survive the way through services in either form    *)
(* (errors.go).                                                            *)
(***************************************************************************)
ErrorsRecovered == CodesDistinct /\ ParseRecovers
=============================================================================
