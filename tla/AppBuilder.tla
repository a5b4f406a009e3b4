----------------------------- MODULE AppBuilder -----------------------------
(***************************************************************************)
(* Builder.Build of apptools/builder.go: command line, configuration       *)
(* source, logger, providers and functions are started one after another;  *)
(* an error ends the start and drops the clean-ups collected so far, else  *)
(* the function Build returns runs them.  What the caller's factories do   *)
(* is external: each fails or succeeds, and its clean-up may be nil.       *)
(***************************************************************************)
EXTENDS Integers, Sequences, SequencesExt

CONSTANT MaxFuncs  \* bounds the functions added with AddFunc

ASSUME AppBuilderAssumption == MaxFuncs \in Nat

VARIABLES abPlan,     \* the parts configured, in the order Build starts them
          abStage,    \* the next part of abPlan, 0 once Build has returned
          abOutcome,  \* "building", "built" or "error"
          abSource,   \* the configuration source: "none", "open" or "closed"
          abCleanups, \* the list cleanups
          abStopped,  \* the parts cleaned up, in that order
          abCleaning, \* the index of the clean-up running, -1 when none is
          abPanic     \* a nil clean-up was called
builderVars == <<abPlan, abStage, abOutcome, abSource, abCleanups, abStopped, abCleaning, abPanic>>

\* A part with a clean-up is a tuple <<name, number>>; the others have none.
FuncParts(n) == [i \in 1..n |-> <<"func", i>>]
Parts(part) == {<<>>, <<part>>}
Plans ==
  {<<<<"run", 0>>>> \o source \o logger \o tracer \o metric \o FuncParts(n) \o gops :
     source \in {<<>>, <<<<"source", 0>>, <<"scan", 0>>>>}, logger \in Parts(<<"logger", 0>>),
     tracer \in Parts(<<"tracer", 1>>), metric \in Parts(<<"metric", 1>>),
     n \in 0..MaxFuncs, gops \in Parts(<<"gops", 0>>)}
HasCleanup(part) == part[1] \in {"tracer", "metric", "func"}

BuilderInit ==
  /\ abPlan \in Plans /\ abStage = 1 /\ abOutcome = "building" /\ abSource = "none"
  /\ abCleanups = <<>> /\ abStopped = <<>> /\ abCleaning = -1 /\ abPanic = FALSE

\* The deferred Close of the source runs whichever way Build returns.
Deferred == IF abSource = "open" THEN "closed" ELSE abSource

StartPart ==
  /\ abOutcome = "building" /\ abStage <= Len(abPlan)
  /\ LET part == abPlan[abStage] IN
     /\ abSource' = IF part[1] = "source" THEN "open" ELSE abSource
     /\ IF HasCleanup(part)
        THEN \E isNil \in BOOLEAN : abCleanups' = Append(abCleanups, [part |-> part, isNil |-> isNil])
        ELSE UNCHANGED abCleanups
  /\ abStage' = abStage + 1
  /\ UNCHANGED <<abPlan, abOutcome, abStopped, abCleaning, abPanic>>

\* An error returns no clean-up: what was started before stays as it is.  The
\* source is made before its Load can fail.
PartFails_keepsSource ==
  /\ abOutcome = "building" /\ abStage <= Len(abPlan)
  /\ abOutcome' = "error"
  /\ abSource' = IF abPlan[abStage][1] = "source" THEN "open" ELSE abSource
  /\ UNCHANGED <<abPlan, abStage, abCleanups, abStopped, abCleaning, abPanic>>

PartFails ==
  /\ abOutcome = "building" /\ abStage <= Len(abPlan)
  /\ abOutcome' = "error"
  /\ abSource' = IF abPlan[abStage][1] = "source" THEN "closed" ELSE Deferred
  /\ UNCHANGED <<abPlan, abStage, abCleanups, abStopped, abCleaning, abPanic>>

Built ==
  /\ abOutcome = "building" /\ abStage > Len(abPlan)
  /\ abOutcome' = "built" /\ abSource' = Deferred
  /\ UNCHANGED <<abPlan, abStage, abCleanups, abStopped, abCleaning, abPanic>>

\* The application calls the function Build returned, once.
CallCleanup ==
  /\ abOutcome = "built" /\ abCleaning = -1
  /\ abCleaning' = Len(abCleanups)
  /\ UNCHANGED <<abPlan, abStage, abOutcome, abSource, abCleanups, abStopped, abPanic>>

NextCleanup_forward(i) == Len(abCleanups) + 1 - i
NextCleanup(i) == i

RunCleanup ==
  /\ abCleaning > 0 /\ ~abPanic
  /\ LET cleanup == abCleanups[NextCleanup(abCleaning)] IN
     IF cleanup.isNil
     THEN abPanic' = TRUE /\ UNCHANGED <<abStopped, abCleaning>>
     ELSE abStopped' = Append(abStopped, cleanup.part) /\ abCleaning' = abCleaning - 1 /\ UNCHANGED abPanic
  /\ UNCHANGED <<abPlan, abStage, abOutcome, abSource, abCleanups>>

BuilderNext == StartPart \/ PartFails \/ Built \/ CallCleanup \/ RunCleanup
BuilderSpec == BuilderInit /\ [][BuilderNext]_builderVars

BuilderTypeOK ==
  /\ abPlan \in Plans /\ abStage \in 1..(Len(abPlan) + 1)
  /\ abOutcome \in {"building", "built", "error"} /\ abSource \in {"none", "open", "closed"}
  /\ \A i \in DOMAIN abCleanups : abCleanups[i].isNil \in BOOLEAN
  /\ abCleaning \in -1..Len(abCleanups) /\ abPanic \in BOOLEAN

\* What goes on after Build: the parts with a clean-up and the gops agent, which
\* has none.
Started == {abPlan[i] : i \in 1..(abStage - 1)}
StillRuns == {part \in Started : HasCleanup(part) \/ part[1] = "gops"} \ ToSet(abStopped)

(***************************************************************************)
(* The function a successful Build returns stops the parts in the reverse  *)
(* order of their start, each once, and when it has run to its end only a  *)
(* gops agent goes on (builder.go:142-196).  Two things are left out of    *)
(* the claim, because the code does not have them: a nil clean-up ends the *)
(* walk with a panic, and an error of a later part returns no function at  *)
(* all, so that whatever Build had started goes on.                        *)
(***************************************************************************)
StoppedInReverse ==
  LET started == [i \in DOMAIN abCleanups |-> abCleanups[i].part]
  IN  abOutcome = "built" => IsSuffix(Reverse(abStopped), started)
AllStopped == abCleaning = 0 => \A part \in StillRuns : part[1] = "gops"

(***************************************************************************)
(* However Build returns, its configuration source is closed and nothing   *)
(* of it goes on watching, though App.Source still hands it out            *)
(* (builder.go:126-139).                                                   *)
(***************************************************************************)
SourceClosed == abOutcome # "building" => abSource # "open"

(***************************************************************************)
(* The clean-up of a successful Build leaves nothing of it but gops, and   *)
(* the configuration source is closed whichever way Build returned         *)
(* (builder.go).                                                           *)
(***************************************************************************)
CleansUp == StoppedInReverse /\ AllStopped /\ SourceClosed
=============================================================================
