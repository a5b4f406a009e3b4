------------------------------ MODULE K8sProbe ------------------------------
(***************************************************************************)
(* The probe manager of k8sprobe: handlers of net/http answer probe        *)
(* requests from a clone of the list they took under the lock, while the   *)
(* application registers probes and the probes change their minds.         *)
(***************************************************************************)
EXTENDS Integers, Sequences

CONSTANTS ProbeRequests,   \* handler goroutines
          ProbeTypes, \* "liveness", "readiness" and "startup" in the code
          MaxProbes   \* bounds the probes registered

ASSUME K8sProbeAssumption == MaxProbes \in Nat

VARIABLES k8Probes,  \* probes: type -> list of probes, numbered as registered
          k8Valid,   \* what IsValid of each probe would answer now
          k8Request, \* request -> its type, step, clone, position and answer
          k8Steady   \* request -> its probes that never changed since it came
probeVars == <<k8Probes, k8Valid, k8Request, k8Steady>>

Probe == 1..MaxProbes
Registered == UNION {{k8Probes[t][i] : i \in DOMAIN k8Probes[t]} : t \in ProbeTypes}
NoRequest == [type |-> "none", step |-> "idle", clone |-> <<>>, at |-> 0, cause |-> 0]

ProbeInit ==
  /\ k8Probes = [t \in ProbeTypes |-> <<>>] /\ k8Valid = [p \in Probe |-> TRUE]
  /\ k8Request = [r \in ProbeRequests |-> NoRequest] /\ k8Steady = [r \in ProbeRequests |-> {}]

RegisterProbe(t) ==
  /\ \E p \in Probe \ Registered :
       /\ \A q \in Probe \ Registered : p <= q
       /\ k8Probes' = [k8Probes EXCEPT ![t] = Append(@, p)]
  /\ UNCHANGED <<k8Valid, k8Request, k8Steady>>

ProbeChanges(p) ==
  /\ k8Valid' = [k8Valid EXCEPT ![p] = ~@]
  /\ k8Steady' = [r \in ProbeRequests |-> k8Steady[r] \ {p}]
  /\ UNCHANGED <<k8Probes, k8Request>>

\* ServeHTTP: a path that names no type is refused at once.
ServeHTTP(r, t) ==
  /\ k8Request[r].step \in {"idle", "ok", "unavailable", "badRequest"}
  /\ k8Request' = [k8Request EXCEPT ![r] =
       [NoRequest EXCEPT !.type = t, !.step = IF t \in ProbeTypes THEN "clone" ELSE "badRequest"]]
  /\ k8Steady' = [k8Steady EXCEPT ![r] =
       IF t \in ProbeTypes THEN {k8Probes[t][i] : i \in DOMAIN k8Probes[t]} ELSE {}]
  /\ UNCHANGED <<k8Probes, k8Valid>>

CloneProbes(r) ==
  /\ k8Request[r].step = "clone"
  /\ k8Request' = [k8Request EXCEPT ![r].step = "check", ![r].at = 1,
                                    ![r].clone = k8Probes[k8Request[r].type]]
  /\ UNCHANGED <<k8Probes, k8Valid, k8Steady>>

\* One turn of checkProbe's loop: the first invalid probe decides.
CheckProbe_lastOnly(r) ==
  /\ k8Request[r].step = "check"
  /\ LET probes == k8Request[r].clone  at == k8Request[r].at IN
     k8Request' = [k8Request EXCEPT ![r] =
       IF at < Len(probes) THEN [@ EXCEPT !.at = at + 1]
       ELSE IF at > Len(probes) \/ k8Valid[probes[at]] THEN [@ EXCEPT !.step = "ok"]
       ELSE [@ EXCEPT !.step = "unavailable", !.cause = probes[at]]]
  /\ UNCHANGED <<k8Probes, k8Valid, k8Steady>>

CheckProbe(r) ==
  /\ k8Request[r].step = "check"
  /\ LET probes == k8Request[r].clone  at == k8Request[r].at IN
     k8Request' = [k8Request EXCEPT ![r] =
       IF at > Len(probes) THEN [@ EXCEPT !.step = "ok"]
       ELSE IF k8Valid[probes[at]] THEN [@ EXCEPT !.at = at + 1]
       ELSE [@ EXCEPT !.step = "unavailable", !.cause = probes[at]]]
  /\ UNCHANGED <<k8Probes, k8Valid, k8Steady>>

ProbeNext ==
  \/ \E t \in ProbeTypes : RegisterProbe(t)
  \/ \E p \in Registered : ProbeChanges(p)
  \/ \E r \in ProbeRequests : CloneProbes(r) \/ CheckProbe(r)
       \/ \E t \in ProbeTypes \cup {"unknown"} : ServeHTTP(r, t)

ProbeSpec == ProbeInit /\ [][ProbeNext]_probeVars

K8sProbeTypeOK ==
  /\ k8Probes \in [ProbeTypes -> Seq(Probe)] /\ k8Valid \in [Probe -> BOOLEAN]
  /\ k8Steady \in [ProbeRequests -> SUBSET Probe]
  /\ \A r \in ProbeRequests :
       /\ k8Request[r].type \in ProbeTypes \cup {"none", "unknown"}
       /\ k8Request[r].step \in {"idle", "clone", "check", "ok", "unavailable", "badRequest"}
       /\ k8Request[r].clone \in Seq(Probe) /\ k8Request[r].cause \in Probe \cup {0}

(***************************************************************************)
(* A request is not answered OK past a probe that was registered before it *)
(* came and invalid all the time, and the cause of a refusal is a probe of *)
(* its own type that was not valid all the time (checkProbe,               *)
(* manager.go:102-115), whatever registers or changes meanwhile.           *)
(***************************************************************************)
AnswerIsTrue == [][\A r \in ProbeRequests :
  /\ k8Request'[r].step = "ok" /\ k8Request[r].step # "ok" =>
       \A p \in k8Steady[r] : k8Valid[p]
  /\ k8Request'[r].step = "unavailable" /\ k8Request[r].step # "unavailable" =>
       LET cause == k8Request'[r].cause  t == k8Request[r].type IN
       /\ \E i \in DOMAIN k8Probes[t] : k8Probes[t][i] = cause
       /\ cause \in k8Steady[r] => ~k8Valid[cause]]_probeVars
=============================================================================
