------------------------------- MODULE LabUp --------------------------------
(***************************************************************************)
(* lab.sh up as a whole: the settings are read and checked (Settings), and *)
(* what compose makes of them starts the containers (StartUp).             *)
(***************************************************************************)
EXTENDS Settings

CONSTANTS Retries, CheckTime, IoTimeouts, Delays
VARIABLES setting, bind, proxy, fails, health, answered, up

S == INSTANCE StartUp

lab == <<setting, bind, proxy, fails, health, answered, up>>
labVars == <<vars, lab>>

ASSUME StartUpAssumption ==
  /\ Retries \in Nat \ {0} /\ CheckTime \in Nat
  /\ IoTimeouts \subseteq Nat /\ IoTimeouts # {} /\ Delays \subseteq Nat
  \* every timeout from_env accepts; every network is one of these
  /\ \A t \in DOMAIN Numeral : 100 <= Numeral[t] /\ Numeral[t] <= 60000 => Numeral[t] \in IoTimeouts
  /\ \A t \in DOMAIN Networks : Networks[t] \subseteq {"loopback", "lan", "all"}

(* Before it is known. *)
NoSetting ==
  [portsFree |-> FALSE, upstreams |-> FALSE, configurable |-> FALSE, allowed |-> {},
   ioTimeout |-> CHOOSE t \in IoTimeouts : TRUE]

LabInit == Init /\ setting = NoSetting /\ S!Init

(* What the containers get of the settings, which are then of no more use. *)
HandOff ==
  /\ phase = "start" /\ phase' = "running"
  /\ setting' =
       [portsFree |-> PortsFree, upstreams |-> UpstreamsUsable, configurable |-> Configurable,
        allowed |-> IF Listed THEN AllowedClients ELSE {},
        ioTimeout |-> IF Configurable THEN Numeral[Given("IO_TIMEOUT_SECONDS")] ELSE NoSetting.ioTimeout]
  /\ env' = [k \in Key |-> Unset] /\ lines' = <<>> /\ line' = 1 /\ found' = TRUE /\ command' = "up"
  /\ UNCHANGED <<bind, proxy, fails, health, answered, up>>

LabNext ==
  \/ Next /\ UNCHANGED lab
  \/ HandOff
  \/ phase = "running" /\ S!Next /\ UNCHANGED vars

(* docker starts what is to be started and runs the checks as long as a    *)
(* container runs; BIND comes to serve unless it exits.                    *)
Running(A) == phase = "running" /\ A /\ UNCHANGED vars
LabSpec ==
  /\ LabInit /\ [][LabNext]_labVars
  /\ WF_labVars(Running(S!StartBind)) /\ WF_labVars(Running(S!BindLoads))
  /\ WF_labVars(Running(S!StartProxy)) /\ WF_labVars(Running(S!CheckBind))
  /\ WF_labVars(Running(\E delay \in Delays : S!CheckProxy(delay)))

(* While both serve, some check of the proxy is answered in time. *)
AnswersInTime == WF_labVars(Running(\E delay \in Delays : S!InTime(delay) /\ S!CheckProxy(delay)))

-----------------------------------------------------------------------------
(* lab.sh up reports success only when the proxy, as it runs now, has      *)
(* answered with what BIND says of its zone, over settings that every part *)
(* has accepted: the proxy's limits and networks, BIND's upstreams, ports  *)
(* no two services share (compose.yaml, run_healthcheck, from_env).        *)
UpMeansAnswered ==
  [][up = "waiting" /\ up' = "done" =>
       answered /\ setting \in S!Setting /\ setting.portsFree /\ setting.upstreams /\ setting.configurable]_labVars

(* Whatever clients are allowed, a proxy and BIND that go on serving are   *)
(* reported healthy again and again: the check's own address is admitted   *)
(* and no failure is for good (from_env, run_healthcheck).                 *)
HealthHeals ==
  AnswersInTime /\ <>[](bind = "serving" /\ proxy = "serving") => []<>(health["fault-proxy"] = "healthy")

(* A proxy that answers before a BIND that never comes to serve its zone   *)
(* is reported unhealthy for good (validate_health_response).              *)
OutageSeen ==
  <>[](bind # "serving" /\ proxy \in {"serving", "full"}) => <>[](health["fault-proxy"] = "unhealthy")

=============================================================================
