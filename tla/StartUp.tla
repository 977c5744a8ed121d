------------------------------ MODULE StartUp -------------------------------
(***************************************************************************)
(* The two containers once docker compose runs them: BIND, whose entry     *)
(* point may refuse its settings; the proxy, started when BIND is healthy, *)
(* whose Config.from_env may refuse its own; the health checks of both,    *)
(* the proxy's one being run_healthcheck; up -d --wait; restarts.          *)
(***************************************************************************)
EXTENDS Naturals

CONSTANTS
  Retries,     \* failed checks in a row that make a service unhealthy (15)
  CheckTime,   \* what compose gives a check to answer (2 s), in steps
  IoTimeouts,  \* the values of IO_TIMEOUT_SECONDS, in the same steps
  Delays       \* how late an answer may be

VARIABLES
  setting,  \* what of the settings matters here
  bind,     \* "absent", "loading", "serving", "exited"
  proxy,    \* "absent", "serving", "full" (no session left), "exited"
  fails,    \* failed checks in a row, per service
  health,   \* "starting", "healthy", "unhealthy", per service
  answered, \* the proxy has answered a check since it last started
  up        \* compose up --wait: "waiting", "done", "failed"

vars == <<setting, bind, proxy, fails, health, answered, up>>

Service == {"authoritative", "fault-proxy"}
Setting ==
  [portsFree : BOOLEAN, upstreams : BOOLEAN, configurable : BOOLEAN,
   allowed : SUBSET {"loopback", "lan"}, ioTimeout : IoTimeouts]

Init ==
  /\ setting \in Setting
  /\ bind = "absent" /\ proxy = "absent"
  /\ fails = [s \in Service |-> 0] /\ health = [s \in Service |-> "starting"]
  /\ answered = FALSE /\ up = "waiting"

-----------------------------------------------------------------------------
Fresh(s) ==
  /\ fails' = [fails EXCEPT ![s] = 0]
  /\ health' = [health EXCEPT ![s] = "starting"]

(* entrypoint.sh: render-recursion.sh refuses what is not a list of        *)
(* addresses; named then loads its zones. restart: unless-stopped.         *)
StartBind ==
  /\ bind = "exited" \/ (bind = "absent" /\ up = "waiting")
  /\ bind' = IF setting.upstreams THEN "loading" ELSE "exited"
  /\ Fresh("authoritative")
  /\ UNCHANGED <<setting, proxy, answered, up>>

BindLoads ==
  /\ bind = "loading" /\ bind' = "serving"
  /\ UNCHANGED <<setting, proxy, fails, health, answered, up>>

BindExits ==
  /\ bind \in {"loading", "serving"} /\ bind' = "exited"
  /\ UNCHANGED <<setting, proxy, fails, health, answered, up>>

(* depends_on: only the first start waits for BIND to be healthy; BIND has *)
(* its ports by then.                                                      *)
StartProxy ==
  /\ \/ /\ proxy = "absent" /\ up = "waiting"
        /\ health["authoritative"] = "healthy" /\ setting.portsFree
     \/ proxy = "exited"
  /\ proxy' = IF setting.configurable THEN "serving" ELSE "exited"
  /\ Fresh("fault-proxy") /\ answered' = FALSE
  /\ UNCHANGED <<setting, bind, up>>

ProxyExits ==
  /\ proxy \in {"serving", "full"} /\ proxy' = "exited"
  /\ UNCHANGED <<setting, bind, fails, health, answered, up>>

(* Clients take the last session and give one back. *)
Fill == proxy = "serving" /\ proxy' = "full" /\ UNCHANGED <<setting, bind, fails, health, answered, up>>
Drain == proxy = "full" /\ proxy' = "serving" /\ UNCHANGED <<setting, bind, fails, health, answered, up>>

-----------------------------------------------------------------------------
(* What docker makes of a check. *)
Judge(s, ok) ==
  /\ fails' = [fails EXCEPT ![s] = IF ok THEN 0 ELSE IF @ < Retries THEN @ + 1 ELSE @]
  /\ health' = [health EXCEPT ![s] =
       IF ok THEN "healthy" ELSE IF fails'[s] = Retries THEN "unhealthy" ELSE @]

(* dig finds the zone's serial. *)
CheckBind ==
  /\ bind \in {"loading", "serving"} /\ Judge("authoritative", bind = "serving")
  /\ UNCHANGED <<setting, bind, proxy, answered, up>>

(* What a query for normal.transport.example.test gets through the proxy:  *)
(* nothing when the access list or the full pool drops it or BIND is down, *)
(* else BIND's answer, with AA when it serves the zone.                    *)
Answer ==
  IF proxy # "serving" \/ "loopback" \notin setting.allowed THEN {}
  ELSE IF bind = "serving" THEN {[response |-> TRUE, aa |-> TRUE]}
  ELSE IF bind = "loading" THEN {[response |-> TRUE, aa |-> FALSE]}
  ELSE {}

(* Mutant: AA is not looked at. *)
ValidHealthResponseAny(answer) == answer.response

ValidHealthResponse(answer) == answer.response /\ answer.aa

(* run_healthcheck waits IO_TIMEOUT_SECONDS and compose kills it sooner:   *)
(* the answer must come before either.                                     *)
InTime(delay) == delay < setting.ioTimeout /\ delay < CheckTime
Healthy(delay) == InTime(delay) /\ \E answer \in Answer : ValidHealthResponse(answer)

CheckProxy(delay) ==
  /\ proxy \in {"serving", "full"} /\ Judge("fault-proxy", Healthy(delay))
  /\ answered' = (answered \/ (bind = "serving" /\ Healthy(delay)))
  /\ UNCHANGED <<setting, bind, proxy, up>>

-----------------------------------------------------------------------------
AllHealthy == \A s \in Service : health[s] = "healthy"

UpDone ==
  /\ up = "waiting" /\ bind # "exited" /\ proxy \notin {"absent", "exited"} /\ AllHealthy
  /\ up' = "done"
  /\ UNCHANGED <<setting, bind, proxy, fails, health, answered>>

(* A port is taken, a service has exited, or its checks have failed. *)
UpFails ==
  /\ up = "waiting"
  /\ \/ health["authoritative"] = "healthy" /\ ~setting.portsFree
     \/ bind = "exited" \/ proxy = "exited"
     \/ \E s \in Service : health[s] = "unhealthy"
  /\ up' = "failed"
  /\ UNCHANGED <<setting, bind, proxy, fails, health, answered>>

Next ==
  \/ StartBind \/ BindLoads \/ BindExits \/ StartProxy \/ ProxyExits
  \/ Fill \/ Drain \/ CheckBind \/ (\E delay \in Delays : CheckProxy(delay))
  \/ UpDone \/ UpFails

Spec == Init /\ [][Next]_vars

=============================================================================
