---------------------------- MODULE LabUpProofs -----------------------------
(***************************************************************************)
(* Theorems about lab.sh up, for every environment, .env file and way the  *)
(* containers come and go: what is validated is what is published, a clash *)
(* that reaches docker has one of the stated causes, and up is reported    *)
(* only of a proxy that has answered.                                      *)
(***************************************************************************)
EXTENDS LabUp, TLAPS

(* What the settings are; once they are being used, every plain line of a  *)
(* file that was found has been looked at, and what clashes by lab.sh's    *)
(* own reckoning has been refused.                                         *)
LineOfFile == [form : Form, key : Key, value : Texts]
SettingsType ==
  /\ phase \in {"load", "validate", "compose", "start", "refused", "running"}
  /\ env \in [Key -> Texts \cup {Unset}]
  /\ lines \in Seq(LineOfFile) /\ line \in Nat \ {0}
ReadInv ==
  found => \A i \in DOMAIN lines :
    lines[i].form = "plain" /\ (phase = "load" => i < line) => env[lines[i].key] # Unset
RefusedInv == phase \in {"compose", "start"} => ~SamePublication
SettingsInv == SettingsType /\ ReadInv /\ RefusedInv

(* Nothing is started before the settings are handed over, nothing serves  *)
(* with settings it has not accepted, and a proxy that is healthy has      *)
(* answered since it started.                                              *)
LabType ==
  /\ bind \in {"absent", "loading", "serving", "exited"}
  /\ proxy \in {"absent", "serving", "full", "exited"}
  /\ health \in [S!Service -> {"starting", "healthy", "unhealthy"}]
StartedInv ==
  /\ phase # "running" => bind = "absent" /\ proxy = "absent"
  /\ phase = "running" => setting \in S!Setting
  /\ bind = "absent" => health["authoritative"] = "starting"
AcceptedInv ==
  /\ bind \in {"loading", "serving"} => setting.upstreams
  /\ proxy # "absent" => setting.portsFree
  /\ proxy \in {"serving", "full"} => setting.configurable
AnsweredInv == proxy \in {"serving", "full"} /\ health["fault-proxy"] = "healthy" => answered
ContainersInv == LabType /\ StartedInv /\ AcceptedInv /\ AnsweredInv

LabInv == SettingsInv /\ ContainersInv

-----------------------------------------------------------------------------
(* The settings lab.sh and compose read are among those there may be.      *)
LEMMA KeysKnown == Compared \subseteq Key /\ "DNS_BIND_IPV6" \in Key
BY SettingsAssumption DEF Others

(* No text is Unset. *)
LEMMA TextsKnown == Unset \notin Texts
BY SettingsAssumption

(* The address of the IPv6 publication is one of IPv6. *)
LEMMA LoopbackKnown == Hosts["::1"] \in V6
BY CanonicalAssumption DEF V6

(* Whether a clash is refused depends on the environment alone. *)
LEMMA SameEnvironment == ASSUME env' = env PROVE SamePublication' = SamePublication
BY DEF SamePublication, FaultAddress, Port, FaultPort

LEMMA InitSettings == Init => SettingsInv
<1> SUFFICES ASSUME Init PROVE SettingsInv
  OBVIOUS
<1>1. SettingsType
  <2>1. Lines \subseteq Seq(LineOfFile) /\ Caller \subseteq [Key -> Texts \cup {Unset}]
    BY SettingsAssumption DEF LineOfFile
  <2> QED
    BY <2>1 DEF Init, SettingsType
<1>2. ReadInv
  BY <1>1 DEF Init, ReadInv, SettingsType
<1>3. RefusedInv
  BY DEF Init, RefusedInv
<1> QED
  BY <1>1, <1>2, <1>3 DEF SettingsInv

(* lab.sh reads its file and refuses what clashes.                         *)
LEMMA NextSettings == ASSUME SettingsInv, Next PROVE SettingsInv'
<1>1. CASE ReadLine
  <2>1. line \in DOMAIN lines /\ lines[line].key \in Key /\ lines[line].value \in Texts
    <3>1. line \in DOMAIN lines /\ lines[line] \in LineOfFile
      BY <1>1 DEF ReadLine, SettingsInv, SettingsType
    <3> QED
      BY <3>1 DEF LineOfFile
  <2>2. SettingsType'
    BY <1>1, <2>1 DEF ReadLine, SettingsInv, SettingsType
  <2>3. \A k \in Key : env[k] # Unset => env'[k] # Unset
    BY <1>1, <2>1, TextsKnown DEF ReadLine, SettingsInv, SettingsType
  <2>4. lines[line].form = "plain" => env'[lines[line].key] # Unset
    BY <1>1, <2>1, TextsKnown DEF ReadLine, Load, SettingsInv, SettingsType
  <2>5. ReadInv'
    <3> SUFFICES ASSUME found', NEW i \in DOMAIN lines', lines'[i].form = "plain", i < line'
                 PROVE  env'[lines'[i].key] # Unset
      BY <1>1 DEF ReadInv, ReadLine
    <3>1. lines' = lines /\ i \in DOMAIN lines /\ lines[i].key \in Key
      <4>1. lines' = lines /\ i \in DOMAIN lines
        BY <1>1 DEF ReadLine
      <4>2. lines[i] \in LineOfFile
        BY <4>1 DEF SettingsInv, SettingsType
      <4> QED
        BY <4>1, <4>2 DEF LineOfFile
    <3>2. CASE i = line
      BY <2>4, <3>1, <3>2
    <3>3. CASE i < line
      BY <1>1, <2>3, <3>1, <3>3 DEF ReadLine, SettingsInv, ReadInv
    <3> QED
      BY <1>1, <2>1, <3>2, <3>3 DEF ReadLine, SettingsInv, SettingsType
  <2> QED
    BY <1>1, <2>2, <2>5 DEF ReadLine, SettingsInv, RefusedInv
<1>2. CASE Loaded
  BY <1>2 DEF Loaded, SettingsInv, SettingsType, ReadInv, RefusedInv
<1>3. CASE Validate
  BY <1>3, SameEnvironment DEF Validate, SettingsInv, SettingsType, ReadInv, RefusedInv
<1>4. CASE Compose
  BY <1>4, SameEnvironment DEF Compose, SettingsInv, SettingsType, ReadInv, RefusedInv
<1> QED
  BY <1>1, <1>2, <1>3, <1>4 DEF Next

(* What is handed over is forgotten. *)
LEMMA HandOffSettings == ASSUME SettingsInv, HandOff PROVE SettingsInv'
<1>1. SettingsType'
  BY DEF HandOff, SettingsType
<1>2. lines' = <<>> /\ phase' = "running"
  BY DEF HandOff
<1> QED
  BY <1>1, <1>2 DEF SettingsInv, ReadInv, RefusedInv

-----------------------------------------------------------------------------
(* docker compose finds a value lab.sh does not have only where lab.sh has *)
(* not read: what both have is the same.                                   *)
LEMMA ComposedFromUnread ==
  ASSUME SettingsInv, phase # "load", NEW k \in Key, composed[k] # env[k]
  PROVE  k \in Unread
<1>1. composed[k] = ComposeValue(k)
  BY DEF composed
<1>2. env[k] = Unset /\ InFile(k) # {}
  BY <1>1 DEF ComposeValue
<1>3. PICK i \in DOMAIN lines : lines[i].form # "comment" /\ lines[i].key = k
  BY <1>2 DEF InFile
<1>4. lines[i].form \in Form
  <2>1. lines[i] \in LineOfFile
    BY DEF SettingsInv, SettingsType
  <2> QED
    BY <2>1 DEF LineOfFile
<1>5. CASE lines[i].form = "plain"
  <2>1. ~found
    BY <1>2, <1>3, <1>5 DEF SettingsInv, ReadInv
  <2> QED
    BY <1>3, <1>5, <2>1 DEF Unread
<1> QED
  BY <1>3, <1>4, <1>5 DEF Unread, Form

(* Where nothing compared differs, both see the same publications. *)
LEMMA ComparedAlike ==
  ASSUME \A k \in Compared : composed[k] = env[k]
  PROVE  /\ FaultAddress(composed) = FaultAddress(env)
         /\ Port(composed) = Port(env) /\ FaultPort(composed) = FaultPort(env)
BY DEF Compared, FaultAddress, Port, FaultPort

LEMMA InvValidated == SettingsInv => ValidatedIsPublished
<1> SUFFICES ASSUME SettingsInv, phase \in {"compose", "start"},
                    \A k \in Compared \cap Unread : composed[k] = env[k]
             PROVE  /\ Publication("fault-proxy", FaultAddress(env), FaultPort(env)) \in Published
                    /\ Publication("authoritative", "127.0.0.1", Port(env)) \in Published
  BY DEF ValidatedIsPublished
<1>1. \A k \in Compared : composed[k] = env[k]
  BY KeysKnown, ComposedFromUnread
<1> QED
  BY <1>1, ComparedAlike DEF Published

LEMMA InvClash == SettingsInv => ClashExplained
<1> SUFFICES ASSUME SettingsInv, phase = "start", NEW p \in Published, NEW q \in Published, Clash(p, q),
                    Hosts[p.address] # "0.0.0.0", Hosts[p.address] \notin V6, ~Respelt(p, q),
                    \A k \in Compared \cap Unread : composed[k] = env[k]
             PROVE  command = "up-ipv6" /\ composed["DNS_BIND_IPV6"] = "127.0.0.1"
  BY Zenon DEF ClashExplained
<1>1. \A k \in Compared : composed[k] = env[k]
  BY KeysKnown, ComposedFromUnread
<1>2. ~(FaultAddress(composed) = "127.0.0.1" /\ Port(composed) = FaultPort(composed))
  BY <1>1, ComparedAlike DEF SettingsInv, RefusedInv, SamePublication
<1>3. p.address = q.address /\ p.service # q.service /\ p.port = q.port
  BY DEF Clash, V6, Respelt
<1> DEFINE Ours == Publication("authoritative", "127.0.0.1", Port(composed))
           Theirs == Publication("fault-proxy", FaultAddress(composed), FaultPort(composed))
           Ours6 == Publication("authoritative", "::1", Port(composed))
           Theirs6 == Publication("fault-proxy", Or(composed["DNS_BIND_IPV6"], "::1"), FaultPort(composed))
<1>4. \A r \in Published :
        r = Ours \/ r = Theirs \/ (command = "up-ipv6" /\ (r = Ours6 \/ r = Theirs6))
  BY DEF Published, Publication
<1>5. {p, q} # {Ours, Theirs}
  BY <1>2, <1>3 DEF Publication
<1>6. command = "up-ipv6" /\ {p, q} = {Ours, Theirs6}
  <2>1. p # Ours6 /\ q # Ours6
    BY <1>3, LoopbackKnown DEF Publication
  <2>2. Ours.service = "authoritative" /\ Theirs.service = "fault-proxy" /\ Theirs6.service = "fault-proxy"
    BY DEF Publication
  <2> HIDE DEF Ours, Theirs, Ours6, Theirs6
  <2> QED
    BY <1>3, <1>4, <1>5, <2>1, <2>2
<1>7. Or(composed["DNS_BIND_IPV6"], "::1") = "127.0.0.1"
  BY <1>3, <1>6 DEF Publication
<1> QED
  BY <1>6, <1>7 DEF Or

-----------------------------------------------------------------------------
(* Nothing runs yet. *)
LEMMA InitContainers == LabInit => ContainersInv
BY DEF LabInit, S!Init, S!Service, ContainersInv, LabType, StartedInv, AcceptedInv, AnsweredInv

(* A setting within its bounds is a number between them.                   *)
LEMMA WithinBounds ==
  ASSUME NEW k, NEW minimum \in Int, NEW maximum \in Int, BoundedFloat(k, minimum, maximum)
  PROVE  /\ Given(k) \in DOMAIN Numeral
         /\ minimum <= Numeral[Given(k)] /\ Numeral[Given(k)] <= maximum
BY DEF BoundedFloat

(* What is handed over is a setting of the containers: each value comes    *)
(* from what Config.from_env accepts, or is not used.                      *)
LEMMA HandOffSetting == ASSUME HandOff PROVE setting' \in S!Setting
<1>1. NoSetting.ioTimeout \in IoTimeouts
  <2>1. (CHOOSE t \in IoTimeouts : TRUE) \in IoTimeouts
    BY StartUpAssumption, SMT
  <2> QED
    BY <2>1, Zenon DEF NoSetting
<1>2. Configurable => Numeral[Given("IO_TIMEOUT_SECONDS")] \in IoTimeouts
  <2>1. Configurable => BoundedFloat("IO_TIMEOUT_SECONDS", 100, 60000)
    BY DEF Configurable
  <2> QED
    BY <2>1, StartUpAssumption, WithinBounds, SMT
<1>3. Listed => AllowedClients \in SUBSET {"loopback", "lan"}
  BY StartUpAssumption, SMT DEF Listed, AllowedClients
<1>4. PortsFree \in BOOLEAN /\ UpstreamsUsable \in BOOLEAN /\ Configurable \in BOOLEAN
  BY SMT DEF PortsFree, UpstreamsUsable, Configurable, Listed
<1> QED
  BY <1>1, <1>2, <1>3, <1>4 DEF HandOff, S!Setting

LEMMA HandOffContainers == ASSUME ContainersInv, HandOff PROVE ContainersInv'
<1>1. phase = "start" /\ phase' = "running" /\ UNCHANGED <<bind, proxy, health, answered>>
  BY DEF HandOff
<1>2. bind = "absent" /\ proxy = "absent"
  BY <1>1 DEF ContainersInv, StartedInv
<1> QED
  BY <1>1, <1>2, HandOffSetting DEF ContainersInv, LabType, StartedInv, AcceptedInv, AnsweredInv

(* While lab.sh is at its settings the containers wait, and the last phase *)
(* is left by none of its steps.                                           *)
LEMMA SettingsContainers == ASSUME ContainersInv, Next, UNCHANGED lab PROVE ContainersInv'
<1>1. phase # "running" /\ phase' # "running"
  BY DEF Next, ReadLine, Loaded, Validate, Compose
<1> QED
  BY <1>1 DEF lab, ContainersInv, LabType, StartedInv, AcceptedInv, AnsweredInv

(* The proxy's check is passed only on an answer with AA, which BIND gives *)
(* only while it serves.                                                   *)
LEMMA HealthyServed == ASSUME NEW delay, S!Healthy(delay) PROVE bind = "serving"
BY DEF S!Healthy, S!Answer, S!ValidHealthResponse

(* What docker makes of a check leaves the other service alone.            *)
LEMMA JudgedHealth ==
  ASSUME LabType, NEW s \in S!Service, NEW ok \in BOOLEAN, S!Judge(s, ok)
  PROVE  /\ health' \in [S!Service -> {"starting", "healthy", "unhealthy"}]
         /\ \A r \in S!Service : r # s => health'[r] = health[r]
         /\ health'[s] = "healthy" => ok \/ health[s] = "healthy"
BY DEF LabType, S!Judge

LEMMA RunningContainers ==
  ASSUME ContainersInv, phase = "running", phase' = phase, S!Next
  PROVE  ContainersInv'
<1>0. "authoritative" \in S!Service /\ "fault-proxy" \in S!Service /\ LabType
  BY DEF S!Service, ContainersInv
<1> USE DEF ContainersInv, StartedInv, AcceptedInv, AnsweredInv
<1>1. CASE S!StartBind
  <2>1. /\ bind' \in {"loading", "exited"} /\ (bind' = "loading" => setting.upstreams)
        /\ health' = [health EXCEPT !["authoritative"] = "starting"]
        /\ UNCHANGED <<setting, proxy, answered>>
    BY <1>1 DEF S!StartBind, S!Fresh
  <2> QED
    BY <1>0, <2>1 DEF LabType
<1>2. CASE S!BindLoads
  BY <1>2 DEF S!BindLoads, LabType
<1>3. CASE S!BindExits
  BY <1>3 DEF S!BindExits, LabType
<1>4. CASE S!StartProxy
  <2>1. /\ proxy' \in {"serving", "exited"} /\ (proxy' = "serving" => setting.configurable)
        /\ health' = [health EXCEPT !["fault-proxy"] = "starting"]
        /\ UNCHANGED <<setting, bind>> /\ (proxy # "absent" \/ setting.portsFree)
    BY <1>4 DEF S!StartProxy, S!Fresh
  <2> QED
    BY <1>0, <2>1 DEF LabType
<1>5. CASE S!ProxyExits
  BY <1>5 DEF S!ProxyExits, LabType
<1>6. CASE S!Fill
  BY <1>6 DEF S!Fill, LabType
<1>7. CASE S!Drain
  BY <1>7 DEF S!Drain, LabType
<1>8. CASE S!CheckBind
  <2>1. UNCHANGED <<setting, bind, proxy, answered>> /\ bind # "absent"
    BY <1>8 DEF S!CheckBind
  <2>2. S!Judge("authoritative", bind = "serving")
    BY <1>8 DEF S!CheckBind
  <2>3. /\ health' \in [S!Service -> {"starting", "healthy", "unhealthy"}]
        /\ health'["fault-proxy"] = health["fault-proxy"]
    BY <1>0, <2>2, JudgedHealth
  <2> QED
    BY <2>1, <2>3 DEF LabType
<1>9. CASE \E delay \in Delays : S!CheckProxy(delay)
  <2>1. PICK delay \in Delays : S!CheckProxy(delay)
    BY <1>9
  <2>2. /\ UNCHANGED <<setting, bind, proxy>> /\ S!Judge("fault-proxy", S!Healthy(delay))
        /\ answered' = (answered \/ (bind = "serving" /\ S!Healthy(delay)))
    BY <2>1 DEF S!CheckProxy
  <2>3. S!Healthy(delay) \in BOOLEAN
    BY DEF S!Healthy, S!InTime
  <2>4. /\ health' \in [S!Service -> {"starting", "healthy", "unhealthy"}]
        /\ health'["authoritative"] = health["authoritative"]
        /\ health'["fault-proxy"] = "healthy" => S!Healthy(delay) \/ health["fault-proxy"] = "healthy"
    BY <1>0, <2>2, <2>3, JudgedHealth
  <2>5. AnsweredInv'
    BY <2>2, <2>4, HealthyServed
  <2> QED
    BY <2>2, <2>4, <2>5 DEF LabType
<1>10. CASE S!UpDone
  BY <1>10 DEF S!UpDone, LabType
<1>11. CASE S!UpFails
  BY <1>11 DEF S!UpFails, LabType
<1> QED
  BY <1>1, <1>2, <1>3, <1>4, <1>5, <1>6, <1>7, <1>8, <1>9, <1>10, <1>11 DEF S!Next

-----------------------------------------------------------------------------
LEMMA InitLab == LabInit => LabInv
BY InitSettings, InitContainers DEF LabInit, LabInv

LEMMA NextLab == ASSUME LabInv, [LabNext]_labVars PROVE LabInv'
<1>1. CASE Next /\ UNCHANGED lab
  BY <1>1, NextSettings, SettingsContainers DEF LabInv
<1>2. CASE HandOff
  BY <1>2, HandOffSettings, HandOffContainers DEF LabInv
<1>3. CASE phase = "running" /\ S!Next /\ UNCHANGED vars
  <2>1. SettingsInv'
    BY <1>3, SameEnvironment DEF vars, LabInv, SettingsInv, SettingsType, ReadInv, RefusedInv
  <2> QED
    BY <1>3, <2>1, RunningContainers DEF vars, LabInv
<1>4. CASE UNCHANGED labVars
  <2>1. SettingsInv'
    BY <1>4, SameEnvironment DEF labVars, vars, LabInv, SettingsInv, SettingsType, ReadInv, RefusedInv
  <2>2. ContainersInv'
    BY <1>4 DEF labVars, vars, lab, LabInv, ContainersInv, LabType, StartedInv, AcceptedInv, AnsweredInv
  <2> QED
    BY <2>1, <2>2 DEF LabInv
<1> QED
  BY <1>1, <1>2, <1>3, <1>4 DEF LabNext

(* Of every behaviour of lab.sh up.                                        *)
THEOREM LabInvariant == LabSpec => []LabInv
BY InitLab, NextLab, PTL DEF LabSpec

(* validate_ipv4_publications compares what compose publishes, unless the  *)
(* two read a compared setting differently.                                *)
THEOREM PublishesTheValidated == LabSpec => []ValidatedIsPublished
<1>1. LabInv => ValidatedIsPublished
  BY InvValidated DEF LabInv
<1> QED
  BY <1>1, LabInvariant, PTL

(* Services that clash get past lab.sh by one of the stated ways only.     *)
THEOREM ClashesExplained == LabSpec => []ClashExplained
<1>1. LabInv => ClashExplained
  BY InvClash DEF LabInv
<1> QED
  BY <1>1, LabInvariant, PTL

(* Up is reported only by a step that finds both services healthy: of a    *)
(* proxy that has answered since it started, over accepted settings.       *)
LEMMA StepUpMeans ==
  ASSUME LabInv, LabNext, up = "waiting", up' = "done"
  PROVE  answered /\ setting \in S!Setting /\ setting.portsFree /\ setting.upstreams /\ setting.configurable
<1>1. phase = "running" /\ S!Next
  BY DEF LabNext, HandOff, lab
<1>2. S!UpDone
  BY <1>1 DEF S!Next, S!StartBind, S!BindLoads, S!BindExits, S!StartProxy, S!ProxyExits, S!Fill, S!Drain,
              S!CheckBind, S!CheckProxy, S!UpFails
<1>3. /\ bind # "exited" /\ proxy \notin {"absent", "exited"}
      /\ health["authoritative"] = "healthy" /\ health["fault-proxy"] = "healthy"
  BY <1>2 DEF S!UpDone, S!AllHealthy, S!Service
<1>4. bind \in {"loading", "serving"} /\ proxy \in {"serving", "full"}
  BY <1>3 DEF LabInv, ContainersInv, LabType, StartedInv
<1> QED
  BY <1>1, <1>3, <1>4 DEF LabInv, ContainersInv, StartedInv, AcceptedInv, AnsweredInv

(* up succeeds only when the proxy, as it runs now, has answered with what *)
(* BIND says of its zone, over settings that every part has accepted.      *)
THEOREM UpIsAnswered == LabSpec => UpMeansAnswered
<1>1. LabInv /\ [LabNext]_labVars =>
        [up = "waiting" /\ up' = "done" =>
          answered /\ setting \in S!Setting /\ setting.portsFree /\ setting.upstreams /\ setting.configurable]_labVars
  BY StepUpMeans
<1> QED
  BY <1>1, LabInvariant, PTL DEF LabSpec, UpMeansAnswered

=============================================================================
