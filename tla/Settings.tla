------------------------------ MODULE Settings ------------------------------
(***************************************************************************)
(* The lab's settings on their way from the caller's environment and a     *)
(* .env file to what docker publishes and what the proxy is configured     *)
(* with: scripts/lab.sh reads the file one line a step, checks the two     *)
(* IPv4 publications and calls docker compose, which reads the file again  *)
(* by its own rules; Config.from_env accepts or refuses what it is given.  *)
(***************************************************************************)
EXTENDS Integers, Sequences

CONSTANTS
  Unset,     \* no value: differs from every text, the empty one included
  Texts,     \* the texts a setting may have
  Key,       \* the settings that may be given
  Lines,     \* the files there may be, as sequences of lines
  Caller,    \* the environments lab.sh may be called in, Key -> text or Unset
  Numeral,   \* the texts float() takes, with their value in thousandths
  Whole,     \* those of them int() takes
  Ports,     \* the texts docker takes for one port, with its number; 0: a free one
  Hosts,     \* the texts docker takes for an address, with its canonical text
  Addresses, \* the texts that are lists of addresses
  Networks   \* the texts that are lists of networks, with their networks

(* The forms of a line: KEY=value; one that only compose takes for an      *)
(* assignment (export KEY=value, or blanks before it); a comment.          *)
Form == {"plain", "compose only", "comment"}

(* The settings lab.sh compares, and those it or compose reads besides.    *)
Compared == {"DNS_PORT", "DNS_FAULT_PORT", "DNS_BIND_IPV4", "DNS_FAULT_BIND_IPV4"}
Others ==
  {"DNS_BIND_IPV6", "DNS_UPSTREAMS", "DNS_ALLOWED_CLIENTS", "CHUNK_DELAY_MS", "STALL_SECONDS",
   "IO_TIMEOUT_SECONDS", "MAX_SESSIONS"}

ASSUME SettingsAssumption ==
  /\ Unset \notin Texts /\ "" \in Texts
  /\ Compared \cup Others \subseteq Key
  /\ Lines \subseteq Seq([form : Form, key : Key, value : Texts])
  /\ Caller \subseteq [Key -> Texts \cup {Unset}]

(* What the texts are read as. *)
ASSUME ReadingAssumption ==
  /\ DOMAIN Numeral \subseteq Texts /\ DOMAIN Networks \subseteq Texts /\ Addresses \subseteq Texts
  /\ Whole \subseteq DOMAIN Numeral /\ \A t \in Whole : Numeral[t] % 1000 = 0
  /\ DOMAIN Ports \subseteq Texts /\ \A t \in DOMAIN Ports : Ports[t] \in 0 .. 65535
  /\ DOMAIN Hosts \subseteq Texts

(* Addresses whose text is the canonical one. *)
ASSUME CanonicalAssumption ==
  \A t \in {"127.0.0.1", "0.0.0.0", "::1", "::"} : t \in DOMAIN Hosts /\ Hosts[t] = t

Command == {"up", "up-ipv6"}

VARIABLES
  phase,    \* "load", "validate", "compose", "start", "refused"
  command,  \* what lab.sh is asked to do
  found,    \* the file lab.sh looks for is there
  lines,    \* the .env file
  line,     \* the line lab.sh is at
  env       \* the environment of lab.sh and of what it calls

vars == <<phase, command, found, lines, line, env>>

Init ==
  /\ phase = "load" /\ line = 1
  /\ command \in Command /\ env \in Caller
  \* LAB_ENV_FILE may name a file that is not there while .env is
  /\ found \in BOOLEAN /\ lines \in Lines

-----------------------------------------------------------------------------
(* ${KEY:-default}: for an empty value as for none. *)
Or(value, default) == IF value \in {Unset, ""} THEN default ELSE value

FaultAddress(e) == Or(e["DNS_FAULT_BIND_IPV4"], Or(e["DNS_BIND_IPV4"], "127.0.0.1"))
Port(e) == Or(e["DNS_PORT"], "5300")
FaultPort(e) == Or(e["DNS_FAULT_PORT"], "53")

(* Mutant: one of the settings compose reads is missing from the list. *)
LoadListed(l) == l.form = "plain" /\ env[l.key] = Unset /\ l.key # "DNS_FAULT_BIND_IPV4"

(* The caller's value, then the first line's, is kept: even an empty one. *)
Load(l) == l.form = "plain" /\ env[l.key] = Unset

ReadLine ==
  /\ phase = "load" /\ found /\ line <= Len(lines)
  /\ env' = IF Load(lines[line]) THEN [env EXCEPT ![lines[line].key] = lines[line].value] ELSE env
  /\ line' = line + 1
  /\ UNCHANGED <<phase, command, found, lines>>

Loaded ==
  /\ phase = "load" /\ (found => line > Len(lines))
  /\ phase' = "validate"
  /\ UNCHANGED <<command, found, lines, line, env>>

(* Mutant: the address is compared without its defaults. *)
SamePublicationUndefaulted ==
  Or(env["DNS_FAULT_BIND_IPV4"], "") = "127.0.0.1" /\ Port(env) = FaultPort(env)

SamePublication == FaultAddress(env) = "127.0.0.1" /\ Port(env) = FaultPort(env)

Validate ==
  /\ phase = "validate"
  /\ phase' = IF SamePublication THEN "refused" ELSE "compose"
  /\ UNCHANGED <<command, found, lines, line, env>>

-----------------------------------------------------------------------------
(* docker compose: its environment first, then the last line of the file,  *)
(* which it finds by itself in the lab's directory.                        *)
InFile(k) == {i \in DOMAIN lines : lines[i].form # "comment" /\ lines[i].key = k}
ComposeValue(k) ==
  IF env[k] # Unset THEN env[k]
  ELSE IF InFile(k) = {} THEN Unset
  ELSE lines[CHOOSE i \in InFile(k) : \A j \in InFile(k) : j <= i].value
composed == [k \in Key |-> ComposeValue(k)]

Publication(service, address, port) == [service |-> service, address |-> address, port |-> port]
Published ==
  {Publication("authoritative", "127.0.0.1", Port(composed)),
   Publication("fault-proxy", FaultAddress(composed), FaultPort(composed))}
  \cup
  IF command = "up-ipv6"
  THEN {Publication("authoritative", "::1", Port(composed)),
        Publication("fault-proxy", Or(composed["DNS_BIND_IPV6"], "::1"), FaultPort(composed))}
  ELSE {}

(* docker refuses what it cannot read as a port or as an address ...       *)
Readable == \A p \in Published : p.port \in DOMAIN Ports /\ p.address \in DOMAIN Hosts

(* ... and goes by what the texts stand for, not by the texts: two         *)
(* services want one port of one address, or of all addresses.             *)
V6 == {"::", "::1"}
Clash(p, q) ==
  /\ p.service # q.service
  /\ Ports[p.port] = Ports[q.port] /\ Ports[p.port] # 0
  /\ \/ Hosts[p.address] = Hosts[q.address]
     \/ Hosts[p.address] = "0.0.0.0" /\ Hosts[q.address] \notin V6
     \/ Hosts[p.address] = "::" /\ Hosts[q.address] \in V6
PortsFree == \A p, q \in Published : ~Clash(p, q)

(* Config.from_env, of the settings compose hands to the proxy. *)
Given(k) ==
  LET default == [DNS_ALLOWED_CLIENTS |-> "127.0.0.1/32,::1/128", CHUNK_DELAY_MS |-> "50",
                  STALL_SECONDS |-> "2", IO_TIMEOUT_SECONDS |-> "5", MAX_SESSIONS |-> "64"]
  IN Or(composed[k], default[k])

BoundedFloat(k, minimum, maximum) ==
  Given(k) \in DOMAIN Numeral /\ Numeral[Given(k)] \in minimum .. maximum
BoundedInt(k, minimum, maximum) ==
  Given(k) \in Whole /\ BoundedFloat(k, 1000 * minimum, 1000 * maximum)
Listed == Given("DNS_ALLOWED_CLIENTS") \in DOMAIN Networks /\ "all" \notin Networks[Given("DNS_ALLOWED_CLIENTS")]

Configurable ==
  /\ BoundedFloat("CHUNK_DELAY_MS", 0, 10000000)
  /\ BoundedFloat("STALL_SECONDS", 0, 60000)
  /\ BoundedFloat("IO_TIMEOUT_SECONDS", 100, 60000)
  /\ BoundedInt("MAX_SESSIONS", 1, 1024)
  /\ Listed

(* Mutant: only those listed are admitted. *)
AllowedClientsOnly == Networks[Given("DNS_ALLOWED_CLIENTS")]

(* The health check comes from the proxy's own loopback address. *)
AllowedClients == {"loopback"} \cup Networks[Given("DNS_ALLOWED_CLIENTS")]

(* compose: DNS_UPSTREAMS is required; render-recursion.sh: of addresses.  *)
Upstreams == ComposeValue("DNS_UPSTREAMS")
UpstreamsGiven == Upstreams \notin {Unset, ""}
UpstreamsUsable == Upstreams \in Addresses

Compose ==
  /\ phase = "compose"
  /\ phase' = IF UpstreamsGiven /\ Readable THEN "start" ELSE "refused"
  /\ UNCHANGED <<command, found, lines, line, env>>

Next == ReadLine \/ Loaded \/ Validate \/ Compose

-----------------------------------------------------------------------------
(* Something in the file reaches compose and not lab.sh.                   *)
Unread == {lines[i].key : i \in {i \in DOMAIN lines :
             lines[i].form = "compose only" \/ (lines[i].form = "plain" /\ ~found)}}

(* What validate_ipv4_publications compares is what compose publishes,     *)
(* whatever the order of the lines, their repetition and empty values:     *)
(* all but settings in a form only compose reads or, when LAB_ENV_FILE     *)
(* names no file, in the .env that compose falls back to.                  *)
ValidatedIsPublished ==
  phase \in {"compose", "start"} =>
    \/ \E k \in Compared \cap Unread : composed[k] # env[k]
    \/ /\ Publication("fault-proxy", FaultAddress(env), FaultPort(env)) \in Published
       /\ Publication("authoritative", "127.0.0.1", Port(env)) \in Published

(* Two services on one address and port get to docker only past what is    *)
(* not compared: a wildcard address, IPv6 (up-ipv6), the address in        *)
(* DNS_BIND_IPV6 when it is the IPv4 loopback one, unread settings, or     *)
(* one port or address written in two ways (053 and 53), of which          *)
(* validate_ipv4_publications compares the texts.                          *)
Respelt(p, q) ==
  /\ Hosts[p.address] = Hosts[q.address] /\ Ports[p.port] = Ports[q.port]
  /\ p.address # q.address \/ p.port # q.port
ClashExplained ==
  phase = "start" =>
    \A p, q \in Published :
      Clash(p, q) =>
        \/ Hosts[p.address] = "0.0.0.0" \/ Hosts[p.address] \in V6
        \/ command = "up-ipv6" /\ composed["DNS_BIND_IPV6"] = "127.0.0.1"
        \/ Respelt(p, q)
        \/ \E k \in Compared \cap Unread : composed[k] # env[k]

=============================================================================
