------------------------------ MODULE MCLabUp -------------------------------
(* Files of at most two lines, of every form and of settings that default, *)
(* coincide as texts or in what they stand for, are refused by a later     *)
(* reader or are for IPv6 only.                                            *)
EXTENDS LabUp

MCKey == {"DNS_PORT", "DNS_FAULT_PORT", "DNS_BIND_IPV4", "DNS_FAULT_BIND_IPV4", "DNS_BIND_IPV6",
          "DNS_UPSTREAMS", "DNS_ALLOWED_CLIENTS", "CHUNK_DELAY_MS", "STALL_SECONDS",
          "IO_TIMEOUT_SECONDS", "MAX_SESSIONS"}
MCNumeral == [t \in {"0", "0.1", "2", "5", "50", "53", "053", "64", "64.0", "1024", "1025", "5300"} |->
  CASE t = "0" -> 0 [] t = "0.1" -> 100 [] t = "2" -> 2000 [] t = "5" -> 5000 [] t = "50" -> 50000
    [] t \in {"53", "053"} -> 53000 [] t \in {"64", "64.0"} -> 64000
    [] t = "1024" -> 1024000 [] t = "1025" -> 1025000 [] OTHER -> 5300000]
MCWhole == DOMAIN MCNumeral \ {"0.1", "64.0"}
MCPorts == [t \in MCWhole |-> MCNumeral[t] \div 1000]
LongLoopback == "0:0:0:0:0:0:0:1"
MCHosts == [t \in {"127.0.0.1", "0.0.0.0", "192.0.2.1", "::", "::1", LongLoopback} |->
  IF t = LongLoopback THEN "::1" ELSE t]
MCNetworks == [t \in {"127.0.0.1/32,::1/128", "192.0.2.0/24", "0.0.0.0/0", "192.0.2.1"} |->
  CASE t = "127.0.0.1/32,::1/128" -> {"loopback"} [] t = "0.0.0.0/0" -> {"all"} [] OTHER -> {"lan"}]
MCAddresses == {"127.0.0.1", "192.0.2.1", "::1"}
MCTexts == {"", "nan"} \cup DOMAIN MCNumeral \cup DOMAIN MCHosts \cup DOMAIN MCNetworks

Nothing == [k \in MCKey |-> "unset"]
With(k, v) == [Nothing EXCEPT ![k] = v, !["DNS_UPSTREAMS"] = "192.0.2.1"]
MCCaller == {Nothing, With("DNS_PORT", "53"), With("DNS_FAULT_PORT", "5300"), With("DNS_BIND_IPV4", "0.0.0.0"),
             With("DNS_FAULT_PORT", ""), With("DNS_UPSTREAMS", "nan")}

Set(k, v) == [form |-> "plain", key |-> k, value |-> v]
Line ==
  {Set("DNS_PORT", "53"), Set("DNS_PORT", "053"), Set("DNS_PORT", ""), Set("DNS_PORT", "0.1"),
   Set("DNS_FAULT_PORT", "5300"), Set("DNS_FAULT_PORT", "0"),
   Set("DNS_BIND_IPV4", "0.0.0.0"), Set("DNS_BIND_IPV4", "192.0.2.1"),
   Set("DNS_FAULT_BIND_IPV4", "127.0.0.1"), Set("DNS_FAULT_BIND_IPV4", ""),
   Set("DNS_BIND_IPV6", "::"), Set("DNS_BIND_IPV6", "127.0.0.1"),
   Set("DNS_BIND_IPV6", LongLoopback),
   Set("DNS_UPSTREAMS", "192.0.2.1"), Set("DNS_UPSTREAMS", ""),
   Set("DNS_ALLOWED_CLIENTS", "192.0.2.0/24"), Set("DNS_ALLOWED_CLIENTS", "0.0.0.0/0"),
   Set("IO_TIMEOUT_SECONDS", "0.1"), Set("IO_TIMEOUT_SECONDS", "0"), Set("STALL_SECONDS", "64"),
   Set("CHUNK_DELAY_MS", "nan"), Set("MAX_SESSIONS", "64.0"), Set("MAX_SESSIONS", "1025"),
   [Set("DNS_PORT", "53") EXCEPT !.form = "compose only"],
   [Set("DNS_FAULT_BIND_IPV4", "127.0.0.1") EXCEPT !.form = "compose only"],
   [Set("MAX_SESSIONS", "0") EXCEPT !.form = "comment"]}
MCLines == UNION {[1 .. n -> Line] : n \in 0 .. 2}

MCRetries == 2
MCCheckTime == 2000
MCIoTimeouts == {MCNumeral[t] : t \in DOMAIN MCNumeral} \cap 100 .. 60000
MCDelays == {50, 1000, 3000}

=============================================================================
