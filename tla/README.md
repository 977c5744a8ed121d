# A verification project for the DNS LAN fixture lab

The repository runs a DNS laboratory: BIND serves static zones and forwards other names, and in
front of it the *fault proxy* (`fault_proxy/`, Python) forwards ordinary queries over the
transport they came by, answers names under `fresh.example.test` itself, and, for names under
`transport.example.test`, damages its TCP replies on purpose (splits, early closes, wrong lengths,
stalls, duplicates). Scripts start the lab and check it from outside with `dig` and with a small
TCP probe.

This directory holds TLA+ models of the parts of that program that have behaviour worth checking,
the TLC configurations that check them, and proofs of the main results for every value of the
constants.

## 1. Inventory

| part | state it keeps | operations | modelled in |
|---|---|---|---|
| proxy process: `run`, `_BoundedThreadingMixIn`, `_make_server` (`dns_fault_proxy.py`) | one semaphore shared by TCP and UDP, two `serve_forever` loops, a thread per admitted request, a stop event | accept, verify, acquire or reject, spawn, finish, release; signal, `shutdown`, `server_close`, join | `BoundedServer`, refines `SessionPool` |
| TCP session: `_TCPHandler.handle`, `serve_fresh_tcp` | the connection, how many queries have been read, the reply being written | read a query, forward, answer, collect a batch, stall, write, fail | `TcpSession` |
| framing: `send_frame`, `_write_parts`, `recv_exact`, `recv_frame`, `_next`, and the probe `tcp-probe.py` | the byte streams, timers of both sides | cut, pause, write, read, time out, judge | `ProbeLab`; `Framing`, refines `FrameChannel` |
| names: `_query_scenario`, `_question_end`, `_decode_name`, `scenario_for`, `build_query` | a cursor into the query | follow a label or a pointer, end, refuse, choose the scenario | `QuestionName` |
| UDP exchange: `_UDPHandler`, `forward_udp`, `make_truncated_response` | sockets towards BIND, the datagrams in flight | answer, drop, truncate, delay, forward, retry the next address | `UdpExchange` |
| configuration: `lab.sh`, `.env`, both compose files, `Config.from_env` | the caller's environment, the file | load, validate, publish, accept or refuse | `Settings`, in `LabUp` |
| fresh answers: `fresh_fixtures.py` | none between queries | check the query, select a record set, chase an alias, refer, deny, add addresses, encode, truncate | `FreshAnswer` |
| start-up: compose, `run_healthcheck`, `bind/scripts/entrypoint.sh`, `render-recursion.sh` | container states, health, failed checks | start, load, check, exit, restart, `up --wait` | `StartUp`, in `LabUp` |
| large fixtures: `generate-large-fixtures.py` and the smoke test's loop over them | the response being made | generate, add a record, truncate, add sections, compare with the manifest | `LargeAnswer` |
| zones, captures, docs, CI, BIND, Python's `socketserver` | | | not modelled (data or third-party); `socketserver` is modelled as the proxy uses it |

How the parts meet: an accept loop hands a request to a thread (`BoundedServer`), the thread runs
one of the two handlers (`TcpSession`, `UdpExchange`), the TCP handler reads and writes through the
framing functions (`ProbeLab`, `Framing`) and chooses
by the name in the query (`QuestionName`). What the process is configured with, and whether it runs at
all, is decided by `lab.sh`, compose and the start-up (`LabUp`). The only shared mutable state between sessions is the semaphore;
everything else is per connection or per process. A session that does not end keeps a permit, which
is why `TcpSession!SessionEnds` is the condition under which `BoundedServer!ServiceRecovers` holds.

The behaviours that are hard to test are listed in `PROJECT.json` under `hazards`, each at its line:
a thread that cannot start after its permit was taken, a permit that comes back after the client's
EOF, a stop that arrives between `select` and `accept`, sockets closed under running loops, mapped
addresses, a connection reused after a damaged reply, a batch whose later queries never come, a
partial write followed by a reset, lengths at the limit of two octets, two timeouts that race, and
late datagrams; compression
pointers, a `.env` that two programs read by different rules, health checks with two timeouts, and
hand-written sizes beside generated records.

## 2. Modules

### SessionPool
The abstract specification of admission: a set of sessions in progress, never more than `Limit`; only
permitted clients enter; one is turned away only when the pool is full. No threads, no sockets.

### BoundedServer
The process. A request (TCP connection or UDP datagram) is a slot with a stage: `queued` in the
kernel, `accepted` by the loop, `admitted` with a permit, `running` in its thread, `closing` (its
socket is shut and the permit not yet back), and the ways to end. `Accept`, `Acquire`, `Overload`,
`Spawn`, `SpawnFails`, `Finish` and `Release` are the steps of `verify_request`, `process_request`
and `process_request_thread` that another thread may see separately. `Poll` and `Accept` are apart
because `serve_forever` reads the stop flag before it handles a request. The main thread goes through
`run()`'s `finally` clause one call at a time (`StopStep`), each `shutdown()` being two steps: raise
the flag, wait for the loop. `JoinAndExit` abandons the handlers, which are daemon threads.
What the module says of `serve_forever`, `shutdown` and `server_close` is Python's library as the
code uses it (`external` in the map). An address is a family and a host; `Unmapped` is
`ipv4_mapped`.

### TcpSession
One connection. The client sends whole messages, ahead of the replies if it likes, half-closes,
resets, or falls silent. A message is reduced to what the code distinguishes: whether `is_fresh`, and
the scenario its name selects. A reply is a few cells (prefix, front and back of the body), sent one
by one since a write can fail after any of them. Each outcome of a turn of `handle()`'s loop is an
action: `RecvMalformed`, `RecvCloseBefore`, `RecvStall`, `RecvForward`, `RecvBatch`, `RecvFresh`,
`RecvFails`, `LoopDone`, then `ForwardAnswered` or `ForwardFails`, `GatherNext`, `GatherShort` or
`GatherFails`, and `Write` or `WriteFails`. The four `except` clauses are `Close` with a reason. A message with
QR set makes an empty frame in a batch, whatever its name; alone it ends the session when it is fresh, and is
forwarded to a BIND that does not answer it otherwise.

### ProbeLab
One run of `tcp-probe.py` against the proxy, octet by octet, on a clock in hundredths of a second
that jumps to the next timer when nobody has anything to do. `FrameParts` is `send_frame`,
`RequestParts`, `ParseFrames` and `Meets` are the probe's `request_parts`, `parse_frames` and
`evaluate`; the rows are the smoke test's table.

The smoke test's table is run with and without a pause between the parts of a reply.

### Framing and FrameChannel
`FrameChannel` is a FIFO of whole messages that somebody may stop reading. `Framing` is a stream of octets
that arrives in any pieces and at any pace, `recv_exact` over it, and its two users on one connection:
`recv_frame` and the batch's `_next`, whichever takes the next message. Octets are digits to a base
`Radix`, so that a length of two octets can be small. A clock counts the waits of `recv`. This refinement
is why `TcpSession` may speak of whole messages.

### QuestionName
What the proxy makes of the name in a query. `Begin`, `Nameless`, `Unreadable` are the checks of the
header; `Jump`, `TakeLabel`, `Finish` and `GiveUp` are the turns of `_decode_name`'s loop; `ScenarioFor`
goes by the joined text, as the code does. The reference, `Path`, is the same walk without the memory of
the pointers that were followed.

### Settings, StartUp, LabUp
`Settings` reads the `.env` file line by line into `lab.sh`'s environment (`ReadLine`), checks the two
publications (`Validate`), and then lets compose read the same file by its own rules (`composed`, external):
the last line wins, `export` and leading blanks are allowed. `Published` is what the compose files publish,
`Configurable` is `Config.from_env`, `UpstreamsUsable` what `render-recursion.sh` accepts. A text is a
value with its readings, since its readers do not agree: `lab.sh` compares texts, `float()` and `int()` read
numbers (`Numeral`, `Whole`), docker a port and an address (`Ports`, `Hosts`: 053 is port 53), the proxy and BIND
lists of networks and of addresses. `Clash` goes by docker's readings, and docker refuses what it cannot read
(`Readable`). A range of ports, which docker takes too, is not among the texts.
`StartUp` is the two containers: BIND first, the proxy when BIND is healthy, exits and restarts of each in
any state, both health checks (`CheckProxy` is `run_healthcheck` against compose's own timeout), clients
that fill the session pool, and `up -d --wait`. `LabUp` composes them: `HandOff` turns settings into what the
containers are started with.

### LargeAnswer
A generated fixture as a response, one record a step: the records of `build_fixtures`, the sections that BIND
adds as far as they fit (external), three sizes of response, and the manifest's bounds as the smoke test uses
them.

### UdpExchange
The handlers of UDP datagrams, several at a time, and `forward_udp`. A handler goes `new`, `resolve`
(getaddrinfo), `send` and `wait` once for each address, `reply`, `done`; `Receive` compares the
transaction ID and nothing else, as `_validate_upstream_response` does, and an answer with another ID ends the
attempts, since `DNSFormatError` is no `OSError`; an answer of less than a header would end them alike, and BIND
sends none. A datagram that was sent stays in its set for ever: it
may be taken up never (lost), later (late) or twice (duplicated), and a port that was closed may be given
to another socket while answers to it are on their way. `ServerClose` may come at any moment.

### FreshAnswer
One call of `answer_fresh`: `Check` is its sequence of tests, `Answer` one turn of `_answer`'s loop (the
CASE of `Turn` has the code's branches in the code's order; the `else` of the loop is the last turn's
SERVFAIL), `Encode` is `_encode_response`. A name is its key and what stands before it, of which only
the length matters, and that only below a DNAME. `Node` is `_records`, with one representative of
each group of keys that take the same branches; an RRset is its owner, its type, its targets and its
addresses. dnspython's writer (external) stops at the first RRset that has no room: the size limit is
abstracted to "room for the first n RRsets", any n, which includes every real limit. `Lookup` is the
whole loop as a function, by which a reply is compared with the replies to other questions. Left out:
TTLs, letter case, the echo of question and EDNS, and how much of a malformed query `_error_response`
recovers.

### MC modules
`MCBoundedServer`, `MCTcpSession`, `MCProbeLab`, `MCUdpExchange`, `MCFreshAnswer`, `MCFraming`,
`MCQuestionName` and `MCLabUp` give the constants their values; `LargeAnswer` has none. Definitions called
"Mutant" in the modules are what a plausible bug would make of the definition below them; no specification
uses them, and each property is violated when the definition is replaced by its mutant.

## 3. Runs

Each is `tlc -config <cfg> <module>`, the module being the part of the cfg's name before `_`.

| run | configuration | distinct states | what it shows |
|---|---|---|---|
| `server` | `MCBoundedServer.cfg` | 63,687 | permits, access and shutdown stay right; the server refines `SessionPool` |
| `server_live` | `MCBoundedServer_live.cfg` | 5,445 | queued requests are taken up and a stop completes although no handler need ever end; when they do end, a full gate gets a permit back |
| `session` | `MCTcpSession_mixed.cfg` | 354,689 | replies stay aligned and in order, a clean end has delivered the whole stimulus, a batch's replies in its order, the limit is kept, the session ends |
| `session_local` | `MCTcpSession_local.cfg` | violated | finding 2 below |
| `probe` | `MCProbeLab_table.cfg` | 16,010 | the smoke test's rows are met, up to the largest length a prefix can say; the probe gets the octets of its scenario and no others |
| `probe_normal` | `MCProbeLab_normal.cfg` | violated | finding 1 below |
| `udp` | `MCUdpExchange.cfg` | 294,968 | replies match IDs, stimuli never reach BIND, every address is tried unless an answer to another query came, every handler ends |
| `fresh_answer` | `MCFreshAnswer.cfg` | 9,155 | chains are connected and finite, YXDOMAIN is answered exactly where the name would not fit, follow-ups agree, denials name the nearest zone, referrals are kept, truncation is honest |
| `framing` | `MCFraming.cfg` | 37,718 | two readers of one stream implement a FIFO of messages, wait for no peer for ever, and hold for no longer than a timeout per octet and one more |
| `names` | `MCQuestionName.cfg` | 381,683 | a name is decoded exactly when it can be, `build_query`'s names are read back, a fault is chosen for its own name only |
| `lab_up` | `MCLabUp.cfg` | 79,890 | what `lab.sh` validates is published, clashes get through only where they are not compared, success means an answer, health is regained, an outage is seen |
| `large` | `LargeAnswer.cfg` | 15,476 | the manifest's bounds hold of every TCP response, and over UDP the fixtures are truncated as their names say |

The type invariants of `ProbeLab`, `UdpExchange`, `FreshAnswer`, `Framing` and `QuestionName` are checked as
the first conjunct of `RowsMet`, `ReplyMatches`, `NeverGivesUp`, `HeldBounded` and `DecodesExactly`.

**Bounds and why they are enough.** `server`: three TCP connections and two datagrams for two permits,
so that the gate is full across transports, somebody is turned away and somebody waits; the peers cover
listed and unlisted, IPv4, IPv6, mapped and loopback, and the lists hold a network in mapped form, which
matches nobody. The live run needs one permit and three requests for the same. `session`: every kind of query in
conversations of two turns and three messages, which is what a batch needs after another query, and a few
kinds with a limit of three and five messages, so that the limit is met in turns and overrun by a batch in
the last one. `probe`: lengths on both sides of the chunk sizes 64 and 256 and of the prefix's radix, and
around 65535 - 16; BIND at once or after 1.2 seconds; octet by octet without pauses only the shortest
answer, which has the same interleavings. `udp`: two handlers are what one wrong answer takes, two ports for
up to four attempts force reuse, two addresses give a next one and a last one. `fresh_answer`: all of the
tables; nothing before the key, a label, `ns` (the glue's owner), and below the DNAMEs the prefixes on both
sides of 255 octets. `framing`: two messages show whether the first reader leaves the second its octets; a
base of two, a `HeaderSize` of two and messages of no, one, two and three octets give lengths that are zero, too
short for `_next`, and that need both octets of a prefix. `names`: the loop is scaled from 128 turns and 255
octets to four and seven, keeping the relation 255 = 2 * 128 - 1 that `OwnNamesRead` rests on; messages are
those of up to five octets, after one of the header's, of an alphabet with a length, a pointer's first octet, roots and text,
and `build_query`'s. `lab_up`: two lines are what an order and a repetition need; the texts include two for one port (053 and 53), two
for one address, and some that one reader takes and another refuses (64.0, a port of 0.1); two failed checks stand for
fifteen. `large`: the program's own numbers. The configurations have no CONSTRAINT; what counts up is
bounded by `MaxSent`, `MaxAddresses` and `Retries`.

Deadlock is not checked: a process that has exited, a closed session, a probe with its verdict, handlers
that are done, an answer that was sent, readers that gave up, a name that was read and settings
that `lab.sh` or compose refused rightly do nothing more. `StopCompletes`, `SessionEnds`, `HandlersEnd` and `TakenOrGivenUp` say that they get there.

**Fairness.** Threads that can run do run: weak fairness of each accept loop, of the main thread's
`finally` clause (`StopStep`), of a session's `Handle` and of UDP's `HandlerStep`. `Accept` of one
request has strong fairness because the kernel's queue is first in, first out and the model's is a set.
`Handle` is fair although clients may be silent because every wait of `handle()` has a timeout
(`settimeout`, `STALL_SECONDS`, BIND's own timeout), whose expiry is an action. Only the premise of
`ServiceRecovers` makes the server's handlers end (`HandlersEnding`), and `TcpSession!SessionEnds` and
`UdpExchange!HandlersEnd` are the grounds for it. In `Framing` the reading thread runs and time passes; the
peer owes nothing. In `LabUp` docker starts what is to be started and goes on checking, and BIND gets to
serve unless it exits; that some check of a serving proxy is answered in time is the premise of
`HealthHeals` (`AnswersInTime`). Nothing is assumed of clients, of the network, of BIND or of signals.

## 4. Proofs

Every module whose name ends with `Proofs` is checked with `tlapm <module>.tla`, and so is `SequenceFacts`,
which holds the lemmas about sequences that several of them cite, the least number of a set, induction over
the numbers in the form of a set that contains them all, and that a function defined by recursion on a number
satisfies its equations. What is assumed of the constants are the
named `ASSUME`s of the modules; TLC evaluates each of them in a run.

| module | proved | assumed |
|---|---|---|
| `BoundedServerProofs` | `GateAccounting`, `AccessExact`, `QuietAfterClose`, `NoSessionAfterStop`, the bound on sessions, and that the server implements `SessionPool` | any requests, peers and lists, `MaxSessions` in 1..1024 |
| `TcpSessionProofs` | `RepliesInOrder`, `QueryBudget`, `CleanEnd` | any set of kinds, any limit, any number of messages |
| `UdpExchangeProofs` | `ReplyMatches`, `StimulusOnly`, `AllTried` | any handlers, ports but 0, IDs and number of addresses; a handler is not one of the proxy's own answers |
| `FramingProofs` | `HeldBounded`, and that the readers implement `FrameChannel` | any radix of two or more, any messages a prefix can declare, any timeout, a header of at least one octet |
| `ProbeLabProofs` | `ReplyIntact` | any rows, delays and lengths between a header's 12 octets and the prefix's 65535 |
| | `RowsMet` | the same, and that the rows and the delays fit each other (`TableFits`) |
| `QuestionNameProofs` | `DecodesExactly`, `OwnNamesRead`, `FaultByName` | any messages of octets that reach to where the question begins, any names and suffix, any number of turns, 255 and 128 in their relation |
| `LabUpProofs` | `ValidatedIsPublished`, `ClashExplained`, `UpMeansAnswered` | texts with any readings: loopback and wildcard addresses that docker reads as themselves, whole numbers for `int()`, an `IO_TIMEOUT_SECONDS` for each numeral in its range |

**BoundedServerProofs.** The inductive invariant `IInv` adds to the checked invariants what the loops and the
main thread know of each other: a loop has a request in its hands only while busy, and one at most
(`HandInv`), and the main thread is past a `shutdown()` only if that loop is down (`DownInv`). Without
them `QuietAfterClose` is not inductive: a socket could be closed while its loop holds a request.
`NoSessionAfterStop` follows because permits are taken by busy loops only; in the refinement only
`Acquire` is a step `Enter` of the pool and only `Overload` a step that turns away, and
`GateAccounting` turns "no permit" into "the pool is full".

**TcpSessionProofs.** The invariant `TInv` is needed because `RepliesInOrder` speaks of what
was written and a later `Write` acts on what is still to be written: `TodoInv` says that the cells to come
belong to the current turn and, if the connection is to be reused, complete exactly one whole reply; `RestInv`
that between turns the stream ends at the end of a reply; `CountInv` relates the counters of turns and of
messages read. For `CleanEnd`, `DueInv` says that the cells of the current turn that were written and those to
come are together the stimulus of the query that was read.

**UdpExchangeProofs.** None of the three invariants is inductive: they speak of handlers that are done, for
which everything was decided before (`AllTried` moreover of the answers that came, which only grow in number).
`HandlerInv` says, place by place, what a handler that has come so far may know: one in `send` or
`wait` is of a forwarded key and has tried no more addresses than it found, one with a reply has the kind of
reply its key calls for. `NetInv` says that every datagram, however old, is of a handler with a forwarded key.

**FramingProofs.** `StreamInv` says that there are one sequence of octets, `all`, and one function, `at`, such
that `all` is the frames of everything sent, one behind the other, message i ending at `at[i]`; what the readers
have taken, the octets they have of the current message, those on the wire and those unsent lie in
`all` one behind the other, without gap or overlap. Both witnesses grow when a message is sent and stay as they are otherwise, and no
recursive definition is needed. From it the prefix a reader decodes is that of the message whose octets
it then takes, which is the refinement's step `Take`; `HeldBounded` needs only `WaitInv`, that the time held and
the time waited since the last octet are paid for by octets.

**ProbeLabProofs.** `CutFrom(p, s, c)` says that the pieces p, none of them empty, are what follows the first c
octets of s. The lemmas show that `FrameParts` cuts what `OnTheWire` states, scenario by scenario, and
`RequestParts` the query, pattern by pattern, for any length (`CutSlices`, about the last, shorter slice, is
the arithmetic). The invariant then follows the handler through its phases: `Reading` (what it has read and
what is still to be read are the first octets of the query), `GivenUp`, `Waiting`, `Writing` (what is on its way are the
first c octets of the reply and the parts are cut from the others) and `Finished`. Time plays no part in it.
This proof is why `ReplyIntact` speaks of "the handler is done with the query" and not of "the probe is done":
with long enough delays the probe may be done first.

`RowsMet` is about time, and is proved from a second invariant on top of that one, `TimeInv`. While the query is
sent, the handler's timer is ahead of the probe's next pause (`Sending`); afterwards the probe's timer, which is
set anew by whatever it reads, is ahead of what the handler waits for, be it BIND, a pause or a stall (`Served`);
with pauses between them, a part is read before the next is written, so that the probe has counted as many reads as there were
parts (`Apart`). So the probe ends with EOF, having what `OnTheWire` says, and the rest is arithmetic of `parse_frames`, a
function by recursion on the octets: what it makes of a whole frame, of two, of one that is cut off or too
short, and of a frame with something behind it. The hypothesis `TableFits` says that a row expects what its scenario is for, that
the pauses, BIND and the stall each take less than the timeout they are waited for with, and that a stall is
timed from a query sent whole. The smoke test's table is such a table: TLC evaluates it in `MCProbeLab`
(`MCTableFits`). It does not say how `IO_TIMEOUT_SECONDS` and the probe's timeout compare, which is what
finding 1 is about.

**QuestionNameProofs.** The reference `Path` has no memory and the loop has one, so the question is whether
`_decode_name` may refuse a name because a pointer was followed before. The invariant `IInv` says that the
loop is at `Path[steps]` with the labels on the way, that its `visited` are the places pointers led to, and where the name ends if a pointer was
followed. That a second visit excludes a root is the lemma about cycles: a path that comes back
to a place goes round for ever, so there is no turn at which it is at a root (induction over the numbers). For
`OwnNamesRead`, the path over an encoded name goes from the length of one label to that of the next; labels have
at least one octet, so 255 octets hold no more than 127 of them. `FaultByName` is about text: labels joined with
dots, stripped of trailing dots, lowered and split at the dots are the labels again if none holds a
dot, and a text that was split in as many pieces as the suffix and one more is a scenario's name exactly when
the pieces agree.

**LabUpProofs.** `SettingsInv` says that every plain line of a file that was found, as
far as it has been read, has left its key set in the environment (so that compose, which prefers the environment
to the file, gets the value `lab.sh` compared), and that past the validation the two publications differ. `ContainersInv` says what the states of the two containers imply: a
container runs with settings it accepts, a proxy that was reported healthy has answered. The proof corrected
`ClashExplained`: `DNS_BIND_IPV6=127.0.0.1` also makes `up-ipv6` publish one address and port twice, since
`compose.ipv6.yaml` takes the value as it is and `lab.sh` does not look at it. One more cause is that docker goes
by what the texts stand for: `DNS_PORT=053` beside the default `DNS_FAULT_PORT` of 53 passes `lab.sh`, which compares
texts, and clashes. For two publications that clash by none of the causes, and hence with the same texts, the proof
is that `lab.sh` has refused them. The configuration of `lab_up` contains both values.

**Model-checked only**, and why:
- every liveness property (`ServiceRecovers`, `StopCompletes`, `SessionEnds`, `HandlersEnd`,
  `TakenOrGivenUp`, `HealthHeals`, `OutageSeen` and the like): they rest on fairness, hence on ENABLED, which the prover cannot reason about;
- `FreshAnswer` and `LargeAnswer`: their tables are the program's own and there is no parameter of theirs to
  prove anything for; TLC goes through all of their states.

## 5. Findings

1. `probe_normal`: with the default delays the first row of the smoke test (`normal|normal|4`) and its
   loop over request patterns cannot be met. The probe wants EOF within four seconds, the proxy keeps a
   connection after a normal reply for `IO_TIMEOUT_SECONDS`, by default five.
2. `session_local`: the queries that a `reordered` or `coalesced` batch collects are answered by the
   proxy itself whatever their names, where the contract says that non-fresh queries go to BIND.

A small one without a run: the comment in `test_dname_overlong_substitution_returns_yxdomain` says that
`target-tree` adds five octets to `dname`; it adds six.

## 6. Not modelled

Logging, wording and command line parsing (of the proxy, the probe and the generator, and the latter's
writing of its two files); BIND, Docker and the zones' data, but for what `StartUp`, `Settings` and
`LargeAnswer` say of them; `LISTEN_*`, `UPSTREAM_*` and `HEALTHCHECK_HOST`, which compose sets to literals;
the intervals of health checks, the start period and `down`; the scripts' use of `dig` and `curl`; captures
and CI. Real time is modelled in `ProbeLab` and, for one `recv`, in `Framing`: elsewhere a timeout may happen at any time.
Two handlers of one process share nothing but the semaphore, so `TcpSession` and `UdpExchange` are not
composed with `BoundedServer` into one state space: `BoundedServer` sees a session as a stage that lasts
and may end, `SessionEnds` and `HandlersEnd` justify that it ends, and `Finish` covers every way it does.

## 7. Plan

The components with behaviour are modelled, and every safety property of a module with parameters is proved.
What could be added:

1. **`FreshAnswer` with tables as parameters**: `NeverGivesUp` from a rank on names that falls at every alias,
   for any acyclic tables and every length of what stands before the key (the module has a few), and
   `HonestTruncation` from `Encoded`. As it is the module speaks of one table, all of whose answers TLC visits.
2. **`FreshAnswer` in greater detail**: what `_error_response` recovers, the echo of EDNS, and the class
   and size arithmetic of `answer_fresh`.
