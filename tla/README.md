# TLA+ models of pfcp-go

This directory holds TLA+ models of the PFCP control-plane (CP) and user-plane
(UP) functions in `src/pkg`. It also holds the TLC configurations that check
them, and `PROJECT.json`, which lists:

- components;
- runs;
- mutants;
- a map from each definition to the source lines it models;
- findings;
- hazards.

## 1. The system

| Part | Source | State | Operations |
|---|---|---|---|
| Transport | `pkg/protocol/transport.go` | `seqNum` (24-bit, wraps to 1), `pending` map seq → request, one reader goroutine | `SendRequest` (number, register, send, select on a 1-slot channel and the T1 timer, retransmit until N1), `SendResponse`, `handleMessage` (pending lookup by seq only, else the handler for the type), `nextSeqNum`, `Close` |
| Codec | `header.go`, `ie.go`, `messages.go` | none (pure) | header/IE/message Marshal/Unmarshal, the `New...` constructors |
| CP function | `pkg/cp/cp.go`, `cp/handlers.go` | `associations`, `sessions`, `nextSEID` under `cp.mu` | `CreateSession`, `DeleteSession`, heartbeat loop; handlers for Association Setup/Release, Heartbeat, Session Report |
| gRPC facade, store | `cp/grpc.go`, `cp/northbound.go` | `MemoryStore.sessions` (no lock) | conversions; Store/Get/Delete/List |
| UP function | `pkg/up/up.go`, `up/handlers.go` | `sessions` under `up.mu` | `Start` (Association Setup), heartbeat loop, `allocSEID`; handlers for Session Establishment, Modification, Deletion, Heartbeat |
| Dataplanes | `dataplane/mock`, `dataplane/vpp` | installed PDR/FAR/QER/URR per SEID; VPP punt state | Install*/Remove*/DeleteSession |
| SDF parser | `vpp/sdf_parser.go` | none (pure) | parse flow descriptions and port ranges |
| Rule encoding | `cp/grpc.go`, `cp/cp.go` marshal*, `up/handlers.go` | none (pure) | gRPC → Go rules, PDR/FAR/QER/URR → grouped IEs, IEs → the UP's PDR/FAR |

### How the parts interact

- **Two goroutines of one node.** In each node, the goroutines that call
  `SendRequest` and the transport's reader goroutine share `pending`:
  - the CP's callers are the gRPC API goroutines and the heartbeat ticker;
  - the UP's callers are `Start` and the heartbeat ticker.
- **Handlers run on the reader.** The reader runs every handler inline, so
  one node's handlers never run concurrently.
- **CP and UP over UDP.** The CP and the UP talk over UDP, which may lose,
  duplicate and reorder datagrams.
- **Both sides send requests.** The UP sends Association Setup and
  Heartbeat; the CP sends Session Establishment/Deletion and Heartbeat.

### What is hard

- A datagram whose sequence number matches a pending request goes to that
  request, whatever its type or sender. Both nodes number from 1, so peer
  requests and local responses collide.
- A retransmission is handled again by the receiver. No receiver
  deduplicates.
- The T1 timer races a late response. After N1 expiries the caller fails
  even though the peer acted.
- A release can arrive between CreateSession's association check and its
  send.
- The remote SEID is read from the response header.
- The VPP dataplane installs a FAR in several steps (store the FAR, then
  one punt registration per port of each PDR). A step can fail after earlier
  ones took effect, and the UP handler ignores every error.
- The punt port loop counts a `uint16` up to the range end. At 65535 it
  never ends, and it runs on the reader goroutine.
- The CP updates `cp.sessions` under its lock and the northbound store
  after releasing it, and the store is an unlocked Go map. Concurrent gRPC
  calls race on it.
- The gRPC facade narrows the PDR ID to `uint16` and the source interface
  and apply action to `uint8`. Two API rules can become one, and on both
  sides a later rule with a repeated ID replaces the earlier one.

## 2. Modules

### `PfcpTransport.tla` (transport.go)

Constants:

- `Node`, `Caller` and `NodeOf` (which transport a goroutine uses);
- `SeqMax` (the wrap point);
- `N1`;
- the model values `NoCaller` and `NoMsg`.

Variables:

- `seqNum[n]`;
- `pending[n][seq]`;
- `req[c]`, one `SendRequest` call: state idle/wait/done, the message,
  `attempts`, datagrams written `tx`, the one-slot channel `slot`, and the
  result/err;
- `msgs`, every datagram ever sent. A datagram can be received any number of
  times or never, in any order.

How the code maps onto the module:

- `SendRequest(c, m)` is the code up to the first send. Its two disjuncts are
  a successful write and a failed write.
- `ReceiveResponse` and `RetryTimer` are the two select branches.
  `RetryTimer` has three outcomes: max retries, resend, and resend error.
- `Return` is the deferred `delete(t.pending, seq)`.
- `DeliverToPending` and `Dispatchable` are the two branches of
  `handleMessage`.
- `NextSeqNum` is `nextSeqNum`. `Pfcp`'s `SeqAllocationLaw` checks it
  against spec law 5 from every counter value a node reaches.

The module defines no `Next` of its own for callers. The module that extends
it builds each caller's request.

### `Pfcp.tla` (CP + UP + mock dataplane)

`Pfcp.tla` extends (instances) `PfcpTransport` with two nodes. Each call that
blocks in `SendRequest` is split into the action that sends and the action
that runs when `SendRequest` returns:

- `CreateSession` / `CreateSessionReturn`;
- `DeleteSession` / `DeleteSessionReturn`;
- `CpHeartbeat` / `CpHeartbeatReturn`;
- `UpStart` / `UpStartReturn`;
- `UpHeartbeat` / `UpHeartbeatReturn`.

Each handler is one atomic action, guarded by `Dispatchable`:

- `CpOnAssociationSetupRequest`;
- `CpOnAssociationReleaseRequest`;
- `OnHeartbeatRequest`;
- `UpOnSessionEstablishmentRequest`;
- `UpOnSessionDeletionRequest`.

Splitting CreateSession's association check from its send would add no
states. The release handler does not read the request and the send does not
read the association, so the two steps commute.

Data is abstracted as follows:

- a message is a record with the header fields and the two IEs that matter
  (Cause, F-SEID);
- the association is a flag, because there is one UP node;
- the mock dataplane is the set `dp` of `<<seid, rule>>` pairs;
- the ghost `cpVia[l]` remembers the sequence number of the request that
  created CP session `l`.

`PeerAssociationRelease` is the environment. It stands for a UPF, other than
`pkg/up`, that sends Association-Release-Request. `PeerMayRelease` switches it
on or off.

### `PfcpCodec.tla` (header.go, ie.go, messages.go, receiveLoop)

`PfcpCodec.tla` translates the codec functions into operators on byte
sequences:

- header: `HeaderMarshal`, `HeaderUnmarshal`, `HeaderLen`;
- IEs: `IEMarshal`, `IEUnmarshal`, `MarshalIEs` (`NewGroupedIE`),
  `ParseIEs` (`ParseGroupedIE` and the loop of `Message.Unmarshal`);
- messages: `MessageMarshal`, `MessageUnmarshal`;
- `PutBigEndian` / `BigEndian`.

Go's `uint8`/`uint16` truncation is written as `% 256` and `% 65536`.

A Go slice is modelled as `[arr, len]`, where `Len(arr)` is its capacity.
This lets `MessageUnmarshal` reproduce what `data[a:b]` does:

- it may read past `len` up to the capacity;
- beyond the capacity it panics.

The state machine is `receiveLoop`:

- `Receive` copies a datagram into the shared `buf` and decodes `buf[:n]`;
- `ReadTimeout` is the one-second read deadline.

A peer sends an encoding of a message from `Messages`, or a strict prefix of
an encoding of a message in `PrefixOf`.

`MCPfcpCodec.tla` sets the message space:

- 216 valid version-1 messages, with and without SEID, FO and MP;
- sequence numbers whose three bytes differ, and 0xFFFFFF, the largest
  number `nextSeqNum` hands out;
- IE lists with a flat IE, a grouped Create-PDR and an enterprise IE.

SEIDs stay below 2^31, TLC's integer limit.

### `PfcpRequestReply.tla` (the promise of SendRequest)

`PfcpRequestReply.tla` is an abstract specification. It says what a
goroutine calling `SendRequest` may observe, with retransmission, `pending`
and the response slot hidden:

- `Call` sends a request numbered apart from the node's other in-flight
  requests, or fails on the first write;
- `Answer` returns a datagram that reached the caller's node with that
  sequence number;
- `Fail` returns an error;
- `Finish` is the caller taking the result;
- `Transmit` is any other datagram: handlers, peers, retransmissions.

Weak fairness on `Return` and `Finish` says that every call returns.

A datagram is abstracted to its destination and sequence number, because
the transport matches on nothing else. That is the promise the code keeps.
The stronger promise of spec section 5 (the answer is a response to the
request) fails; see F2.

`Pfcp.tla` instantiates the abstract module as `RR` with a refinement
mapping:

- `call` is `req` without `attempts`, `tx` and `slot`;
- `net` is the `<<dst, seq>>` pairs of `msgs`.

`ImplementsRequestReply == RR!RRSpec` is checked as a `PROPERTY`.

### `SdfParser.tla` (vpp/sdf_parser.go)

`SdfParser.tla` holds `parseSDFFilter`, `parseFlowDescription`,
`parsePortRange` and the protocol switch, as operators over byte
sequences. A Go string is a sequence of byte codes; `Ascii` converts the
literals. `strings.Fields`, `strings.Split`, `strings.ToLower` and
`strconv.ParseUint` are written out over codes.

`MCSdfParser.tla` (checked through `MCPfcpRules.cfg`) builds every input from tokens with a known meaning:

- protocols: names in mixed case, numbers, an out-of-range number, garbage;
- addresses: IPv4, IPv6 (which sets the address family), `any`;
- ports: none, a range, a reversed range, 65535, 65536, `1-2-3`, `5-`;
- keywords: right, misspelt, in the wrong place;
- separators: one space, or a tab and a space.

It adds all 32 flag combinations of the optional fields, and every strict
prefix of the full encoding. The expected result follows from the token
meanings, not from the parser. Each input is an initial state, so each is
parsed once.

### `PfcpRules.tla` (grpc.go, cp.go marshalling, up/handlers.go decoding)

`PfcpRules.tla` follows a session's rules from the API to the UP's
session table, as pure operators:

- `GrpcPDR`, `GrpcFAR`: the facade's conversion, with its `uint16`/`uint8`
  narrowing. `net.ParseIP` is modelled by what it returns: an API address
  is a token with its text and its parsed `To4`/`To16` forms, and an empty
  or unparsable text gives no address.
- `NewUintIE`, `NewByteIE`, `NewUE_IPAddressIE`, `NewSDFFilterIE`,
  `NewApplicationIDIE`, `NewGroupedIE`: the IE constructors. A grouped IE
  is its children marshalled by `PfcpCodec`'s `MarshalIEs`.
- `PdiIEs`, `CreatePDR`, `CreateFAR`, `CreateIdOnly`, `EstablishmentIEs`:
  `marshalPDRs`, `marshalFARs`, `marshalQERs`, `marshalURRs`, in the
  order `CreateSession` appends them.
- `RuleMap`: `cp.sessions`' `PDRs`/`FARs` maps, built in slice order.
- `FindAllIEs`, `GetUint`, `PdiFields`, `RuleFields`, `ParsedRule`,
  `LatestById`, `UpSession`: the establishment handler's loops. A grouped
  IE whose children fail to parse is skipped; a repeated ID keeps the
  last rule. `Received` is the request's IEs after a marshal and a parse.

`MCPfcpRules.tla` enumerates requests as initial states:

- up to two API PDRs and two API FARs, from four PDRs and three FARs;
- IDs beyond `uint16` (65537 narrows to 1) and bytes beyond `uint8`;
- IPv4, IPv6, empty and unparsable UE addresses;
- a FAR ID reused by two FARs;
- with and without a QER and a URR;
- one request from a Go caller: a PDR with no PDI, and QER/URR IDs.

The same module also holds the inputs of `MCSdfParser.tla`, so one run
checks both decoders. A state is one input of either check; the other
check's part holds its empty input.

### `PfcpVpp.tla` (UP function on the VPP dataplane)

`PfcpVpp.tla` models the UP handlers running on `vpp.go`, one request at a
time on the reader goroutine:

- **Variables.** `upSessions`; `vppSessions` (PDRs, FARs, and the PDRs
  whose punt is registered); `vppPunts` (L4, IP and L2 keys); `reader`
  ("running" or "hung"); `responses`.
- **`InstallPDR` and `InstallFAR`.** These are the dataplane calls.
  `InstallFAR` stores the FAR, then, when the Notify bit is set, runs
  `configurePuntForPDR` for each of its PDRs in any map order (`PuntPDRs`)
  and stops at the first error.
- **Outcomes.** A dataplane call returns the *set* of its possible
  outcomes. The VPP binary-API calls may fail at any port (`PortLoop`), so
  a punt may be half registered. A range ending at 65535 makes the `uint16`
  loop endless. Such a call hangs the reader after `MaxPuntCalls`
  successful registrations.
- **Handlers.** `UpOnSessionEstablishmentRequest` folds the installs over
  the request's rules, ignores their errors and always answers accepted.
  Deletion and modification follow `handlers.go`.

`MCPfcpVpp.tla` gives four establishment requests:

- S1's DHCP PDR with Forward|Notify;
- an ARP application PDR with an ICMP PDR;
- a range ending at 65535;
- a FAR with no PDR.

### `CpNorthbound.tla` (CP API calls and MemoryStore)

`CpNorthbound.tla` models `CreateSession` and `DeleteSession` as concurrent
gRPC goroutines (`ApiCaller`) run them:

- **Variables.** `sessions` (keys of `cp.sessions`), `store` (keys of
  `MemoryStore.sessions`), `writers`, `crashed`, `nextSEID`, and per
  goroutine `pc` and `seid`.
- **API calls.** Each call is split where the code releases `cp.mu` or
  blocks: the send (`CreateSession`, `DeleteSession`), the return with the
  locked `cp.sessions` update (`...Return`), and the unlocked store write.
- **Store writes.** A Go map write is two steps, `BeginStoreWrite` and
  `EndStoreWrite`. A write that begins while another is in progress
  crashes the process: the runtime's `hashWriting` check throws
  "concurrent map writes". That is the outcome the Go build produces for
  this data race.
- **The UPF exchange.** `SendRequest` returns accepted, or anything else.
  This is what `PfcpRequestReply` allows, and it is checked of the
  transport.
- **Abstracted.** The association is always present here: releases are
  `Pfcp`'s concern. Any client may delete any SEID, because SEIDs are
  handed out in sequence.

The bounds are two goroutines and three calls. Each trace needs only two
goroutines and two or three calls.

### `MCPfcp.tla`

`MCPfcp.tla` defines one API caller. The bounds are set in each `.cfg`.

## 3. Runs

The runs of `MCPfcp` use these settings:

- N1 = 2;
- SeqMax = 4;
- one API caller;
- two UP sessions.

SeqMax is above the number of requests a node sends, so no number handed
out is reused. A node's counter does reach SeqMax, so `SeqAllocationLaw`
(spec law 5: the next three numbers from any counter value are its
successors in 1..SeqMax, with 1 after SeqMax) evaluates the wrap. At the
real width, `codec_roundtrip` carries 0xFFFFFF through the header. A reuse
of a number that is still pending (spec section 211) needs 2^24 requests
within one N1·T1 window (9 s), so it is not checked. N1 = 2 is the smallest value
that has both a retransmission and a max-retries outcome. The code passes 3,
or the configured `RetransmitN1`.

| Run (cfg) | Bounds | Checks | Result |
|---|---|---|---|
| safety (`MCPfcp.cfg`) | 2 API calls, 1 heartbeat per node, no peer release | TypeOK, RetransmitBound, PendingMatchesWaiters, SeqAllocationLaw, CPSessionAcceptedByUPF | pass, 759,980 states |
| liveness (`MCPfcpLiveness.cfg`) | 2 API calls, no heartbeats, peer release on | RequestsReturn, ImplementsRequestReply | pass, 12,312 states |
| codec_roundtrip (`MCPfcpCodec.cfg`) | 2 reads, BufCap 32 (longest encoding 31), prefixes of 2 messages | CodecTypeOK, DecodeInvertsEncode | pass, 5,281 states |
| truncated_datagram (`MCPfcpCodecPrefix.cfg`) | same | NoReadPastDatagram | violation (F5) |
| remote_seid (`MCPfcpRemoteSEID.cfg`) | 1 call | RemoteSEIDIsUPFSEID | violation (F1) |
| cross_talk (`MCPfcpCrossTalk.cfg`) | 1 call, heartbeats | ResponseMatchesRequest | violation (F2) |
| release_orphans (`MCPfcpRelease.cfg`) | 1 call, release on | SessionsOwnedByAssociation | violation (F3) |
| rule_decoding (`MCPfcpRules.cfg`) | 3,541 SDF inputs, 1,092 requests | ParseMatchesReference, RulesReachUP | pass, 4,633 states |
| vpp_safety (`MCPfcpVpp.cfg`) | MaxMsgs 4, MaxPuntCalls 2 | VppTypeOK, VppStateOnlyForLiveSessions, PuntRegMeansRegistered, AcceptedRulesStored | pass, about 23,700 states |
| vpp_port_loop (`MCPfcpVpp_ReaderNeverHangs.cfg`) | MaxMsgs 3 | ReaderNeverHangs | violation (F8) |
| store_crash (`CpNorthbound_NoConcurrentMapWrite.cfg`) | 2 goroutines, 3 calls | NoConcurrentMapWrite | violation (F9) |
| store_stale (`CpNorthbound_StoreMirrorsSessions.cfg`) | same | StoreMirrorsSessions | violation (F10) |

Three more configurations show findings F4, F6 and F7. They are not in the
run list of `PROJECT.json`, which keeps one run per question:

- `MCPfcpDupEstablish.cfg` (F4);
- `MCPfcpVpp_AcceptedSessionInstalled.cfg` (F6);
- `MCPfcpVpp_PuntsOwnedByLiveSessions.cfg` (F7).

Why the bounds are enough:

- Two API calls allow create-then-delete.
- One heartbeat per node lets a UP request (seq 1 or 2) collide with a CP
  request.
- Release and heartbeats together exceed 2M states, so the liveness and
  refinement run has release without heartbeats. There the UP's Association
  Setup (seq 1) still collides with the CP's CreateSession (seq 1), which is
  the collision a stale `pending` entry needs in order to break the
  refinement.
- `vpp_safety`: four requests in any order, with deletions and
  modifications of any SEID in 0..4. That covers establishing all four, a
  reused SEID after a deletion, and an unknown SEID. `MaxPuntCalls = 2`
  lets a port loop fail before, between and after its two DHCP ports.
- `rule_decoding`: two rules of each kind are enough for a repeated ID
  and for a narrowing collision (65537 and 1). Every IE layout, both
  address families and the no-PDI case occur.
- The violation runs of `PfcpVpp` use three messages, which is enough for
  each trace: one request, or one request and one deletion.

### Findings

- **F1.** The UP echoes the request's header SEID (0) in the
  establishment response. The CP stores that header SEID as `RemoteSEID`
  (`cp.go:241`). The allocated SEID is only in the F-SEID IE. As a result,
  DeleteSession sends SEID 0 and the UP session is never removed.
- **F2.** `handleMessage` matches a datagram by sequence number only, and
  both nodes number from 1. CreateSession needs the association, so the
  UP's Association-Setup-Request (seq 1) has already been handled once.
  A second copy of it arrives while the CP's CreateSession seq 1 is
  pending. It can be a retransmission after a lost response, or a network
  duplicate. The transport returns that copy as CreateSession's response,
  and the copy itself is swallowed. The UP's Heartbeat-Request (seq 2)
  collides the same way with a CP request seq 2.
- **F3.** The Association Release handler leaves the node's sessions in
  place, against spec 4.3.
- **F4.** The UP has no duplicate detection (`up/handlers.go:11`). A
  retransmitted establishment creates a second session.
  `OneUpSessionPerRequest` fails in two steps under
  `MCPfcpDupEstablish.cfg`.
- **F5.** `Message.Unmarshal` reads past the datagram into the reused
  65535-byte buffer. A 12-byte prefix of a 23-byte message decodes without
  error into an IE made of bytes that are not in the datagram. Spec law 4
  requires a codec error.

- **F6.** `handleSessionEstablishmentRequest` ignores the errors of
  `InstallPDR`/`InstallFAR` (`up/handlers.go:65,89`) and answers
  RequestAccepted. A FAR whose punt fails is stored, with the punt half
  registered. A FAR for a session the dataplane does not know is dropped,
  yet the session is accepted. `vpp_safety` checks how far the damage
  goes (`AcceptedRulesStored`). An accepted session with a PDR always has
  all its PDRs and FARs in VPP, because `InstallFAR` stores the FAR before
  its punt loop can fail. Only punts are missing, and so are the FARs of a
  request that has no PDR.
- **F7.** VPP `DeleteSession` (`vpp.go:188`) forgets the session but
  leaves its punt registrations in VPP. A later session finds the port
  already punted, or the port stays punted forever.
- **F9.** `MemoryStore.StoreSession` writes its map with no lock, after
  `CreateSession` released `cp.mu` (`northbound.go:22`). Two
  `CreateSession` calls that return together crash the CP with
  "concurrent map writes". The trace has 7 states.
- **F10.** `CreateSession` stores the session in the store only after
  releasing `cp.mu` (`cp.go:267`). A `DeleteSession` of that SEID in between
  removes it from both maps. The late `StoreSession` then puts the deleted
  session back into the store for good. The trace has 9 states.
- **F8.** `configurePuntForPDR`'s loop `for port := start; port <= end;
  port++` over `uint16` (`vpp.go:311`) never ends when the range ends at
  65535. It runs on the reader goroutine, so the node stops handling
  datagrams. Spec section 5 says handlers must not block the reader.
  `UPFunction.Stop` then hangs too: `Transport.Close` waits with
  `wg.Wait()` (`transport.go:69`) for a reader that never returns. That is
  the same hang seen from shutdown, and no entry point waits for `Stop`.

Divergences met in the rule encoding, not given runs of their own:

- The UP sets every PDR's precedence to 0 (`up/handlers.go:39`). Spec
  section 213(i) already records this, so `RulesReachUP` leaves precedence
  out.
- `marshalPDRs` never encodes the PDI's network instance, and the UP
  ignores Forwarding Parameters, QER IDs and URR IDs. `RulesReachUP`
  compares only what the code carries.
- `grpc.go` dereferences `pdr.Pdi` and `far.ForwardingParams` without a
  nil check. A gRPC request without them panics in the handler goroutine.
  The model's API rules always carry both.

### Fairness

Fairness is weak and applies only to these steps:

- each caller's `RetryTimer`: a Go `time.Timer` fires;
- each `...Return` continuation: a goroutine whose `SendRequest` returned
  runs on.

Nothing is assumed of the network, the handlers or API callers.

The abstract fairness of `PfcpRequestReply` (every call returns and goes on)
is not assumed. It is checked: it follows from the timer and continuation
fairness above, because N1 expiries end every wait.

`PfcpVpp` has no fairness and checks only invariants. `vpp_safety` sets
`CHECK_DEADLOCK FALSE` because its final states are real stops: the
bounded requests are used up, or the reader hung in the port loop.

`CHECK_DEADLOCK FALSE` is set because the program really stops in the
model's final states. Once the bounded calls are used up, or UP start
failed, the real program idles: `Start` blocks on `ctx.Done()` and the
tickers do nothing new.

## 4. Not modelled

What is left out, and why:

- **Shutdown.** `Transport.Close`, the `ctx.Done` branch of the reader's
  `select`, and the CP's and UP's `Stop` are not modelled. Every entry
  point (`cmd/pfcp-cp`, `cmd/pfcp-up`, `examples/simple`) cancels its
  context, sleeps one second and exits the process. Nothing waits for a
  `Stop` to finish, so no state outlives shutdown for a property to be about.
- **Unused dataplane calls.** VPP `InstallQER`, `InstallURR`, the `Remove*`
  calls and session modification are never called by `pkg/up`. The UP's
  modification handler answers without touching the dataplane.
- **Empty Node-ID value (hazard `cp/handlers.go:22`).**
  - `handleAssociationSetupRequest` slices `nodeIDIE.Value[1:]` without a
    length check, and the release handler does the same at line 53.
  - A Node-ID IE with an empty value therefore panics the CP's reader
    goroutine, which ends the process.
  - A missing Node-ID makes the handler return an error without a reply.
    Spec §94 asks for a `MandatoryIEMissing` reply instead.
  - `Pfcp` abstracts the association to a flag, and `pkg/up` always sends
    the flag byte, so only a foreign peer reaches this code.
  - Showing it needs a violation run of its own, as does a duplicated
    Session Establishment (hazard `up/handlers.go:11`, finding F4). The
    project keeps twelve runs, and the existing violation runs show the
    stronger disagreements.
- **Version other than 1.** Spec §64 says header encode rejects it. Every
  constructor in `messages.go` sets `Version1`, so no caller builds another
  version. The codec run covers only version-1 headers.
- **UP restart with a new recovery time stamp.** `pkg/cp` checks only that
  the IE is present, and stores `RecoveryTS: 0`. Nothing compares recovery
  time stamps, so a restart has no effect to check.
- **Sequence-number reuse while pending.** After 2^24 requests within the
  9 s life of a pending entry, a number can be reused. The wrap itself is
  checked by `SeqAllocationLaw`. Reaching a reuse needs `SeqMax` requests
  in flight, which is beyond TLC at the real width.

What the passing properties do not catch:

- **Orphaned UP session after a timeout (`transport.go:114`).**
  `RetransmitBound` and `PendingMatchesWaiters` check the retry loop.
  Neither catches a session the UP created for a call that failed with
  `MaxRetriesExceeded` after T1 won the `select` over a queued response.
- **FAR stored without its punt (`vpp.go:117`).** `PuntRegMeansRegistered`
  constrains PDR marks, not FARs. `AcceptedRulesStored` checks what is
  stored, not what is punted. The missing punts are F6, shown only by a
  cfg outside the run list.
- **Leaked punt registrations (`vpp.go:188`).**
  `VppStateOnlyForLiveSessions` compares session entries only. The leaked
  registrations are F7, also outside the run list.

The liveness run checks only `RequestsReturn` and `ImplementsRequestReply`.
Its model's safety invariants are the safety run's.

Out of scope:

- `cmd/`, `examples/` and `test/`: they only wire components together;
- an IE value longer than 65535 bytes: its length field would truncate,
  but the datagram would then exceed the UDP maximum and `WriteToUDP`
  fails first;
- `Association.LastHeartbeat`: it is written and never read.
