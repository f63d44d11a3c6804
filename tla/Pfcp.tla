-------------------------------- MODULE Pfcp --------------------------------
(***************************************************************************)
(* A CP function (pkg/cp) and a UP function (pkg/up) with the mock         *)
(* dataplane (pkg/dataplane/mock), each on its own Transport               *)
(* (PfcpTransport), talking over UDP.                                      *)
(*                                                                         *)
(* Goroutines that call SendRequest are the Callers: the northbound API    *)
(* callers of CreateSession/DeleteSession (ApiCaller), the CP heartbeat    *)
(* loop, the UP start-up (establishAssociation) and the UP heartbeat loop. *)
(* Each call is split at SendRequest: the action that builds and sends     *)
(* the request, and the action that runs when SendRequest returns.         *)
(* Handlers run on their node's reader goroutine, one datagram at a time,  *)
(* so each handler is one atomic step.                                     *)
(*                                                                         *)
(* Data is abstracted to what the properties tell apart: the single UP     *)
(* node id, the rule set of the S1 scenario (one PDR, one FAR), the Cause  *)
(* IE as present-and-accepted or absent, SEIDs as small integers.          *)
(***************************************************************************)
EXTENDS Naturals, Sequences, FiniteSets, FiniteSetsExt

CONSTANTS
  CPF, UPF,          \* model values: the two nodes
  ApiCaller,         \* northbound (gRPC) goroutines of the CP
  CpHb, UpMain, UpHb,\* model values: CP heartbeat loop, UP Start, UP heartbeat loop
  MaxCalls,          \* bound on CreateSession + DeleteSession calls
  MaxHeartbeats,     \* bound on heartbeat ticks per node
  MaxUpSessions,     \* bound on UP sessions (allocSEID search space)
  PeerMayRelease,    \* an external UPF may send Association-Release-Request
  SeqMax, N1, NoCaller, NoMsg

VARIABLES
  seqNum, pending, req, msgs,     \* the two Transports and UDP
  cpAssoc,       \* cp.associations holds the UP node id
  cpSessions,    \* cp.sessions: records [local, remote]
  nextSEID,      \* cp.nextSEID
  lastHeartbeat, \* Association.LastHeartbeat, as the number of refreshes
  api,           \* api[c]: the CP API call caller c is in
  calls,         \* API calls made so far (bounded by MaxCalls)
  hbTicks,       \* hbTicks[n]: heartbeat ticks of node n so far
  upPhase,       \* UP Start: "init", "assoc" (waiting), "running", "failed"
  upSessions,    \* up.sessions: records [local, remote]
  dp,            \* mock dataplane: <<seid, rule>> pairs installed
  cpVia          \* ghost: cpVia[l] = sequence number of the request that created l

vars == <<seqNum, pending, req, msgs, cpAssoc, cpSessions, nextSEID,
          lastHeartbeat, api, calls, hbTicks, upPhase, upSessions, dp, cpVia>>

Node == {CPF, UPF}
Caller == ApiCaller \cup {CpHb, UpMain, UpHb}
NodeOf == [c \in Caller |-> IF c \in ApiCaller \cup {CpHb} THEN CPF ELSE UPF]

INSTANCE PfcpTransport

CpSEID == 1..MaxCalls
UpSEID == 1..MaxUpSessions
SEID == (0..MaxUpSessions) \cup CpSEID

(* protocol/constants.go: Cause values; NoCause stands for a message       *)
(* without a Cause IE (FindIE returns nil).                                *)
NoCause == 0
CauseRequestAccepted == 1

Rules == {"pdr", "far"}

MsgType == {"HeartbeatRequest", "HeartbeatResponse",
            "AssociationSetupRequest", "AssociationSetupResponse",
            "AssociationReleaseRequest", "AssociationReleaseResponse",
            "SessionEstablishmentRequest", "SessionEstablishmentResponse",
            "SessionDeletionRequest", "SessionDeletionResponse"}

(* A PFCP message: header (type, sequence number, SEID) and the IEs that   *)
(* matter: Cause and the F-SEID carried in NewSessionEstablishmentResponse.*)
Msg == [src : Node, dst : Node, type : MsgType, seq : SeqNo \cup {0},
        seid : SEID, cause : {NoCause, CauseRequestAccepted}, fseid : SEID]

(* The New...Request/Response constructors of protocol/messages.go; the   *)
(* sequence number of a request is filled in by SendRequest.              *)
Message(src, dst, type, seq, seid, cause, fseid) ==
  [src |-> src, dst |-> dst, type |-> type, seq |-> seq, seid |-> seid,
   cause |-> cause, fseid |-> fseid]
Request(src, type, seid) ==
  Message(src, IF src = CPF THEN UPF ELSE CPF, type, 0, seid, NoCause, 0)
Response(m, type, seid, cause, fseid) ==
  Message(m.dst, m.src, type, m.seq, seid, cause, fseid)

Accepted(r) == r # NoMsg /\ r.cause = CauseRequestAccepted

TypeOK ==
  /\ TransportTypeOK(Msg)
  /\ cpAssoc \in BOOLEAN
  /\ cpSessions \subseteq [local : CpSEID, remote : SEID]
  /\ nextSEID \in 1..MaxCalls + 1
  /\ lastHeartbeat \in 0..MaxHeartbeats
  /\ api \in [ApiCaller -> [op : {"none", "create", "delete"}, seid : 0..MaxCalls]]
  /\ calls \in 0..MaxCalls
  /\ hbTicks \in [Node -> 0..MaxHeartbeats]
  /\ upPhase \in {"init", "assoc", "running", "failed"}
  /\ upSessions \subseteq [local : UpSEID, remote : SEID]
  /\ dp \subseteq UpSEID \X Rules
  /\ cpVia \in [CpSEID -> SeqNo \cup {0}]

Init ==
  /\ TransportInit
  /\ cpAssoc = FALSE
  /\ cpSessions = {}
  /\ nextSEID = 1
  /\ lastHeartbeat = 0
  /\ api = [c \in ApiCaller |-> [op |-> "none", seid |-> 0]]
  /\ calls = 0
  /\ hbTicks = [n \in Node |-> 0]
  /\ upPhase = "init"
  /\ upSessions = {}
  /\ dp = {}
  /\ cpVia = [l \in CpSEID |-> 0]

cpVars == <<cpAssoc, cpSessions, nextSEID, lastHeartbeat, api, calls, cpVia>>
upVars == <<upPhase, upSessions, dp>>

-----------------------------------------------------------------------------
(* CP function: northbound calls and the heartbeat loop (pkg/cp/cp.go).    *)

(* CreateSession up to SendRequest: the association must exist (otherwise *)
(* the call returns an error and changes nothing), allocSEID, marshal the  *)
(* rules, send Session-Establishment-Request with header SEID 0.           *)
CreateSession(c) ==
  /\ api[c].op = "none"
  /\ calls < MaxCalls
  /\ cpAssoc
  /\ SendRequest(c, Request(CPF, "SessionEstablishmentRequest", 0))
  /\ api' = [api EXCEPT ![c] = [op |-> "create", seid |-> nextSEID]]
  /\ nextSEID' = nextSEID + 1
  /\ calls' = calls + 1
  /\ UNCHANGED <<cpAssoc, cpSessions, lastHeartbeat, hbTicks, upVars, cpVia>>

(* Fault variant of CreateSessionReturn: any response counts as accepted. *)
CreateSessionReturnNoCauseCheck(c) ==
  LET r == req[c].result
      l == api[c].seid
  IN /\ api[c].op = "create"
     /\ req[c].st = "done"
     /\ IF r # NoMsg
          THEN /\ cpSessions' = cpSessions \cup {[local |-> l, remote |-> r.seid]}
               /\ cpVia' = [cpVia EXCEPT ![l] = req[c].msg.seq]
          ELSE UNCHANGED <<cpSessions, cpVia>>
     /\ Consume(c)
     /\ api' = [api EXCEPT ![c] = [op |-> "none", seid |-> 0]]
     /\ UNCHANGED <<seqNum, pending, msgs, cpAssoc, nextSEID, lastHeartbeat,
                    calls, hbTicks, upVars>>

(* CreateSession after SendRequest: a transport error, a response without *)
(* a Cause IE, or a cause other than RequestAccepted return an error;      *)
(* otherwise the session is recorded with RemoteSEID = resp.Header.SEID.   *)
CreateSessionReturn(c) ==
  LET r == req[c].result
      l == api[c].seid
  IN /\ api[c].op = "create"
     /\ req[c].st = "done"
     /\ IF Accepted(r)
          THEN /\ cpSessions' = cpSessions \cup {[local |-> l, remote |-> r.seid]}
               /\ cpVia' = [cpVia EXCEPT ![l] = req[c].msg.seq]
          ELSE UNCHANGED <<cpSessions, cpVia>>
     /\ Consume(c)
     /\ api' = [api EXCEPT ![c] = [op |-> "none", seid |-> 0]]
     /\ UNCHANGED <<seqNum, pending, msgs, cpAssoc, nextSEID, lastHeartbeat,
                    calls, hbTicks, upVars>>

(* DeleteSession up to SendRequest: the session and its node's             *)
(* association must exist (otherwise an error and no change); send         *)
(* Session-Deletion-Request with header SEID = RemoteSEID.                 *)
DeleteSession(c, s) ==
  /\ api[c].op = "none"
  /\ calls < MaxCalls
  /\ s \in cpSessions
  /\ cpAssoc
  /\ SendRequest(c, Request(CPF, "SessionDeletionRequest", s.remote))
  /\ api' = [api EXCEPT ![c] = [op |-> "delete", seid |-> s.local]]
  /\ calls' = calls + 1
  /\ UNCHANGED <<cpAssoc, cpSessions, nextSEID, lastHeartbeat, hbTicks,
                 upVars, cpVia>>

(* DeleteSession after SendRequest: on RequestAccepted the session is      *)
(* removed, otherwise it stays and an error is returned.                   *)
DeleteSessionReturn(c) ==
  /\ api[c].op = "delete"
  /\ req[c].st = "done"
  /\ cpSessions' = IF Accepted(req[c].result)
                     THEN {s \in cpSessions : s.local # api[c].seid}
                     ELSE cpSessions
  /\ Consume(c)
  /\ api' = [api EXCEPT ![c] = [op |-> "none", seid |-> 0]]
  /\ UNCHANGED <<seqNum, pending, msgs, cpAssoc, nextSEID, lastHeartbeat,
                 calls, hbTicks, upVars, cpVia>>

(* heartbeatLoop tick -> sendHeartbeats: for the (one) association in the  *)
(* snapshot, send Heartbeat-Request.  A tick with no association sends     *)
(* nothing and changes nothing.                                            *)
CpHeartbeat ==
  /\ hbTicks[CPF] < MaxHeartbeats
  /\ cpAssoc
  /\ SendRequest(CpHb, Request(CPF, "HeartbeatRequest", 0))
  /\ hbTicks' = [hbTicks EXCEPT ![CPF] = @ + 1]
  /\ UNCHANGED <<cpVars, upVars>>

(* sendHeartbeats after SendRequest: any response refreshes LastHeartbeat; *)
(* an error skips the association.                                         *)
CpHeartbeatReturn ==
  /\ req[CpHb].st = "done"
  /\ lastHeartbeat' = IF req[CpHb].result # NoMsg THEN lastHeartbeat + 1
                                                  ELSE lastHeartbeat
  /\ Consume(CpHb)
  /\ UNCHANGED <<seqNum, pending, msgs, cpAssoc, cpSessions, nextSEID, api,
                 calls, hbTicks, upVars, cpVia>>

-----------------------------------------------------------------------------
(* CP handlers (pkg/cp/handlers.go), run by the CP reader.                 *)

(* Association-Setup-Request: record (or replace) the association, answer  *)
(* RequestAccepted.                                                        *)
CpOnAssociationSetupRequest(m) ==
  /\ Dispatchable(m, CPF, "AssociationSetupRequest")
  /\ cpAssoc' = TRUE
  /\ Send(Response(m, "AssociationSetupResponse", 0, CauseRequestAccepted, 0))
  /\ UNCHANGED <<seqNum, pending, req, cpSessions, nextSEID, lastHeartbeat,
                 api, calls, hbTicks, upVars, cpVia>>

(* Association-Release-Request: delete the association (and nothing else), *)
(* answer RequestAccepted.                                                 *)
CpOnAssociationReleaseRequest(m) ==
  /\ Dispatchable(m, CPF, "AssociationReleaseRequest")
  /\ cpAssoc' = FALSE
  /\ Send(Response(m, "AssociationReleaseResponse", 0, CauseRequestAccepted, 0))
  /\ UNCHANGED <<seqNum, pending, req, cpSessions, nextSEID, lastHeartbeat,
                 api, calls, hbTicks, upVars, cpVia>>

(* Heartbeat-Request: answer with the recovery time stamp.                 *)
OnHeartbeatRequest(n, m) ==
  /\ Dispatchable(m, n, "HeartbeatRequest")
  /\ Send(Response(m, "HeartbeatResponse", 0, NoCause, 0))
  /\ UNCHANGED <<seqNum, pending, req, cpVars, hbTicks, upVars>>

-----------------------------------------------------------------------------
(* UP function (pkg/up/up.go, handlers.go).                                *)

(* Start -> establishAssociation: send Association-Setup-Request.          *)
UpStart ==
  /\ upPhase = "init"
  /\ SendRequest(UpMain, Request(UPF, "AssociationSetupRequest", 0))
  /\ upPhase' = "assoc"
  /\ UNCHANGED <<cpVars, hbTicks, upSessions, dp>>

(* establishAssociation after SendRequest: accepted -> Start goes on to    *)
(* the heartbeat loop; error, no Cause IE or rejection -> Start fails.     *)
(* The transport and the handlers keep running either way.                 *)
UpStartReturn ==
  /\ upPhase = "assoc"
  /\ req[UpMain].st = "done"
  /\ upPhase' = IF Accepted(req[UpMain].result) THEN "running" ELSE "failed"
  /\ Consume(UpMain)
  /\ UNCHANGED <<seqNum, pending, msgs, cpVars, hbTicks, upSessions, dp>>

(* heartbeatLoop tick: send Heartbeat-Request, ignore the outcome.         *)
UpHeartbeat ==
  /\ upPhase = "running"
  /\ hbTicks[UPF] < MaxHeartbeats
  /\ SendRequest(UpHb, Request(UPF, "HeartbeatRequest", 0))
  /\ hbTicks' = [hbTicks EXCEPT ![UPF] = @ + 1]
  /\ UNCHANGED <<cpVars, upVars>>

UpHeartbeatReturn ==
  /\ req[UpHb].st = "done"
  /\ Consume(UpHb)
  /\ UNCHANGED <<seqNum, pending, msgs, cpVars, hbTicks, upVars>>

(* Fault variant of AllocSEID: the search starts at 0.                     *)
AllocSEIDFromZero == Min((0..MaxUpSessions) \ {s.local : s \in upSessions})

(* allocSEID: the lowest positive SEID not in up.sessions.                 *)
AllocSEID == Min(UpSEID \ {s.local : s \in upSessions})

(* Mock dataplane InstallPDR and InstallFAR: the rules of the session are  *)
(* stored under its SEID; the mock never fails.                            *)
InstallRules(seid) == {<<seid, r>> : r \in Rules}

(* Mock dataplane DeleteSession: drop every rule stored under the SEID,    *)
(* whether or not there were any.                                          *)
MockDeleteSession(seid) == {d \in dp : d[1] # seid}

(* Session-Establishment-Request: allocate a SEID, install every PDR then  *)
(* every FAR on the dataplane (errors ignored), insert the session with    *)
(* RemoteSEID = header SEID, answer RequestAccepted echoing the header     *)
(* SEID, the allocated SEID in the F-SEID IE.  No duplicate detection.     *)
UpOnSessionEstablishmentRequest(m) ==
  /\ Dispatchable(m, UPF, "SessionEstablishmentRequest")
  /\ {s.local : s \in upSessions} # UpSEID
  /\ LET seid == AllocSEID
     IN /\ dp' = dp \cup InstallRules(seid)
        /\ upSessions' = upSessions \cup {[local |-> seid, remote |-> m.seid]}
        /\ Send(Response(m, "SessionEstablishmentResponse", m.seid,
                         CauseRequestAccepted, seid))
  /\ UNCHANGED <<seqNum, pending, req, cpVars, hbTicks, upPhase>>

(* Session-Deletion-Request: delete the session keyed by the header SEID   *)
(* (present or not), DeleteSession on the dataplane, answer accepted.      *)
UpOnSessionDeletionRequest(m) ==
  /\ Dispatchable(m, UPF, "SessionDeletionRequest")
  /\ upSessions' = {s \in upSessions : s.local # m.seid}
  /\ dp' = MockDeleteSession(m.seid)
  /\ Send(Response(m, "SessionDeletionResponse", m.seid, CauseRequestAccepted, 0))
  /\ UNCHANGED <<seqNum, pending, req, cpVars, hbTicks, upPhase>>

-----------------------------------------------------------------------------
(* Environment: a UPF other than pkg/up (none in this repository sends     *)
(* it) asks the CP to release the association.  Its sequence number is    *)
(* SeqMax, which the modelled requests do not reach, so that this request  *)
(* exercises the release handler rather than another sequence collision.   *)
(* Bounded to one such request.                                            *)
PeerAssociationRelease ==
  /\ PeerMayRelease
  /\ ~\E m \in msgs : m.type = "AssociationReleaseRequest"
  /\ Send(Message(UPF, CPF, "AssociationReleaseRequest", SeqMax, 0, NoCause, 0))
  /\ UNCHANGED <<seqNum, pending, req, cpVars, hbTicks, upVars>>

-----------------------------------------------------------------------------
Next ==
  \/ TransportNext /\ UNCHANGED <<cpVars, hbTicks, upVars>>
  \/ \E c \in ApiCaller :
       \/ CreateSession(c)
       \/ CreateSessionReturn(c)
       \/ \E s \in cpSessions : DeleteSession(c, s)
       \/ DeleteSessionReturn(c)
  \/ CpHeartbeat \/ CpHeartbeatReturn
  \/ UpStart \/ UpStartReturn \/ UpHeartbeat \/ UpHeartbeatReturn
  \/ \E m \in msgs :
       \/ CpOnAssociationSetupRequest(m)
       \/ CpOnAssociationReleaseRequest(m)
       \/ OnHeartbeatRequest(CPF, m)
       \/ OnHeartbeatRequest(UPF, m)
       \/ UpOnSessionEstablishmentRequest(m)
       \/ UpOnSessionDeletionRequest(m)
  \/ PeerAssociationRelease

(* Timers fire (time.Timer) and a goroutine whose SendRequest returned     *)
(* runs on; nothing is assumed of the network or of the API callers.       *)
Fairness ==
  /\ \A c \in Caller : WF_transportVars(RetryTimer(c))
  /\ \A c \in ApiCaller : WF_vars(CreateSessionReturn(c))
                          /\ WF_vars(DeleteSessionReturn(c))
  /\ WF_vars(CpHeartbeatReturn) /\ WF_vars(UpStartReturn)
  /\ WF_vars(UpHeartbeatReturn)

Spec == Init /\ [][Next]_vars /\ Fairness

-----------------------------------------------------------------------------
(* Properties.                                                             *)

(* The response type that answers each request type.                       *)
ResponseTo(t) ==
  CASE t = "HeartbeatRequest" -> "HeartbeatResponse"
    [] t = "AssociationSetupRequest" -> "AssociationSetupResponse"
    [] t = "AssociationReleaseRequest" -> "AssociationReleaseResponse"
    [] t = "SessionEstablishmentRequest" -> "SessionEstablishmentResponse"
    [] t = "SessionDeletionRequest" -> "SessionDeletionResponse"

(* Retransmission (SendRequest's timer loop, spec law 6): a request is     *)
(* written at most N1 times, and one that fails with max retries exceeded  *)
(* was written exactly N1 times.                                           *)
RetransmitBound ==
  \A c \in Caller :
    /\ req[c].tx <= N1
    /\ req[c].err = "maxRetries" => req[c].tx = N1

(* The pending map of each Transport holds exactly the requests whose      *)
(* SendRequest is blocked, each under its own sequence number: an entry    *)
(* left behind after SendRequest returns would swallow the next datagram   *)
(* with that number, and a missing one would lose the response.            *)
PendingMatchesWaiters ==
  /\ \A n \in Node, s \in SeqNo :
       pending[n][s] # NoCaller =>
         /\ NodeOf[pending[n][s]] = n
         /\ req[pending[n][s]].st = "wait"
         /\ req[pending[n][s]].msg.seq = s
  /\ \A c \in Caller :
       req[c].st = "wait" => pending[NodeOf[c]][req[c].msg.seq] = c

(* The first k sequence numbers SendRequest gets from a counter at s.     *)
RECURSIVE Allocations(_, _)
Allocations(s, k) == IF k = 0 THEN <<>> ELSE <<s>> \o Allocations(NextSeqNum(s), k - 1)

(* Spec law 5 of Transport.nextSeqNum, from every counter value a node    *)
(* reaches: the next numbers handed out are the counter and its           *)
(* successors in the sequence space without 0 (1..SeqMax, 0xFFFFFF in the *)
(* code), so they are distinct and after SeqMax comes 1.                   *)
SeqAllocationLaw ==
  \A n \in Node :
    Allocations(seqNum[n], 3) = [i \in 1..3 |-> ((seqNum[n] - 1 + (i - 1)) % SeqMax) + 1]

(* CreateSession records a session only when the UPF accepted the          *)
(* Session-Establishment-Request that CreateSession sent (spec 3.3: a      *)
(* session exists on the CPF iff the peer accepted its establishment),     *)
(* although any datagram with the request's sequence number, even a UPF    *)
(* request, is handed to CreateSession as the response.                    *)
CPSessionAcceptedByUPF ==
  \A s \in cpSessions : \E r \in msgs :
    /\ r.src = UPF
    /\ r.type = "SessionEstablishmentResponse"
    /\ r.seq = cpVia[s.local]
    /\ r.cause = CauseRequestAccepted

(* Every SendRequest call returns, whatever the network loses: the T1      *)
(* timer bounds the wait by N1 expiries.                                   *)
RequestsReturn ==
  \A c \in Caller : req[c].st # "idle" ~> req[c].st = "idle"

(* Spec S1: the CPF's session holds as remote_seid the SEID the UPF        *)
(* allocated for it, which CreateSession takes from the response header.   *)
RemoteSEIDIsUPFSEID ==
  \A s \in cpSessions : \E r \in msgs :
    /\ r.type = "SessionEstablishmentResponse"
    /\ r.seq = cpVia[s.local]
    /\ r.fseid = s.remote

(* Spec law 7: SendRequest returns the response to its own request and no  *)
(* other, though handleMessage matches datagrams on sequence number only.  *)
ResponseMatchesRequest ==
  \A c \in Caller :
    req[c].st = "done" /\ req[c].result # NoMsg =>
      req[c].result.type = ResponseTo(req[c].msg.type)

(* Spec 3.3/4.3: each session is owned by an association and releasing    *)
(* the association deletes its sessions.                                   *)
SessionsOwnedByAssociation ==
  cpSessions # {} => cpAssoc

(* The UPF creates at most one session per Session-Establishment-Request   *)
(* the CPF wrote (a retransmission is the same datagram), although it      *)
(* keeps no record of the sequence numbers it has answered.                *)
OneUpSessionPerRequest ==
  Cardinality(upSessions)
    <= Cardinality({m \in msgs : m.type = "SessionEstablishmentRequest"})

(* The transport implements the request/reply promise of                   *)
(* PfcpRequestReply: the refinement mapping forgets the retry counters,    *)
(* the pending map and the response slot of every SendRequest call.       *)
RR == INSTANCE PfcpRequestReply
        WITH call <- [c \in Caller |->
                       [st |-> req[c].st,
                        seq |-> IF req[c].msg = NoMsg THEN 0 ELSE req[c].msg.seq,
                        result |-> IF req[c].result = NoMsg THEN <<>>
                                   ELSE <<req[c].result.dst, req[c].result.seq>>,
                        err |-> req[c].err]],
             net <- {<<m.dst, m.seq>> : m \in msgs},
             SeqNo <- SeqNo \cup {0}

(* Every SendRequest call, of the API, the heartbeat loops and the UP      *)
(* start-up, behaves as PfcpRequestReply allows: its request gets a        *)
(* sequence number no in-flight request of the node holds, it returns     *)
(* once, with a datagram to its node carrying that number or with an       *)
(* error, and it always returns.  A pending entry that outlived its call,  *)
(* or a retransmission numbered anew, breaks it.                           *)
ImplementsRequestReply == RR!RRSpec

=============================================================================
