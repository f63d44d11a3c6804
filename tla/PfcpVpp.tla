------------------------------- MODULE PfcpVpp -------------------------------
(***************************************************************************)
(* The UP function's session handlers (up/handlers.go) driving the VPP     *)
(* dataplane (dataplane/vpp/vpp.go), the default backend of cmd/pfcp-up.   *)
(*                                                                         *)
(* Every handler runs inline on the transport's reader goroutine, and the  *)
(* reader is the only goroutine that calls the dataplane, so a handler and *)
(* the dataplane calls it makes are one atomic step.  VPP's own replies to *)
(* the binary-API calls (SetPunt) are the environment: each may succeed or *)
(* fail.  A Go map iterated with range has no fixed order, so the loop of  *)
(* InstallFAR over the session's PDRs may take them in any order.          *)
(*                                                                         *)
(* Rules are at the level the handler builds them: a PDR is [id, far, sdf, *)
(* app] (sdf the raw SDF-Filter IE value, app the Application-ID), a FAR  *)
(* is [id, action].  Establishment requests are the rule lists a CP sends. *)
(***************************************************************************)
EXTENDS SdfParser, FiniteSets, TLC

CONSTANTS
  Requests,      \* establishment requests: [pdrs : Seq(PDR), fars : Seq(FAR)]
  MaxMsgs,       \* bound on the requests the reader handles
  MaxPuntCalls   \* SetPunt calls enumerated for a port loop that never ends

VARIABLES
  upSessions,    \* up.sessions: SEID -> [pdrs, fars] (sets of rules)
  vppSessions,   \* VPPDataplane.sessions: SEID -> [pdrs, fars, puntReg]
  vppPunts,      \* the punt registrations VPP holds (set by SetPunt)
  reader,        \* "running", or "hung" inside a handler that never returns
  responses,     \* responses sent: [type, seid, cause]
  handled        \* requests handled so far

vars == <<upSessions, vppSessions, vppPunts, reader, responses, handled>>

CauseRequestAccepted == 1

(* l2FilterRegistry: the Application IDs GetL2Filter knows.                *)
L2FilterRegistry == {"ARP", "PPPOE_DISCOVERY", "PPPOE_SESSION", "LLDP", "DOT1Q", "IPV6"}

(* A punt registration: an L4 port, or an IP protocol (port unused).       *)
PuntKey(kind, af, proto, port) == [kind |-> kind, af |-> af, proto |-> proto, port |-> port]

(* The dataplane state one call works on and returns.                      *)
DP(sess, punts, hung) == [sess |-> sess, punts |-> punts, hung |-> hung]

Unset(f, k) == [x \in DOMAIN f \ {k} |-> f[x]]

-----------------------------------------------------------------------------
(* VPPDataplane.InstallPDR: create the session entry on first use, then    *)
(* store the PDR under its ID.  It never fails.                            *)
InstallPDR(d, seid, pdr) ==
  LET s == IF seid \in DOMAIN d.sess THEN d.sess[seid]
           ELSE [pdrs |-> {}, fars |-> {}, puntReg |-> {}]
  IN  [d EXCEPT !.sess = (seid :> [s EXCEPT !.pdrs = {p \in @ : p.id # pdr.id} \cup {pdr}])
                         @@ @]

(* The L4 loop of configurePuntForPDR: for port := start; port <= end;     *)
(* port++ over uint16.  port++ wraps 65535 to 0, so with end = 65535 the   *)
(* condition never fails and only a failing SetPunt ends the loop.  Each  *)
(* outcome is [d, ok]: k calls succeed and the next fails, or all succeed  *)
(* (a loop that never ends leaves the reader hung).                        *)
PortLoop(d, f) ==
  LET n       == IF f.portStart > f.portEnd THEN 0 ELSE f.portEnd - f.portStart + 1
      endless == f.portStart <= f.portEnd /\ f.portEnd = 65535
      Port(i) == (f.portStart + i) % 65536
      Reg(k)  == d.punts \cup {PuntKey("l4", f.af, f.proto, Port(i)) : i \in 0..k - 1}
  IN  {[d |-> [d EXCEPT !.punts = Reg(k)], ok |-> FALSE] :
         k \in 0..(IF endless THEN MaxPuntCalls ELSE n) - 1}
      \cup (IF endless THEN {[d |-> [d EXCEPT !.hung = TRUE], ok |-> FALSE]}
            ELSE {[d |-> [d EXCEPT !.punts = Reg(n)], ok |-> TRUE]})

(* configureL2PuntForPDR: an Application ID GetL2Filter knows is marked   *)
(* in puntReg; the classify-table punt is still a TODO, so VPP is not      *)
(* called.  An unknown ID is an error.                                     *)
ConfigureL2PuntForPDR(d, seid, pdr) ==
  IF pdr.app \in L2FilterRegistry
  THEN {[d |-> [d EXCEPT !.sess[seid].puntReg = @ \cup {pdr.id}], ok |-> TRUE]}
  ELSE {[d |-> d, ok |-> FALSE]}

(* Fault variant of ConfigurePuntForPDR: the PDR is marked in puntReg     *)
(* before the port loop runs, so a failing SetPunt leaves it marked.       *)
ConfigurePuntForPDRRegFirst(d, seid, pdr) ==
  UNION {
  LET reg(x) == [x EXCEPT !.sess[seid].puntReg = @ \cup {pdr.id}]
      f      == sdf.val
      ipKey  == PuntKey("ip", f.af, f.proto, 0)
  IN  CASE pdr.id \in d.sess[seid].puntReg -> {[d |-> d, ok |-> TRUE]}
        [] pdr.app # ""                     -> ConfigureL2PuntForPDR(d, seid, pdr)
        [] pdr.sdf = <<>>                   -> {[d |-> d, ok |-> FALSE]}
        [] sdf.st # "ok"                    -> {[d |-> d, ok |-> FALSE]}
        [] f.proto \in {6, 17, 132} /\ (f.portStart > 0 \/ f.portEnd > 0) ->
             {[o EXCEPT !.d = reg(@)] : o \in PortLoop(d, f)}
        [] OTHER ->
             {[d |-> reg([d EXCEPT !.punts = @ \cup {ipKey}]), ok |-> TRUE],
              [d |-> reg(d), ok |-> FALSE]} :
    sdf \in {ParseSDFFilter(pdr.sdf)}}

(* configurePuntForPDR: skip a PDR already punted; an Application ID goes  *)
(* to configureL2PuntForPDR (which registers nothing in VPP yet); else the *)
(* SDF filter is parsed and an L4 protocol with ports gets one SetPunt per *)
(* port, anything else one IP-protocol SetPunt.  Success marks the PDR in  *)
(* puntReg.                                                                *)
(* sdf, bound over the one-element set, is parseSDFFilter's result (used   *)
(* only once the Application-ID and empty-filter cases are past).         *)
ConfigurePuntForPDR(d, seid, pdr) ==
  UNION {
  LET reg(x) == [x EXCEPT !.sess[seid].puntReg = @ \cup {pdr.id}]
      f      == sdf.val
      isL4   == f.proto \in {6, 17, 132}
      ipKey  == PuntKey("ip", f.af, f.proto, 0)
  IN  CASE pdr.id \in d.sess[seid].puntReg -> {[d |-> d, ok |-> TRUE]}
        [] pdr.app # ""                     -> ConfigureL2PuntForPDR(d, seid, pdr)
        [] pdr.sdf = <<>>                   -> {[d |-> d, ok |-> FALSE]}
        [] sdf.st # "ok"                    -> {[d |-> d, ok |-> FALSE]}
        [] isL4 /\ (f.portStart > 0 \/ f.portEnd > 0) ->
             {IF o.ok THEN [o EXCEPT !.d = reg(@)] ELSE o : o \in PortLoop(d, f)}
        [] OTHER ->
             {[d |-> reg([d EXCEPT !.punts = @ \cup {ipKey}]), ok |-> TRUE],
              [d |-> d, ok |-> FALSE]} :
    sdf \in {ParseSDFFilter(pdr.sdf)}}

(* The loop of InstallFAR over the session's PDRs that use the FAR, in any *)
(* order, returning at the first error.                                    *)
RECURSIVE PuntPDRs(_, _, _)
PuntPDRs(d, seid, P) ==
  IF P = {} THEN {d}
  ELSE UNION {UNION {IF o.ok THEN PuntPDRs(o.d, seid, P \ {p}) ELSE {o.d} :
                       o \in ConfigurePuntForPDR(d, seid, p)} : p \in P}

(* Fault variant of InstallFAR: the FAR is stored only after every punt   *)
(* of its PDRs succeeded, so a punt error drops it.                        *)
InstallFARPuntFirst(d, seid, far) ==
  LET P        == {p \in d.sess[seid].pdrs : p.far = far.id}
      store(x) == [x EXCEPT !.sess[seid].fars = {y \in @ : y.id # far.id} \cup {far}]
  IN  CASE seid \notin DOMAIN d.sess -> {d}
        [] (far.action & 2) = 0       -> {store(d)}
        [] OTHER -> {IF {p.id : p \in P} \subseteq x.sess[seid].puntReg THEN store(x) ELSE x :
                       x \in PuntPDRs(d, seid, P)}

(* VPPDataplane.InstallFAR: fail if the session is unknown; store the FAR, *)
(* then, if its ApplyAction has bit 0x02, configure punt for every PDR     *)
(* pointing at it.  A punt error is returned with the FAR already stored.  *)
InstallFAR(d, seid, far) ==
  LET d1 == [d EXCEPT !.sess[seid].fars = {x \in @ : x.id # far.id} \cup {far}]
  IN  CASE seid \notin DOMAIN d.sess -> {d}
        [] (far.action & 2) = 0       -> {d1}
        [] OTHER -> PuntPDRs(d1, seid, {p \in d1.sess[seid].pdrs : p.far = far.id})

(* VPPDataplane.DeleteSession: drop the session entry; the punt           *)
(* registrations stay in VPP (deregisterPunt is never called).             *)
VppDeleteSession(d, seid) ==
  IF seid \in DOMAIN d.sess THEN [d EXCEPT !.sess = Unset(@, seid)] ELSE d

-----------------------------------------------------------------------------
(* Fault variant of AllocSEID: the search starts at 0.                    *)
AllocSEIDFromZero == CHOOSE s \in 0..MaxMsgs + 1 :
                       s \notin DOMAIN upSessions /\ \A t \in 0..s - 1 : t \in DOMAIN upSessions

(* UPFunction.allocSEID: the lowest positive SEID not in up.sessions.      *)
AllocSEID == CHOOSE s \in 1..MaxMsgs + 1 :
               s \notin DOMAIN upSessions /\ \A t \in 1..s - 1 : t \in DOMAIN upSessions

(* handleSessionEstablishmentRequest: allocate a SEID, InstallPDR for each *)
(* Create-PDR, then InstallFAR for each Create-FAR, ignoring every error;  *)
(* then store the session and answer RequestAccepted.  If a punt loop      *)
(* never ends, the reader stays inside the handler.                        *)
UpOnSessionEstablishmentRequest(r) ==
  LET seid == AllocSEID
      d0   == DP(vppSessions, vppPunts, FALSE)
      d1   == FoldLeft(LAMBDA d, p : InstallPDR(d, seid, p), d0, r.pdrs)
      outs == FoldLeft(LAMBDA D, far : UNION {IF d.hung THEN {d} ELSE InstallFAR(d, seid, far) : d \in D},
                       {d1}, r.fars)
  IN  /\ reader = "running"
      /\ handled < MaxMsgs
      /\ handled' = handled + 1
      /\ \E d \in outs :
           /\ vppSessions' = d.sess
           /\ vppPunts' = d.punts
           /\ IF d.hung
              THEN /\ reader' = "hung"
                   /\ UNCHANGED <<upSessions, responses>>
              ELSE /\ upSessions' = (seid :> [pdrs |-> ToSet(r.pdrs), fars |-> ToSet(r.fars)])
                                    @@ upSessions
                   /\ responses' = responses \cup
                        {[type |-> "establishment", seid |-> seid, cause |-> CauseRequestAccepted]}
                   /\ UNCHANGED reader

(* Fault variant of UpOnSessionDeletionRequest: the dataplane is not told. *)
UpOnSessionDeletionRequestNoDataplane(seid) ==
  /\ reader = "running"
  /\ handled < MaxMsgs
  /\ handled' = handled + 1
  /\ upSessions' = Unset(upSessions, seid)
  /\ responses' = responses \cup
       {[type |-> "deletion", seid |-> seid, cause |-> CauseRequestAccepted]}
  /\ UNCHANGED <<vppSessions, vppPunts, reader>>

(* handleSessionDeletionRequest for header SEID seid: delete it from       *)
(* up.sessions, call DeleteSession on the dataplane (its error ignored)    *)
(* and answer RequestAccepted.                                             *)
UpOnSessionDeletionRequest(seid) ==
  LET d == VppDeleteSession(DP(vppSessions, vppPunts, FALSE), seid)
  IN  /\ reader = "running"
      /\ handled < MaxMsgs
      /\ handled' = handled + 1
      /\ upSessions' = Unset(upSessions, seid)
      /\ vppSessions' = d.sess
      /\ responses' = responses \cup
           {[type |-> "deletion", seid |-> seid, cause |-> CauseRequestAccepted]}
      /\ UNCHANGED <<vppPunts, reader>>

(* handleSessionModificationRequest: answer RequestAccepted, change        *)
(* nothing.                                                                *)
UpOnSessionModificationRequest(seid) ==
  /\ reader = "running"
  /\ handled < MaxMsgs
  /\ handled' = handled + 1
  /\ responses' = responses \cup
       {[type |-> "modification", seid |-> seid, cause |-> CauseRequestAccepted]}
  /\ UNCHANGED <<upSessions, vppSessions, vppPunts, reader>>

Init ==
  /\ upSessions = <<>>
  /\ vppSessions = <<>>
  /\ vppPunts = {}
  /\ reader = "running"
  /\ responses = {}
  /\ handled = 0

(* The CP sends an establishment request, or a deletion or modification  *)
(* naming any SEID (including 0, which the CP sends when it stored the     *)
(* header SEID, F1).                                                       *)
Next ==
  \/ \E r \in Requests : UpOnSessionEstablishmentRequest(r)
  \/ \E s \in 0..MaxMsgs : UpOnSessionDeletionRequest(s)
  \/ \E s \in 0..MaxMsgs : UpOnSessionModificationRequest(s)

Spec == Init /\ [][Next]_vars

-----------------------------------------------------------------------------
(* Properties.                                                             *)

VppTypeOK ==
  /\ DOMAIN upSessions \subseteq 1..MaxMsgs + 1
  /\ DOMAIN vppSessions \subseteq Nat
  /\ reader \in {"running", "hung"}
  /\ handled \in 0..MaxMsgs

(* The punt registrations an SDF-filtered PDR needs, as configurePuntForPDR *)
(* computes them: one per port of an L4 range, else one for the protocol.  *)
RequiredPunts(p) ==
  UNION {IF f.proto \in {6, 17, 132} /\ (f.portStart > 0 \/ f.portEnd > 0)
         THEN {PuntKey("l4", f.af, f.proto, port) : port \in f.portStart..f.portEnd}
         ELSE {PuntKey("ip", f.af, f.proto, 0)} :
           f \in {ParseSDFFilter(p.sdf).val}}

(* While the reader runs, VPP holds state only for SEIDs up.sessions       *)
(* knows: the deletion handler removes both, so allocSEID, which reuses    *)
(* the lowest free SEID, never hands a new session the rules of an old one.*)
VppStateOnlyForLiveSessions ==
  reader = "running" => DOMAIN vppSessions \subseteq DOMAIN upSessions

(* configurePuntForPDR marks an SDF-filtered PDR in puntReg, which makes    *)
(* later calls skip it, only once VPP holds every registration the filter  *)
(* needs: a SetPunt failing midway through the port loop leaves the PDR    *)
(* unmarked.                                                               *)
PuntRegMeansRegistered ==
  \A s \in DOMAIN vppSessions :
    \A p \in vppSessions[s].pdrs :
      p.id \in vppSessions[s].puntReg /\ p.app = "" => RequiredPunts(p) \subseteq vppPunts

Ids(S) == {x.id : x \in S}

(* What an accepted session keeps although the establishment handler      *)
(* ignores every InstallPDR/InstallFAR error: once it has a PDR, VPP holds *)
(* the session with exactly its PDR IDs and FAR IDs, because InstallFAR    *)
(* stores the FAR before a punt step can fail.  Only punt registrations    *)
(* (and the FARs of a request with no PDR) can be missing.                 *)
AcceptedRulesStored ==
  \A s \in DOMAIN upSessions :
    upSessions[s].pdrs # {} =>
      /\ s \in DOMAIN vppSessions
      /\ Ids(vppSessions[s].pdrs) = Ids(upSessions[s].pdrs)
      /\ Ids(vppSessions[s].fars) = Ids(upSessions[s].fars)

(* Spec 4.4 and 7: a session exists on the UPF only if every PDR and FAR   *)
(* of its establishment installed on the dataplane, including the punt    *)
(* that InstallFAR configures for a FAR with bit 0x02.  The handler       *)
(* ignores the errors of InstallPDR and InstallFAR.                        *)
AcceptedSessionInstalled ==
  \A s \in DOMAIN upSessions :
    \A far \in upSessions[s].fars :
      /\ s \in DOMAIN vppSessions
      /\ far \in vppSessions[s].fars
      /\ (far.action & 2) # 0 =>
           \A p \in upSessions[s].pdrs : p.far = far.id => p.id \in vppSessions[s].puntReg

(* Spec 4.4: DeleteSession releases all resources of the session: every   *)
(* punt registration in VPP belongs to a PDR of a session VPPDataplane     *)
(* still holds.                                                            *)
PuntsOwnedByLiveSessions ==
  \A k \in vppPunts :
    \E s \in DOMAIN vppSessions : \E p \in vppSessions[s].pdrs :
      p.app = "" /\ k \in RequiredPunts(p)

(* Spec 5 and S6: the reader goroutine keeps serving datagrams; no        *)
(* handler blocks it for ever.                                             *)
ReaderNeverHangs == reader = "running"


=============================================================================
