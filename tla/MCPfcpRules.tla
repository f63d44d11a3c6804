----------------------------- MODULE MCPfcpRules -----------------------------
(***************************************************************************)
(* The decoders of the rules a session carries, checked together:          *)
(*  - parseSDFFilter against its reference (MCSdfParser);                  *)
(*  - the whole way from a CreateSession call to the UP's session table    *)
(*    (PfcpRules) against the rules the CP itself records.                 *)
(* A state is one input of either check: an SDF-Filter value and the       *)
(* parser's result, or a CreateSession request, what crossed the wire and  *)
(* what the UP recorded.  The other check's part holds its empty input.    *)
(***************************************************************************)
EXTENDS MCSdfParser, PfcpRules

(* net.ParseIP, by what it returns for the texts the API is given.         *)
V4 == <<10, 0, 0, 1>>
V6 == <<32, 1, 13, 184, 0, 0, 0, 0, 0, 0, 0, 0, 0, 0, 0, 1>>
UeToks ==
  [none |-> [text |-> "", ip |-> NoIP],
   v4   |-> [text |-> "10.0.0.1",
             ip |-> [to4 |-> V4, to16 |-> <<0,0,0,0,0,0,0,0,0,0,255,255>> \o V4]],
   v6   |-> [text |-> "2001:db8::1", ip |-> [to4 |-> <<>>, to16 |-> V6]],
   bad  |-> [text |-> "not-an-ip", ip |-> NoIP]]

Web == <<119, 101, 98>>                              \* "web"
Inet == <<105, 110, 116, 101, 114, 110, 101, 116>>   \* "internet"

(* API rules: S1's DHCP PDR and FAR, IDs beyond uint16 and bytes beyond    *)
(* uint8 that the facade narrows, both address families, an unparsable     *)
(* address, and a FAR reusing an ID.                                       *)
ApiPDRs ==
  {[id |-> 1, prec |-> 1000, farId |-> 1,
    pdi |-> [src |-> 0, sdf |-> Dhcp.fd, ue |-> UeToks.none, ni |-> <<>>, app |-> <<>>]],
   [id |-> 65537, prec |-> 10, farId |-> 16909060,
    pdi |-> [src |-> 259, sdf |-> <<>>, ue |-> UeToks.v4, ni |-> Inet, app |-> Web]],
   [id |-> 258, prec |-> 0, farId |-> 2,
    pdi |-> [src |-> 1, sdf |-> <<>>, ue |-> UeToks.v6, ni |-> <<>>, app |-> <<>>]],
   [id |-> 2, prec |-> 7, farId |-> 1,
    pdi |-> [src |-> 3, sdf |-> Dhcp.fd, ue |-> UeToks.bad, ni |-> <<>>, app |-> Web]]}

ApiFARs ==
  {[id |-> 1, action |-> 10, fp |-> [dst |-> 3, ni |-> <<>>]],
   [id |-> 16909060, action |-> 258, fp |-> [dst |-> 1, ni |-> Inet]],
   [id |-> 1, action |-> 1, fp |-> [dst |-> 0, ni |-> <<>>]]}

UpTo2(S) == UNION {[1..n -> S] : n \in 0..2}

(* The requests CreateSession receives: from the gRPC facade, and from a  *)
(* Go caller that gives a PDR without PDI but with QER and URR IDs.        *)
Requests ==
  {[pdrs |-> [i \in DOMAIN ps |-> GrpcPDR(ps[i])],
    fars |-> [i \in DOMAIN fs |-> GrpcFAR(fs[i])], qers |-> q, urrs |-> u] :
     ps \in UpTo2(ApiPDRs), fs \in UpTo2(ApiFARs),
     q \in {<<>>, <<[id |-> 5]>>}, u \in {<<>>, <<[id |-> 6]>>}}
  \cup
  {[pdrs |-> <<[id |-> 7, prec |-> 5, farId |-> 1, pdi |-> NoPDI,
                qerIds |-> <<5>>, urrIds |-> <<6, 9>>]>>,
    fars |-> <<>>, qers |-> <<[id |-> 5]>>, urrs |-> <<[id |-> 6], [id |-> 9]>>]}

EmptyReq == [pdrs |-> <<>>, fars |-> <<>>, qers |-> <<>>, urrs |-> <<>>]
NoSdfInput == CHOOSE i \in Inputs : i.bytes = <<>>

VARIABLES req, wire, upSess

rulesVars == <<input, result, req, wire, upSess>>

RulesInit ==
  \E r \in Requests \cup {EmptyReq} :
    /\ req = r
    /\ wire \in {Received(r)}
    /\ upSess \in {IF wire.st = "ok" THEN UpSession(wire.val) ELSE EmptyMap}
    /\ input \in IF r = EmptyReq THEN Inputs ELSE {NoSdfInput}
    /\ result \in {ParseSDFFilter(input.bytes)}

RulesNext == UNCHANGED rulesVars
RulesSpec == RulesInit /\ [][RulesNext]_rulesVars

-----------------------------------------------------------------------------
(* What the UP should hold for a rule the CP records, by the IE layouts of *)
(* spec section 3: the UE address as its flag byte (V6 0x01, V4 0x02) and  *)
(* address, the SDF filter as the FD-only SDF-Filter value that            *)
(* MCSdfParser shows parseSDFFilter reads back.                            *)
ExpectedPDI(pdi) ==
  IF pdi = NoPDI THEN [src |-> 0, sdf |-> <<>>, ueip |-> <<>>, app |-> <<>>]
  ELSE [src  |-> pdi.src,
        sdf  |-> IF pdi.sdf = <<>> THEN <<>> ELSE Encode(1, pdi.sdf),
        ueip |-> CASE pdi.ueip = NoIP -> <<>>
                   [] pdi.ueip.to4 # <<>> -> <<2>> \o pdi.ueip.to4
                   [] OTHER -> <<1>> \o pdi.ueip.to16,
        app  |-> pdi.app]

UpPDI(pdi) == [src |-> pdi.src, sdf |-> pdi.sdf, ueip |-> pdi.ueip, app |-> pdi.app]

(* The UP ends up with the rules the CP records for the session: the same  *)
(* PDR IDs and FAR IDs, even when the facade's narrowing or a repeated ID  *)
(* makes one rule replace another; each PDR with its FAR ID, source        *)
(* interface, UE address, SDF filter and application ID, and each FAR      *)
(* with its apply action.  Precedence (which handlers.go sets to 0) and    *)
(* the network instance (which marshalPDRs never encodes) are not carried  *)
(* and not compared.                                                       *)
RulesReachUP ==
  LET cpPDRs == RuleMap(req.pdrs)
      cpFARs == RuleMap(req.fars)
  IN  /\ wire.st = "ok"
      /\ DOMAIN upSess[IETypeCreatePDR] = DOMAIN cpPDRs
      /\ \A id \in DOMAIN cpPDRs :
           /\ upSess[IETypeCreatePDR][id].farId = cpPDRs[id].farId
           /\ UpPDI(upSess[IETypeCreatePDR][id].pdi) = ExpectedPDI(cpPDRs[id].pdi)
      /\ DOMAIN upSess[IETypeCreateFAR] = DOMAIN cpFARs
      /\ \A id \in DOMAIN cpFARs : upSess[IETypeCreateFAR][id].action = cpFARs[id].action

=============================================================================
