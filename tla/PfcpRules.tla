------------------------------ MODULE PfcpRules ------------------------------
(***************************************************************************)
(* The way a session's rules travel from the CP's API to the UP's session  *)
(* table:                                                                  *)
(*   grpc.go CreateSession converts the API request into cp.PDR/cp.FAR/   *)
(*   cp.QER/cp.URR values; cp.go marshalPDRs/FARs/QERs/URRs turn them     *)
(*   into Create-* grouped IEs with the constructors of ie.go;            *)
(*   NewSessionEstablishmentRequest lists them; the IEs cross the wire    *)
(*   through the IE codec of PfcpCodec; handleSessionEstablishmentRequest  *)
(*   (up/handlers.go) finds every Create-PDR and Create-FAR and parses    *)
(*   them child by child into up.PDR/up.FAR values keyed by rule ID.      *)
(* On the CP side CreateSession records the rules keyed by the same IDs.   *)
(*                                                                         *)
(* Bytes and strings are sequences of 0..255.  A net.IP is the pair of     *)
(* what To4 and To16 return for it (<<>> for nil).  All operators are      *)
(* pure: the state that checks them is in MCPfcpRules.                     *)
(***************************************************************************)
EXTENDS Naturals, Sequences, SequencesExt, TLC

Codec == INSTANCE PfcpCodec WITH BufCap <- 0, MaxReads <- 0, Messages <- {},
                                 PrefixOf <- {}, buf <- <<>>, got <- <<>>,
                                 sent <- <<>>, last <- <<>>, reads <- 0

(* IE types (constants.go).                                                *)
IETypeCreatePDR == 1
IETypePDI == 2
IETypeCreateFAR == 3
IETypeForwardingParameters == 4
IETypeCreateURR == 6
IETypeCreateQER == 7
IETypeSourceInterface == 20
IETypeNetworkInstance == 22
IETypeSDFFilter == 23
IETypeApplicationID == 24
IETypePrecedence == 29
IETypeDestinationInterface == 42
IETypeApplyAction == 44
IETypePDR_ID == 56
IETypeURR_ID == 81
IETypeUE_IPAddress == 93
IETypeFAR_ID == 108
IETypeQER_ID == 109

NoPDI == [none |-> TRUE]
NoIP == [to4 |-> <<>>, to16 |-> <<>>]
EmptyMap == [x \in {} |-> 0]

-----------------------------------------------------------------------------
(* The IE constructors of ie.go.                                           *)

(* NewPDR_ID_IE, NewFAR_ID_IE, NewQER_ID_IE, NewURR_ID_IE,                 *)
(* NewPrecedenceIE: the ID big-endian in n bytes.                          *)
NewUintIE(type, x, n) == [type |-> type, ent |-> 0, value |-> Codec!PutBigEndian(x, n)]

(* NewSourceInterfaceIE, NewDestinationInterfaceIE, NewApplyActionIE.      *)
NewByteIE(type, b) == [type |-> type, ent |-> 0, value |-> <<b>>]

(* NewUE_IPAddressIE: flags V6 (0x01) or V4 (0x02), then the address in    *)
(* its 16- or 4-byte form.                                                 *)
NewUE_IPAddressIE(ip, isV6) ==
  [type |-> IETypeUE_IPAddress, ent |-> 0,
   value |-> IF isV6 THEN <<1>> \o ip.to16 ELSE <<2>> \o ip.to4]

(* Fault variant of NewSDFFilterIE: the spare byte left out.              *)
NewSDFFilterIENoSpare(fd) ==
  [type |-> IETypeSDFFilter, ent |-> 0,
   value |-> <<1>> \o Codec!PutBigEndian(Len(fd) % 65536, 2) \o fd]

(* NewSDFFilterIE: FD flag, spare byte, uint16 length, the description.   *)
NewSDFFilterIE(fd) ==
  [type |-> IETypeSDFFilter, ent |-> 0,
   value |-> <<1, 0>> \o Codec!PutBigEndian(Len(fd) % 65536, 2) \o fd]

NewApplicationIDIE(app) == [type |-> IETypeApplicationID, ent |-> 0, value |-> app]

(* NewGroupedIE: the children marshalled one after the other.             *)
NewGroupedIE(type, children) ==
  [type |-> type, ent |-> 0, value |-> Codec!MarshalIEs(children)]

-----------------------------------------------------------------------------
(* The CP side.                                                            *)

(* grpc.go CreateSession: the API's uint32 fields narrowed to the widths   *)
(* of cp.PDR and cp.FAR; a non-empty UE address is parsed with             *)
(* net.ParseIP; QER and URR IDs of a PDR are not carried over.  The API's *)
(* UE address is a token [text, ip] whose ip is what ParseIP returns.      *)
GrpcPDR(p) ==
  [id |-> p.id % 65536, prec |-> p.prec, farId |-> p.farId,
   qerIds |-> <<>>, urrIds |-> <<>>,
   pdi |-> [src |-> p.pdi.src % 256, sdf |-> p.pdi.sdf, ni |-> p.pdi.ni,
            app |-> p.pdi.app,
            ueip |-> IF p.pdi.ue.text = "" THEN NoIP ELSE p.pdi.ue.ip]]

GrpcFAR(f) == [id |-> f.id, action |-> f.action % 256,
               fp |-> [dst |-> f.fp.dst % 256, ni |-> f.fp.ni]]

(* marshalPDRs, for one PDR: the PDI children that are set, then the       *)
(* Create-PDR children in the order the code appends them.                 *)
PdiIEs(pdi) ==
  <<NewByteIE(IETypeSourceInterface, pdi.src)>>
  \o (IF pdi.ueip = NoIP THEN <<>>
      ELSE <<NewUE_IPAddressIE(pdi.ueip, pdi.ueip.to4 = <<>>)>>)
  \o (IF pdi.sdf = <<>> THEN <<>> ELSE <<NewSDFFilterIE(pdi.sdf)>>)
  \o (IF pdi.app = <<>> THEN <<>> ELSE <<NewApplicationIDIE(pdi.app)>>)

CreatePDR(pdr) ==
  NewGroupedIE(IETypeCreatePDR,
    <<NewUintIE(IETypePDR_ID, pdr.id, 2), NewUintIE(IETypePrecedence, pdr.prec, 4)>>
    \o (IF pdr.pdi = NoPDI THEN <<>> ELSE <<NewGroupedIE(IETypePDI, PdiIEs(pdr.pdi))>>)
    \o <<NewUintIE(IETypeFAR_ID, pdr.farId, 4)>>
    \o [i \in 1..Len(pdr.qerIds) |-> NewUintIE(IETypeQER_ID, pdr.qerIds[i], 4)]
    \o [i \in 1..Len(pdr.urrIds) |-> NewUintIE(IETypeURR_ID, pdr.urrIds[i], 4)])

(* marshalFARs, for one FAR.                                               *)
CreateFAR(far) ==
  NewGroupedIE(IETypeCreateFAR,
    <<NewUintIE(IETypeFAR_ID, far.id, 4), NewByteIE(IETypeApplyAction, far.action),
      NewGroupedIE(IETypeForwardingParameters,
                   <<NewByteIE(IETypeDestinationInterface, far.fp.dst)>>)>>)

(* marshalQERs and marshalURRs: a Create-QER / Create-URR holds the ID.    *)
CreateIdOnly(type, idType, r) == NewGroupedIE(type, <<NewUintIE(idType, r.id, 4)>>)

(* CreateSession's request IEs (marshal* then                              *)
(* NewSessionEstablishmentRequest): PDRs, FARs, QERs, URRs in order.       *)
EstablishmentIEs(req) ==
  [i \in 1..Len(req.pdrs) |-> CreatePDR(req.pdrs[i])]
  \o [i \in 1..Len(req.fars) |-> CreateFAR(req.fars[i])]
  \o [i \in 1..Len(req.qers) |-> CreateIdOnly(IETypeCreateQER, IETypeQER_ID, req.qers[i])]
  \o [i \in 1..Len(req.urrs) |-> CreateIdOnly(IETypeCreateURR, IETypeURR_ID, req.urrs[i])]

(* CreateSession after an accepted answer: session.PDRs[pdr.ID] = pdr for  *)
(* each rule in turn, so a later rule replaces one with the same ID.       *)
RuleMap(rules) == FoldLeft(LAMBDA m, r : (r.id :> r) @@ m, EmptyMap, rules)

-----------------------------------------------------------------------------
(* The UP side.                                                            *)

(* Message.FindAllIEs                                                      *)
FindAllIEs(ies, type) == SelectSeq(ies, LAMBDA ie : ie.type = type)

(* GetPDR_ID / GetFAR_ID with the error dropped (id, _ := ...): 0 unless   *)
(* the IE has the type and n bytes.                                        *)
GetUint(ie, type, n) ==
  IF ie.type # type \/ Len(ie.value) < n THEN 0
  ELSE Codec!BigEndian(SubSeq(ie.value, 1, n))

ZeroPDI == [src |-> 0, sdf |-> <<>>, ueip |-> <<>>, ni |-> <<>>, app |-> <<>>]
ZeroUpPDR == [id |-> 0, prec |-> 0, farId |-> 0, pdi |-> ZeroPDI]
ZeroUpFAR == [id |-> 0, action |-> 0]

(* One child of a PDI, as the inner switch records it.                     *)
PdiChild(pdi, c) ==
  CASE c.type = IETypeSourceInterface ->
         IF Len(c.value) > 0 THEN [pdi EXCEPT !.src = c.value[1]] ELSE pdi
    [] c.type = IETypeSDFFilter -> [pdi EXCEPT !.sdf = c.value]
    [] c.type = IETypeUE_IPAddress -> [pdi EXCEPT !.ueip = c.value]
    [] c.type = IETypeNetworkInstance -> [pdi EXCEPT !.ni = c.value]
    [] c.type = IETypeApplicationID -> [pdi EXCEPT !.app = c.value]
    [] OTHER -> pdi

(* The inner loop over a PDI's children.                                  *)
RECURSIVE PdiFields(_, _)
PdiFields(pdi, kids) ==
  IF kids = <<>> THEN pdi ELSE PdiFields(PdiChild(pdi, Head(kids)), Tail(kids))

(* One child of a Create-PDR.  The PDI's parse error is dropped: a bad     *)
(* PDI yields no children.  Precedence is recorded as 0.                   *)
PdrChild(pdr, ie) ==
  CASE ie.type = IETypePDR_ID -> [pdr EXCEPT !.id = GetUint(ie, IETypePDR_ID, 2)]
    [] ie.type = IETypePrecedence -> [pdr EXCEPT !.prec = 0]
    [] ie.type = IETypeFAR_ID -> [pdr EXCEPT !.farId = GetUint(ie, IETypeFAR_ID, 4)]
    [] ie.type = IETypePDI ->
         LET kids == Codec!ParseIEs(ie.value)
         IN  [pdr EXCEPT !.pdi = PdiFields(@, IF kids.st = "ok" THEN kids.val ELSE <<>>)]
    [] OTHER -> pdr

(* One child of a Create-FAR.                                              *)
FarChild(far, ie) ==
  CASE ie.type = IETypeFAR_ID -> [far EXCEPT !.id = GetUint(ie, IETypeFAR_ID, 4)]
    [] ie.type = IETypeApplyAction /\ Len(ie.value) > 0 -> [far EXCEPT !.action = ie.value[1]]
    [] OTHER -> far

(* The loop over a Create-PDR's (Create-FAR's) children.                   *)
RECURSIVE RuleFields(_, _, _)
RuleFields(r, kids, type) ==
  IF kids = <<>> THEN r
  ELSE RuleFields(IF type = IETypeCreatePDR THEN PdrChild(r, Head(kids))
                                            ELSE FarChild(r, Head(kids)),
                  Tail(kids), type)

(* A Create-PDR (Create-FAR) whose children parsed gives one rule; one    *)
(* whose children do not parse is skipped (continue).                      *)
ParsedRule(kids, type) ==
  IF kids.st # "ok" THEN <<>>
  ELSE <<RuleFields(IF type = IETypeCreatePDR THEN ZeroUpPDR ELSE ZeroUpFAR, kids.val, type)>>

(* session.PDRs[pdr.ID] = &pdr in loop order: the last rule with an ID    *)
(* is the one kept.                                                        *)
LatestById(rs) ==
  LET ok == {i \in DOMAIN rs : rs[i] # <<>>}
  IN  [id \in {rs[i][1].id : i \in ok} |-> rs[Max({i \in ok : rs[i][1].id = id})][1]]

(* The loop over FindAllIEs(Create-PDR) (Create-FAR).                     *)
UpRules(cs, type) ==
  LatestById([i \in 1..Len(cs) |-> ParsedRule(Codec!ParseIEs(cs[i].value), type)])

(* What handleSessionEstablishmentRequest records for the message whose    *)
(* IEs are ies, once the IE codec has decoded them: for Create-PDR the     *)
(* session's PDRs map, for Create-FAR its FARs map.                        *)
UpSession(ies) ==
  [type \in {IETypeCreatePDR, IETypeCreateFAR} |-> UpRules(FindAllIEs(ies, type), type)]

(* The request crosses the wire: MarshalIEs on the CP, ParseIEs on the UP. *)
Received(req) == Codec!ParseIEs(Codec!MarshalIEs(EstablishmentIEs(req)))

=============================================================================
