----------------------------- MODULE MCPfcpCodec -----------------------------
(* Model-checking instance of PfcpCodec: valid version-1 headers with and  *)
(* without SEID, follow-on and priority, sequence numbers whose three      *)
(* bytes differ and the largest one, a SEID whose four low bytes differ (TLC integers stop at  *)
(* 2^31), and IE lists with a flat IE, a grouped IE (Create-PDR holding    *)
(* PDR-ID and Cause) and an enterprise IE.                                 *)
EXTENDS PfcpCodec

CauseIE == [type |-> 19, ent |-> 0, value |-> <<1>>]
PdrIdIE == [type |-> 56, ent |-> 0, value |-> <<0, 1>>]
CreatePDR == [type |-> 1, ent |-> 0, value |-> MarshalIEs(<<PdrIdIE, CauseIE>>)]
EnterpriseIE == [type |-> 32770, ent |-> 7, value |-> <<9>>]

(* The largest sequence number Transport.nextSeqNum hands out, whose     *)
(* three header bytes are all 0xFF.                                      *)
MaxSeq == 16777215

MCHeaders ==
  {h \in [version : {1}, fo : BOOLEAN, mp : BOOLEAN, s : BOOLEAN, type : {51},
          length : {0}, seid : {0, 16909060}, seq : {1, 65793, MaxSeq},
          prio : {0, 15}] :
     (~h.s => h.seid = 0) /\ (~h.mp => h.prio = 0)}

MCMessages ==
  [header : MCHeaders,
   ies : {<<>>, <<CauseIE>>, <<CreatePDR>>, <<EnterpriseIE, CauseIE>>}]

(* One message with SEID and a grouped IE, one without SEID.               *)
MCPrefixOf ==
  {m \in MCMessages : /\ ~m.header.fo /\ ~m.header.mp /\ m.header.seq = 1
                     /\ m.header.seid \in {0, 16909060}
                     /\ m.ies = <<CreatePDR>>}
=============================================================================
