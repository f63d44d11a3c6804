---------------------------- MODULE MCPfcpVpp ----------------------------
(***************************************************************************)
(* Establishment requests for PfcpVpp, as a CP sends them through          *)
(* CreateSession: scenario S1 (a DHCP punt rule), an Application-ID rule   *)
(* beside an ICMP rule, a rule for the single port 65535, and a FAR whose  *)
(* request carries no PDR.                                                 *)
(***************************************************************************)
EXTENDS PfcpVpp

(* SDF-Filter IE values carrying only a flow description (flag FD, the    *)
(* 2-byte length, the ASCII bytes), written out byte by byte.              *)
(* "permit out udp from any to any 67-68" *)
Dhcp ==
  <<1, 0, 0, 36, 112, 101, 114, 109, 105, 116, 32, 111, 117, 116, 32, 117,
      100, 112, 32, 102, 114, 111, 109, 32, 97, 110, 121, 32, 116, 111,
      32, 97, 110, 121, 32, 54, 55, 45, 54, 56>>
(* "permit out icmp from any to any" *)
Icmp ==
  <<1, 0, 0, 31, 112, 101, 114, 109, 105, 116, 32, 111, 117, 116, 32, 105,
      99, 109, 112, 32, 102, 114, 111, 109, 32, 97, 110, 121, 32, 116,
      111, 32, 97, 110, 121>>
(* "permit out udp from any to any 65535" *)
LastPort ==
  <<1, 0, 0, 36, 112, 101, 114, 109, 105, 116, 32, 111, 117, 116, 32, 117,
      100, 112, 32, 102, 114, 111, 109, 32, 97, 110, 121, 32, 116, 111,
      32, 97, 110, 121, 32, 54, 53, 53, 51, 53>>

PDR(id, far, sdf, app) == [id |-> id, far |-> far, sdf |-> sdf, app |-> app]
FAR(id, action) == [id |-> id, action |-> action]

MCRequests ==
  {[pdrs |-> <<PDR(1, 1, Dhcp, "")>>, fars |-> <<FAR(1, 10)>>],
   [pdrs |-> <<PDR(1, 1, <<>>, "ARP"), PDR(2, 1, Icmp, "")>>, fars |-> <<FAR(1, 2)>>],
   [pdrs |-> <<PDR(1, 1, LastPort, "")>>, fars |-> <<FAR(1, 2)>>],
   [pdrs |-> <<>>, fars |-> <<FAR(1, 2)>>]}

=============================================================================
