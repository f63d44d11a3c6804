----------------------------- MODULE MCSdfParser -----------------------------
(***************************************************************************)
(* Checks parseSDFFilter against a reference built from the SDF-Filter     *)
(* layout of spec section 3 and the flow-description grammar of the       *)
(* parser's own error messages ("action dir proto from src to dst         *)
(* [ports]").  Each input is assembled from tokens whose meaning is given  *)
(* independently of the parser; the expected result follows from those    *)
(* meanings.  The state is one SDF-Filter value configurePuntForPDR parses *)
(* and what the parser returns for it.                                     *)
(***************************************************************************)
EXTENDS SdfParser, FiniteSets

(* Protocol tokens and what they denote (a case-insensitive name or a     *)
(* decimal number below 256).                                              *)
ProtoToks ==
  {[text |-> "udp", ok |-> TRUE, val |-> 17], [text |-> "UDP", ok |-> TRUE, val |-> 17],
   [text |-> "Tcp", ok |-> TRUE, val |-> 6], [text |-> "icmpv6", ok |-> TRUE, val |-> 58],
   [text |-> "ip", ok |-> TRUE, val |-> 0], [text |-> "255", ok |-> TRUE, val |-> 255],
   [text |-> "256", ok |-> FALSE, val |-> 0], [text |-> "u2", ok |-> FALSE, val |-> 0]}

AddrToks ==
  {[text |-> "any", v6 |-> FALSE], [text |-> "10.0.0.1/32", v6 |-> FALSE],
   [text |-> "2001:db8::1", v6 |-> TRUE]}

(* Port tokens: absent, a port, or a range lo-hi of two uint16 values.     *)
PortToks ==
  {[text |-> "", ok |-> TRUE, lo |-> 0, hi |-> 0],
   [text |-> "67-68", ok |-> TRUE, lo |-> 67, hi |-> 68],
   [text |-> "68-67", ok |-> TRUE, lo |-> 68, hi |-> 67],
   [text |-> "65535", ok |-> TRUE, lo |-> 65535, hi |-> 65535],
   [text |-> "0", ok |-> TRUE, lo |-> 0, hi |-> 0],
   [text |-> "65536", ok |-> FALSE, lo |-> 0, hi |-> 0],
   [text |-> "1-2-3", ok |-> FALSE, lo |-> 0, hi |-> 0],
   [text |-> "5-", ok |-> FALSE, lo |-> 0, hi |-> 0]}

KwToks == {[from |-> "from", to |-> "to", ok |-> TRUE],
           [from |-> "FROM", to |-> "to", ok |-> FALSE],
           [from |-> "from", to |-> "any", ok |-> FALSE]}

(* Tokens joined by a run of white space (a space, or a tab and a space).  *)
Join(toks, sep) ==
  FoldLeft(LAMBDA acc, t : IF acc = <<>> THEN t ELSE acc \o sep \o t, <<>>,
           SelectSeq(toks, LAMBDA t : t # <<>>))

FlowDescs ==
  {[fd  |-> Join(<<Ascii("permit"), Ascii("out"), Ascii(p.text), Ascii(k.from),
                   Ascii(a.text), Ascii(k.to), Ascii(b.text), Ascii(q.text)>>, sep),
    ok  |-> p.ok /\ k.ok /\ q.ok,
    val |-> [ZeroFilter EXCEPT !.proto = p.val, !.af = IF a.v6 \/ b.v6 THEN 1 ELSE 0,
                               !.portStart = q.lo, !.portEnd = q.hi]] :
     p \in ProtoToks, a \in AddrToks, b \in AddrToks, q \in PortToks,
     k \in KwToks, sep \in {<<32>>, <<9, 32>>}}
  \cup
  {[fd |-> Ascii("permit out udp from any to"), ok |-> FALSE, val |-> ZeroFilter]}

(* The SDF-Filter IE value of spec section 3: flags, spare, then the       *)
(* fields the flags select.  The flow label's top four bits are spare on   *)
(* the wire and carry noise here.                                          *)
Encode(flags, fd) ==
  <<flags, 0>>
  \o (IF flags % 2 = 1 THEN <<Len(fd) \div 256, Len(fd) % 256>> \o fd ELSE <<>>)
  \o (IF (flags \div 2) % 2 = 1 THEN <<1, 2>> ELSE <<>>)
  \o (IF (flags \div 4) % 2 = 1 THEN <<0, 3, 0, 4>> ELSE <<>>)
  \o (IF (flags \div 8) % 2 = 1 THEN <<245, 6, 7>> ELSE <<>>)
  \o (IF (flags \div 16) % 2 = 1 THEN <<0, 0, 1, 8>> ELSE <<>>)

Expect(flags, d) ==
  [tos       |-> IF (flags \div 2) % 2 = 1 THEN 258 ELSE 0,
   spi       |-> IF (flags \div 4) % 2 = 1 THEN 3 * 65536 + 4 ELSE 0,
   flowLabel |-> IF (flags \div 8) % 2 = 1 THEN (245 % 16) * 65536 + 6 * 256 + 7 ELSE 0,
   filterId  |-> IF (flags \div 16) % 2 = 1 THEN 264 ELSE 0,
   proto     |-> IF flags % 2 = 1 THEN d.val.proto ELSE 0,
   af        |-> IF flags % 2 = 1 THEN d.val.af ELSE 0,
   portStart |-> IF flags % 2 = 1 THEN d.val.portStart ELSE 0,
   portEnd   |-> IF flags % 2 = 1 THEN d.val.portEnd ELSE 0]

Dhcp == CHOOSE d \in FlowDescs : d.fd = Ascii("permit out udp from any to any 67-68")

(* Every flow description with the FD flag alone; every flag combination  *)
(* with the DHCP description; every strict prefix of the full encoding.    *)
Inputs ==
  {[bytes |-> Encode(1, d.fd), ok |-> d.ok, val |-> Expect(1, d)] : d \in FlowDescs}
  \cup
  {[bytes |-> Encode(fl, Dhcp.fd), ok |-> TRUE, val |-> Expect(fl, Dhcp)] : fl \in 0..31}
  \cup
  {[bytes |-> SubSeq(Encode(31, Dhcp.fd), 1, k), ok |-> FALSE, val |-> ZeroFilter] :
     k \in 0..Len(Encode(31, Dhcp.fd)) - 1}

VARIABLES input, result

(* One parse per behaviour: the inputs are the initial states.           *)
MCInit == \E i \in Inputs : input = i /\ result = ParseSDFFilter(i.bytes)
MCNext == UNCHANGED <<input, result>>
MCSpec == MCInit /\ [][MCNext]_<<input, result>>

(* parseSDFFilter accepts exactly the well-formed SDF-Filter values and    *)
(* returns the protocol, port range, address family and optional fields   *)
(* they encode; a truncated value, an unknown protocol, a misplaced        *)
(* keyword or a port outside uint16 is an error.                           *)
ParseMatchesReference ==
  /\ (result.st = "ok") = input.ok
  /\ input.ok => result.val = input.val

=============================================================================
