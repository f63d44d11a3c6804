------------------------------ MODULE SdfParser ------------------------------
(***************************************************************************)
(* The SDF-filter parser of the VPP dataplane (dataplane/vpp/sdf_parser.go)*)
(* as operators.  configurePuntForPDR passes it the raw value of a PDR's   *)
(* SDF-Filter IE and uses the protocol, the port range and the address     *)
(* family it returns to choose the punt registrations.                     *)
(*                                                                         *)
(* Bytes are 0..255 and a []byte or a Go string is a sequence of them      *)
(* (the ASCII codes of its characters), so string(bytes) changes nothing   *)
(* and strings.Fields, strings.Split, strings.ToLower and strconv.ParseUint*)
(* are written out over codes.  The Action, Direction and address strings  *)
(* are kept only as far as the result depends on them.                     *)
(***************************************************************************)
EXTENDS Naturals, FiniteSets, Sequences, SequencesExt, Bitwise

(* The ASCII code of a one-character string, for the characters that Go    *)
(* string literals of the parser and its inputs use.                       *)
CharCode ==
  UNION {{<<SubSeq(r[1], i, i), r[2] + i - 1>> : i \in 1..Len(r[1])} :
           r \in {<<" ", 32>>, <<"-./0123456789:", 45>>,
                  <<"ABCDEFGHIJKLMNOPQRSTUVWXYZ", 65>>,
                  <<"abcdefghijklmnopqrstuvwxyz", 97>>}}
Ascii(str) ==
  [i \in 1..Len(str) |-> (CHOOSE p \in CharCode : p[1] = SubSeq(str, i, i))[2]]

BigEndianN(s) == FoldLeft(LAMBDA acc, b : acc * 256 + b, 0, s)

(* The ASCII white space of unicode.IsSpace.  A byte >= 0x80 on its own is *)
(* not valid UTF-8 and decodes to RuneError, which is not a space.         *)
IsSpace(b) == b \in {9, 10, 11, 12, 13, 32}

(* strings.Split(s, sep) for a one-byte separator: every separator ends a  *)
(* piece, empty pieces included.                                           *)
SplitOn(s, sep) ==
  FoldLeft(LAMBDA acc, b :
             IF b = sep THEN Append(acc, <<>>)
             ELSE [acc EXCEPT ![Len(acc)] = Append(@, b)],
           <<<<>>>>, s)

(* strings.Fields: the maximal runs of non-space bytes, in order.         *)
Fields(s) ==
  LET starts == {i \in DOMAIN s : ~IsSpace(s[i]) /\ (i = 1 \/ IsSpace(s[i - 1]))}
      End(i) == CHOOSE j \in i..Len(s) :
                  (\A k \in i..j : ~IsSpace(s[k])) /\ (j = Len(s) \/ IsSpace(s[j + 1]))
      Start(k) == CHOOSE i \in starts : Cardinality({j \in starts : j < i}) = k - 1
  IN  [k \in 1..Cardinality(starts) |-> SubSeq(s, Start(k), End(Start(k)))]

ToLower(s) == [i \in DOMAIN s |-> IF s[i] \in 65..90 THEN s[i] + 32 ELSE s[i]]

IsDigit(b) == b \in 48..57

(* strconv.ParseUint(s, 10, bits): decimal digits only (no sign, no        *)
(* underscore in base 10), at least one, and a value below 2^bits.         *)
ParseUint(s, bits) ==
  LET v == FoldLeft(LAMBDA acc, b : acc * 10 + (b - 48), 0, s)
  IN  IF s = <<>> \/ \E i \in DOMAIN s : ~IsDigit(s[i]) \/ v >= 2^bits
      THEN [st |-> "error", val |-> 0]
      ELSE [st |-> "ok", val |-> v]

-----------------------------------------------------------------------------
(* SDFFilter with the fields configurePuntForPDR reads, zero-valued as in  *)
(* &SDFFilter{}.                                                           *)
ZeroFilter ==
  [proto |-> 0, portStart |-> 0, portEnd |-> 0, af |-> 0,
   tos |-> 0, spi |-> 0, flowLabel |-> 0, filterId |-> 0]

SdfErr == [st |-> "error", val |-> ZeroFilter]
SdfOk(f) == [st |-> "ok", val |-> f]
StageErr == [st |-> "error", val |-> ZeroFilter, off |-> 0]

(* Fault variant of ParsePortRange: the range is stored end first.        *)
ParsePortRangeSwapped(tok, f) ==
  IF Contains(tok, 45)
  THEN LET ports == SplitOn(tok, 45)
           start == ParseUint(ports[1], 16)
           end   == ParseUint(ports[2], 16)
       IN  IF Len(ports) # 2 \/ start.st # "ok" \/ end.st # "ok" THEN SdfErr
           ELSE SdfOk([f EXCEPT !.portStart = end.val, !.portEnd = start.val])
  ELSE LET port == ParseUint(tok, 16)
       IN  IF port.st # "ok" THEN SdfErr
           ELSE SdfOk([f EXCEPT !.portStart = port.val, !.portEnd = port.val])

(* parsePortRange: "a-b" or "a", each a uint16.                            *)
ParsePortRange(tok, f) ==
  IF Contains(tok, 45)
  THEN LET ports == SplitOn(tok, 45)
           start == ParseUint(ports[1], 16)
           end   == ParseUint(ports[2], 16)
       IN  IF Len(ports) # 2 \/ start.st # "ok" \/ end.st # "ok" THEN SdfErr
           ELSE SdfOk([f EXCEPT !.portStart = start.val, !.portEnd = end.val])
  ELSE LET port == ParseUint(tok, 16)
       IN  IF port.st # "ok" THEN SdfErr
           ELSE SdfOk([f EXCEPT !.portStart = port.val, !.portEnd = port.val])

(* The protocol switch of parseFlowDescription: a name, case-insensitive,  *)
(* or a decimal uint8.                                                     *)
ProtoNames ==
  {<<"tcp", 6>>, <<"udp", 17>>, <<"icmp", 1>>, <<"icmpv6", 58>>, <<"ip", 0>>}
ParseProto(tok) ==
  IF \E p \in ProtoNames : ToLower(tok) = Ascii(p[1])
  THEN [st |-> "ok",
        val |-> (CHOOSE p \in ProtoNames : ToLower(tok) = Ascii(p[1]))[2]]
  ELSE ParseUint(tok, 8)

(* parseFlowDescription: "action dir proto from src to dst [ports]".      *)
(* IPv6 (AddressFamily 1) if either address contains ':'.                  *)
ParseFlowDescription(fd) ==
  LET parts == Fields(fd)
      proto == ParseProto(parts[3])
      f     == [ZeroFilter EXCEPT
                  !.proto = proto.val,
                  !.af = IF Contains(parts[5], 58) \/ Contains(parts[7], 58)
                         THEN 1 ELSE 0]
  IN  CASE Len(parts) < 7                -> SdfErr
        [] proto.st # "ok"               -> SdfErr
        [] parts[4] # Ascii("from")      -> SdfErr
        [] parts[6] # Ascii("to")        -> SdfErr
        [] Len(parts) > 7                -> ParsePortRange(parts[8], f)
        [] OTHER                         -> SdfOk(f)

(* binary.BigEndian.Uint16/Uint32 of a field's bytes; the flow label is   *)
(* assembled from three bytes and keeps its low 20 bits.                   *)
FieldValue(field, b) ==
  IF field = "flowLabel" THEN BigEndianN(b) & 1048575 ELSE BigEndianN(b)

(* One optional fixed-width field of the SDF-Filter IE: if its flag is set *)
(* it must be present at the offset, and its value is stored.              *)
SdfField(v, r, flag, n, field) ==
  CASE r.st # "ok" \/ flag = 0 -> r
    [] Len(v) < r.off + n       -> StageErr
    [] OTHER -> [r EXCEPT !.val[field] = FieldValue(field, SubSeq(v, r.off + 1, r.off + n)),
                          !.off = @ + n]

(* parseSDFFilter: flags, a spare byte, then the fields the FD, TTC, SPI,  *)
(* FL and BID flags select, in that order.                                 *)
ParseSDFFilter(v) ==
  LET flags == v[1]
      fdLen == BigEndianN(SubSeq(v, 3, 4))
      desc  == ParseFlowDescription(SubSeq(v, 5, 4 + fdLen))
      fd    == CASE (flags & 1) = 0    -> [st |-> "ok", val |-> ZeroFilter, off |-> 2]
                 [] Len(v) < 4          -> StageErr
                 [] Len(v) < 4 + fdLen  -> StageErr
                 [] desc.st # "ok"      -> StageErr
                 [] OTHER               -> [st |-> "ok", val |-> desc.val, off |-> 4 + fdLen]
      ttc == SdfField(v, fd, flags & 2, 2, "tos")
      spi == SdfField(v, ttc, flags & 4, 4, "spi")
      fl  == SdfField(v, spi, flags & 8, 3, "flowLabel")
      bid == SdfField(v, fl, flags & 16, 4, "filterId")
  IN  IF Len(v) < 2 THEN SdfErr ELSE [st |-> bid.st, val |-> bid.val]

=============================================================================
