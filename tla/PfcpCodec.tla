------------------------------ MODULE PfcpCodec ------------------------------
(***************************************************************************)
(* The wire codec of pkg/protocol (header.go, ie.go, messages.go) and the  *)
(* receive path of transport.go that feeds it.                             *)
(*                                                                         *)
(* Bytes are the integers 0..255 and a byte slice is a sequence of them.   *)
(* Marshal and Unmarshal are operators translated from the Go functions,   *)
(* with Go's uint8/uint16 truncation written out as % 256 and % 65536.    *)
(* Go slices carry a capacity: receiveLoop reads every datagram into the   *)
(* same buffer and passes buf[:n] to Message.Unmarshal, whose slice        *)
(* expression may reach past n up to the buffer's capacity.  A slice is    *)
(* therefore a record [arr, len]: arr is the backing array from the slice  *)
(* start (so Len(arr) is the capacity) and len the visible length.         *)
(*                                                                         *)
(* The state machine is receiveLoop: a peer sends a datagram, the reader   *)
(* copies it into buf and decodes buf[:n].                                 *)
(***************************************************************************)
EXTENDS Naturals, Sequences, SequencesExt, Bitwise

CONSTANTS
  BufCap,     \* len(buf) in receiveLoop (65535)
  MaxReads,   \* bound on the datagrams read in one behaviour
  Messages,   \* the messages peers encode and send
  PrefixOf    \* messages of which a peer may send a strict prefix

Byte == 0..255

(* Fault variant of PutBigEndian: x >> 8k without the conversion to byte. *)
RECURSIVE PutBigEndianNoMask(_, _)
PutBigEndianNoMask(x, n) ==
  IF n = 0 THEN <<>> ELSE PutBigEndianNoMask(x \div 256, n - 1) \o <<x>>

(* binary.BigEndian.PutUintN and byte(x >> k): the n low-order bytes of x, *)
(* most significant first.                                                 *)
RECURSIVE PutBigEndian(_, _)
PutBigEndian(x, n) ==
  IF n = 0 THEN <<>> ELSE PutBigEndian(x \div 256, n - 1) \o <<x % 256>>

(* binary.BigEndian.UintN: the number a run of bytes encodes.              *)
BigEndian(s) == FoldLeft(LAMBDA acc, b : acc * 256 + b, 0, s)

-----------------------------------------------------------------------------
(* MessageHeader.Marshal: flags byte, type, length, [SEID], 3-byte         *)
(* sequence number, priority/spare byte.  Version and priority are shifted *)
(* in a uint8, so high bits are lost; the version is not checked.          *)
HeaderMarshal(h) ==
  LET flags == ((h.version * 32) % 256) | (IF h.fo THEN 4 ELSE 0)
                 | (IF h.mp THEN 2 ELSE 0) | (IF h.s THEN 1 ELSE 0)
      last  == IF h.mp THEN (h.prio * 16) % 256 ELSE 0
  IN  <<flags, h.type>> \o PutBigEndian(h.length, 2)
        \o (IF h.s THEN PutBigEndian(h.seid, 8) ELSE <<>>)
        \o PutBigEndian(h.seq, 3) \o <<last>>

(* MessageHeader.Len                                                       *)
HeaderLen(h) == IF h.s THEN 16 ELSE 8

Fail == [st |-> "error", val |-> <<>>]
Ok(v) == [st |-> "ok", val |-> v]

(* Fault variant of HeaderUnmarshal: the sequence number is always read   *)
(* at offset 4, as if the SEID were absent.                                *)
HeaderUnmarshalFixedOffset(d) ==
  IF Len(d) < 8 \/ ((d[1] & 1) # 0 /\ Len(d) < 16) THEN Fail
  ELSE LET s   == (d[1] & 1) # 0
           mp  == (d[1] & 2) # 0
       IN Ok([version |-> shiftR(d[1], 5) & 7, fo |-> (d[1] & 4) # 0,
              mp |-> mp, s |-> s, type |-> d[2],
              length |-> BigEndian(SubSeq(d, 3, 4)),
              seid |-> IF s THEN BigEndian(SubSeq(d, 5, 12)) ELSE 0,
              seq |-> BigEndian(SubSeq(d, 5, 7)),
              prio |-> IF mp THEN shiftR(d[8], 4) ELSE 0])

(* MessageHeader.Unmarshal of a visible byte run d.  Fields the flags do   *)
(* not select keep the zero value of a fresh Message.                      *)
HeaderUnmarshal(d) ==
  IF Len(d) < 8 \/ ((d[1] & 1) # 0 /\ Len(d) < 16) THEN Fail
  ELSE LET s   == (d[1] & 1) # 0
           mp  == (d[1] & 2) # 0
           off == IF s THEN 12 ELSE 4
       IN Ok([version |-> shiftR(d[1], 5) & 7, fo |-> (d[1] & 4) # 0,
              mp |-> mp, s |-> s, type |-> d[2],
              length |-> BigEndian(SubSeq(d, 3, 4)),
              seid |-> IF s THEN BigEndian(SubSeq(d, 5, 12)) ELSE 0,
              seq |-> BigEndian(SubSeq(d, off + 1, off + 3)),
              prio |-> IF mp THEN shiftR(d[off + 4], 4) ELSE 0])

-----------------------------------------------------------------------------
(* IE.Marshal: type, length (truncated to uint16), [enterprise ID], value. *)
(* A grouped IE's value is its children marshalled (NewGroupedIE).         *)
IsEnterprise(type) == type >= 32768

IEMarshal(ie) ==
  LET length == Len(ie.value) + (IF IsEnterprise(ie.type) THEN 2 ELSE 0)
  IN  PutBigEndian(ie.type, 2) \o PutBigEndian(length % 65536, 2)
        \o (IF IsEnterprise(ie.type) THEN PutBigEndian(ie.ent, 2) ELSE <<>>)
        \o ie.value

MarshalIEs(ies) == FoldLeft(LAMBDA acc, ie : acc \o IEMarshal(ie), <<>>, ies)

(* IE.Unmarshal of a visible byte run d: the IE and the bytes it used.     *)
IEUnmarshal(d) ==
  IF Len(d) < 4 THEN Fail
  ELSE LET type   == BigEndian(SubSeq(d, 1, 2))
           length == BigEndian(SubSeq(d, 3, 4))
       IN CASE Len(d) < 4 + length -> Fail
            [] IsEnterprise(type) /\ length < 2 -> Fail
            [] IsEnterprise(type) ->
                 Ok([ie |-> [type |-> type, ent |-> BigEndian(SubSeq(d, 5, 6)),
                             value |-> SubSeq(d, 7, 4 + length)],
                     n |-> 4 + length])
            [] OTHER ->
                 Ok([ie |-> [type |-> type, ent |-> 0,
                             value |-> SubSeq(d, 5, 4 + length)],
                     n |-> 4 + length])

(* ParseGroupedIE, and the same loop in Message.Unmarshal: decode IEs     *)
(* until the run is used up; any IE error fails the whole run.            *)
RECURSIVE ParseIEs(_)
ParseIEs(d) ==
  IF d = <<>> THEN Ok(<<>>)
  ELSE LET first == IEUnmarshal(d)
       IN IF first.st # "ok" THEN Fail
          ELSE LET rest == ParseIEs(SubSeq(d, first.val.n + 1, Len(d)))
               IN IF rest.st # "ok" THEN Fail
                  ELSE Ok(<<first.val.ie>> \o rest.val)

-----------------------------------------------------------------------------
(* Message.Marshal: the IEs first, then the header re-marshalled with     *)
(* MessageLength = uint16(len(IE bytes)).                                  *)
WithLength(m, n) == [m EXCEPT !.header.length = n % 65536]
MessageMarshal(m) ==
  LET ies == MarshalIEs(m.ies)
  IN  HeaderMarshal(WithLength(m, Len(ies)).header) \o ies

(* Message.Unmarshal of the slice s = [arr, len]: the header from the     *)
(* visible bytes, then data[headerLen : headerLen+MessageLength], which Go *)
(* allows up to the capacity (reading past len) and which panics beyond   *)
(* it.                                                                     *)
MessageUnmarshal(s) ==
  LET hd == HeaderUnmarshal(SubSeq(s.arr, 1, s.len))
  IN  IF hd.st # "ok" THEN Fail
      ELSE LET hl == HeaderLen(hd.val)
               hi == hl + hd.val.length
           IN  IF hi > Len(s.arr) THEN [st |-> "panic", val |-> <<>>]
               ELSE LET ies == ParseIEs(SubSeq(s.arr, hl + 1, hi))
                    IN  IF ies.st # "ok" THEN Fail
                        ELSE Ok([header |-> hd.val, ies |-> ies.val])

-----------------------------------------------------------------------------
(* receiveLoop                                                             *)

VARIABLES
  buf,    \* the read buffer, reused for every datagram
  got,    \* the datagram of the last ReadFromUDP
  sent,   \* ghost: <<m>> if got is the encoding of m, else <<>>
  last,   \* the result of Message.Unmarshal(buf[:n]) for it
  reads   \* datagrams read so far

codecVars == <<buf, got, sent, last, reads>>

CodecInit ==
  /\ buf = [i \in 1..BufCap |-> 0]
  /\ got = <<>>
  /\ sent = <<>>
  /\ last = [st |-> "none", val |-> <<>>]
  /\ reads = 0

(* One iteration: ReadFromUDP copies datagram d to the front of buf (the   *)
(* rest keeps the bytes of earlier datagrams), then Unmarshal(buf[:n]).    *)
(* An error skips the datagram; a panic ends the reader and the process.   *)
Receive(d, m) ==
  LET b == d \o SubSeq(buf, Len(d) + 1, BufCap)
  IN /\ last.st # "panic"
     /\ reads < MaxReads
     /\ Len(d) <= BufCap
     /\ buf' = b
     /\ got' = d
     /\ sent' = m
     /\ last' = MessageUnmarshal([arr |-> b, len |-> Len(d)])
     /\ reads' = reads + 1

(* ReadFromUDP hits its one-second deadline: continue, nothing changes.    *)
(* A panicked reader reads no more.                                        *)
ReadTimeout ==
  /\ last.st # "panic"
  /\ UNCHANGED codecVars

(* A peer encodes a message with Message.Marshal and sends it whole, or    *)
(* (a short write, or a peer with another encoder) only its first k bytes. *)
CodecNext ==
  \/ ReadTimeout
  \/ \E m \in Messages : Receive(MessageMarshal(m), <<m>>)
  \/ \E m \in PrefixOf :
       \E k \in 8..Len(MessageMarshal(m)) - 1 :
         Receive(SubSeq(MessageMarshal(m), 1, k), <<>>)

CodecSpec == CodecInit /\ [][CodecNext]_codecVars

-----------------------------------------------------------------------------
(* Properties.                                                             *)

CodecTypeOK ==
  /\ Len(buf) = BufCap /\ \A i \in 1..BufCap : buf[i] \in Byte
  /\ \A i \in 1..Len(got) : got[i] \in Byte
  /\ last.st \in {"none", "ok", "error", "panic"}
  /\ reads \in 0..MaxReads

(* Spec round-trip laws 1-3 through the real receive path: what           *)
(* receiveLoop decodes from a datagram that Message.Marshal produced is    *)
(* the message itself, with MessageLength the IE payload length, whatever *)
(* earlier datagrams left in the shared buffer.                            *)
DecodeInvertsEncode ==
  sent # <<>> =>
    /\ last.st = "ok"
    /\ last.val = WithLength(sent[1], Len(MarshalIEs(sent[1].ies)))

(* Spec law 4: Message.Unmarshal never panics and decodes a message only  *)
(* from the n bytes ReadFromUDP returned: the header and the              *)
(* MessageLength bytes of IEs lie within the datagram.                     *)
NoReadPastDatagram ==
  /\ last.st # "panic"
  /\ last.st = "ok" =>
       HeaderLen(last.val.header) + last.val.header.length <= Len(got)

=============================================================================
