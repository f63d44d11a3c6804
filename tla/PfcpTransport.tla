--------------------------- MODULE PfcpTransport ---------------------------
(***************************************************************************)
(* The reliable request/response layer of pkg/protocol/transport.go.       *)
(*                                                                         *)
(* Every node owns one Transport: a 24-bit sequence counter, the map       *)
(* pending from sequence number to the request waiting for it, and one     *)
(* reader goroutine.  Callers block in SendRequest: the request is         *)
(* numbered, registered in pending and sent; then the caller selects on    *)
(* its one-slot response channel and a T1 timer, retransmitting the same   *)
(* datagram until N1 timer expiries.  The reader looks every parsed        *)
(* datagram up in pending by sequence number ONLY, whatever its type or    *)
(* sender: if found it goes to the waiting caller's slot, otherwise to the *)
(* handler registered for its type (the handlers belong to the modules     *)
(* that extend this one).                                                  *)
(*                                                                         *)
(* UDP is the set msgs of every datagram ever sent: a datagram can be      *)
(* received any number of times (duplication), in any order, or never      *)
(* (loss).                                                                 *)
(***************************************************************************)
EXTENDS Naturals, FiniteSets

CONSTANTS
  Node,       \* the nodes, one Transport each
  Caller,     \* goroutines that call SendRequest
  NodeOf,     \* NodeOf[c]: the node whose Transport caller c uses
  SeqMax,     \* largest sequence number before the wrap to 1 (0xFFFFFF)
  N1,         \* maxRetries passed to SendRequest
  NoCaller,   \* model value: no request registered for a sequence number
  NoMsg       \* model value: empty response slot / no response

ASSUME SeqMax \in Nat \ {0}
ASSUME N1 \in Nat \ {0}
ASSUME NodeOf \in [Caller -> Node]

VARIABLES
  seqNum,   \* seqNum[n]: Transport.seqNum of node n
  pending,  \* pending[n][s]: the caller whose request holds sequence s
  req,      \* req[c]: caller c's SendRequest call (pendingRequest + result)
  msgs      \* every datagram ever written to the UDP socket

transportVars == <<seqNum, pending, req, msgs>>

SeqNo == 1..SeqMax

(* The states of a SendRequest call: not in one, blocked in the select     *)
(* loop, or returned (result is the response, or NoMsg with err set).      *)
IdleReq == [st |-> "idle", msg |-> NoMsg, attempts |-> 0, tx |-> 0,
            slot |-> NoMsg, result |-> NoMsg, err |-> "none"]

TransportTypeOK(Msg) ==
  /\ seqNum \in [Node -> SeqNo]
  /\ pending \in [Node -> [SeqNo -> Caller \cup {NoCaller}]]
  /\ msgs \subseteq Msg
  /\ \A c \in Caller :
       \/ req[c] = IdleReq
       \/ /\ req[c].st \in {"wait", "done"}
          /\ req[c].msg \in Msg
          /\ req[c].attempts \in 0..N1
          /\ req[c].tx \in 0..N1 + 1
          /\ req[c].slot \in Msg \cup {NoMsg}
          /\ req[c].result \in Msg \cup {NoMsg}
          /\ req[c].err \in {"none", "send", "maxRetries"}

TransportInit ==
  /\ seqNum = [n \in Node |-> 1]
  /\ pending = [n \in Node |-> [s \in SeqNo |-> NoCaller]]
  /\ req = [c \in Caller |-> IdleReq]
  /\ msgs = {}

(* Fault variant of NextSeqNum: the wrap tests s + 1 >= SeqMax, so the    *)
(* counter never reaches SeqMax.                                           *)
NextSeqNumEarlyWrap(s) == IF s + 1 >= SeqMax THEN 1 ELSE s + 1

(* nextSeqNum: hand out the counter and advance it, wrapping after SeqMax  *)
(* to 1.  Nothing checks whether the next number is still pending.         *)
NextSeqNum(s) == IF s + 1 > SeqMax THEN 1 ELSE s + 1

(* The datagram a node writes: WriteToUDP adds it to the network.          *)
Send(m) == msgs' = msgs \cup {m}

(* Fault variant of Return: the deferred delete is missing.                *)
ReturnKeepsPending(c, result, err) ==
  /\ UNCHANGED pending
  /\ req' = [req EXCEPT ![c] = [@ EXCEPT !.st = "done", !.result = result,
                                          !.err = err]]

(* SendRequest returns: the deferred delete(t.pending, seq) removes        *)
(* whatever entry holds the sequence number, even one that a later request *)
(* wrote over it.                                                          *)
Return(c, result, err) ==
  /\ pending' = [pending EXCEPT ![NodeOf[c]][req[c].msg.seq] = NoCaller]
  /\ req' = [req EXCEPT ![c] = [@ EXCEPT !.st = "done", !.result = result,
                                          !.err = err]]

(* SendRequest up to the first send: number the request, register it in   *)
(* pending, write it.  A failed write returns at once (the deferred delete *)
(* runs).  Called by the caller's own action, which builds m.              *)
SendRequest(c, m) ==
  LET n   == NodeOf[c]
      out == [m EXCEPT !.seq = seqNum[n]]
  IN /\ req[c] = IdleReq
     /\ seqNum' = [seqNum EXCEPT ![n] = NextSeqNum(@)]
     /\ \/ /\ Send(out)
           /\ pending' = [pending EXCEPT ![n][out.seq] = c]
           /\ req' = [req EXCEPT ![c] = [IdleReq EXCEPT !.st = "wait",
                                           !.msg = out, !.tx = 1]]
        \/ /\ UNCHANGED <<msgs, pending>>
           /\ req' = [req EXCEPT ![c] = [IdleReq EXCEPT !.st = "done",
                                           !.msg = out, !.err = "send"]]

(* The select picks the response channel.                                  *)
ReceiveResponse(c) ==
  /\ req[c].st = "wait"
  /\ req[c].slot # NoMsg
  /\ Return(c, req[c].slot, "none")
  /\ UNCHANGED <<seqNum, msgs>>

(* Fault variant of RetryTimer: gives up only when attempts > N1.          *)
RetryTimerOffByOne(c) ==
  LET attempts == req[c].attempts + 1
  IN /\ req[c].st = "wait"
     /\ IF attempts > N1
          THEN /\ Return(c, NoMsg, "maxRetries")
               /\ UNCHANGED msgs
          ELSE /\ Send(req[c].msg)
               /\ req' = [req EXCEPT ![c].attempts = attempts,
                                     ![c].tx = IF @ > N1 THEN @ ELSE @ + 1]
               /\ UNCHANGED pending
     /\ UNCHANGED seqNum

(* Fault variant of RetryTimer: retryTimer.Reset is missing, so the timer  *)
(* fires once per call.                                                    *)
RetryTimerNoReset(c) ==
  LET attempts == req[c].attempts + 1
  IN /\ req[c].st = "wait"
     /\ req[c].attempts = 0
     /\ IF attempts >= N1
          THEN /\ Return(c, NoMsg, "maxRetries")
               /\ UNCHANGED msgs
          ELSE /\ Send(req[c].msg)
               /\ req' = [req EXCEPT ![c].attempts = attempts,
                                     ![c].tx = IF @ > N1 THEN @ ELSE @ + 1]
               /\ UNCHANGED pending
     /\ UNCHANGED seqNum

(* The select picks the T1 timer, which Go may do even when a response is  *)
(* already in the slot.  attempts++; give up at N1, else resend the same   *)
(* datagram (same sequence number) or return the write error.              *)
RetryTimer(c) ==
  LET attempts == req[c].attempts + 1
  IN /\ req[c].st = "wait"
     /\ IF attempts >= N1
          THEN /\ Return(c, NoMsg, "maxRetries")
               /\ UNCHANGED msgs
          ELSE \/ /\ Send(req[c].msg)
                  /\ req' = [req EXCEPT ![c].attempts = attempts,
                                        ![c].tx = IF @ > N1 THEN @ ELSE @ + 1]
                  /\ UNCHANGED pending
               \/ /\ Return(c, NoMsg, "send")
                  /\ UNCHANGED msgs
     /\ UNCHANGED seqNum

(* handleMessage, first branch: the datagram's sequence number is pending  *)
(* at its destination, so it is pushed into that request's one-slot        *)
(* channel without blocking (dropped if the slot is full), whatever its    *)
(* message type.                                                           *)
DeliverToPending(m) ==
  LET c == pending[m.dst][m.seq]
  IN /\ m \in msgs
     /\ c # NoCaller
     /\ req[c].slot = NoMsg
     /\ req' = [req EXCEPT ![c].slot = m]
     /\ UNCHANGED <<seqNum, pending, msgs>>

(* handleMessage, second branch: nobody waits for this sequence number, so *)
(* the handler registered for the type runs.                               *)
Dispatchable(m, n, type) ==
  /\ m \in msgs
  /\ m.dst = n
  /\ m.type = type
  /\ pending[n][m.seq] = NoCaller

(* The caller consumes the result of its SendRequest call.                 *)
Consume(c) == req' = [req EXCEPT ![c] = IdleReq]

TransportNext ==
  \/ \E c \in Caller : ReceiveResponse(c) \/ RetryTimer(c)
  \/ \E m \in msgs : DeliverToPending(m)

=============================================================================
