--------------------------- MODULE PfcpRequestReply ---------------------------
(***************************************************************************)
(* What the transport promises a goroutine that calls SendRequest (spec    *)
(* section 5, "Retransmission", "Receive path", "Ordering guarantees"),    *)
(* with retransmission, the pending map and the response slot hidden.      *)
(*                                                                         *)
(* A call sends one request, numbered apart from every other request its   *)
(* node has in flight, then returns exactly once: with a datagram that     *)
(* reached the caller's node carrying the request's sequence number, or   *)
(* with an error.  Every call returns.  The network only grows: handlers   *)
(* and peers may send anything at any time.                                *)
(*                                                                         *)
(* The promise is the one the code keeps: the answer is matched by         *)
(* sequence number and destination only.  Spec section 5 says the response *)
(* goes to its requester; that stronger promise fails (finding F2).        *)
(***************************************************************************)
EXTENDS Naturals

CONSTANTS
  Node, Caller, NodeOf,
  SeqNo       \* the sequence numbers a request may carry

(* The transport tells datagrams apart by destination and sequence number *)
(* only, so a datagram here is that pair; NoDatagram is the empty result.  *)
Datagram == Node \X SeqNo
NoDatagram == <<>>

VARIABLES
  call,   \* call[c]: the SendRequest call of goroutine c
  net     \* every datagram ever sent

rrVars == <<call, net>>

IdleCall == [st |-> "idle", seq |-> 0, result |-> NoDatagram, err |-> "none"]

InFlightSeqs(n) == {call[d].seq : d \in {d \in Caller : call[d].st = "wait"
                                                      /\ NodeOf[d] = n}}

RRInit ==
  /\ call = [c \in Caller |-> IdleCall]
  /\ net = {}

(* A call starts: its request to node d, with a sequence number no other  *)
(* waiting call of the node holds, is sent; or the first write fails and   *)
(* the call returns the error at once.                                     *)
Call(c, d, s) ==
  /\ call[c].st = "idle"
  /\ s \notin InFlightSeqs(NodeOf[c])
  /\ \/ /\ net' = net \cup {<<d, s>>}
        /\ call' = [call EXCEPT ![c] = [IdleCall EXCEPT !.st = "wait", !.seq = s]]
     \/ /\ UNCHANGED net
        /\ call' = [call EXCEPT ![c] = [IdleCall EXCEPT !.st = "done", !.seq = s,
                                                        !.err = "send"]]

(* The call returns the answer: a datagram sent to the caller's node with  *)
(* the request's sequence number.                                          *)
Answer(c) ==
  /\ call[c].st = "wait"
  /\ <<NodeOf[c], call[c].seq>> \in net
  /\ call' = [call EXCEPT ![c] = [@ EXCEPT !.st = "done",
                                           !.result = <<NodeOf[c], call[c].seq>>]]
  /\ UNCHANGED net

(* The call returns an error: retries used up, or a resend failed.         *)
Fail(c) ==
  /\ call[c].st = "wait"
  /\ \E e \in {"maxRetries", "send"} :
       call' = [call EXCEPT ![c] = [@ EXCEPT !.st = "done", !.err = e]]
  /\ UNCHANGED net

Return(c) == Answer(c) \/ Fail(c)

(* The goroutine takes the result and may call again.                      *)
Finish(c) ==
  /\ call[c].st = "done"
  /\ call' = [call EXCEPT ![c] = IdleCall]
  /\ UNCHANGED net

(* Handlers, peers and retransmissions put datagrams on the network.       *)
Transmit(g) ==
  /\ net' = net \cup {g}
  /\ UNCHANGED call

RRNext ==
  \/ \E c \in Caller :
       \/ \E d \in Node, s \in SeqNo : Call(c, d, s)
       \/ Return(c)
       \/ Finish(c)
  \/ \E g \in Datagram : Transmit(g)

(* Every call returns, and a returned goroutine goes on.                   *)
RRSpec ==
  /\ RRInit /\ [][RRNext]_rrVars
  /\ \A c \in Caller : WF_rrVars(Return(c)) /\ WF_rrVars(Finish(c))

=============================================================================
