----------------------------- MODULE CpNorthbound -----------------------------
(***************************************************************************)
(* The CP's northbound session calls (pkg/cp/cp.go CreateSession and      *)
(* DeleteSession, reached through grpc.go from concurrent gRPC goroutines) *)
(* and the persistence hook they update, MemoryStore (northbound.go).     *)
(*                                                                         *)
(* cp.sessions is guarded by cp.mu; MemoryStore.sessions is a plain Go    *)
(* map written after cp.mu is released.  A Go map write sets the          *)
(* hashWriting flag for its duration, and a write that starts while       *)
(* another is in progress makes the runtime throw "concurrent map writes", *)
(* which ends the process: a map write is two steps, and overlapping ones *)
(* crash the CP.                                                           *)
(*                                                                         *)
(* The exchange with the UPF is what PfcpRequestReply promises: the call   *)
(* returns accepted, or anything else (a rejection, no Cause, an error).   *)
(* The association to the UPF is present throughout; sessions are their   *)
(* SEIDs.  Any client may name any SEID in DeleteSession: they are         *)
(* handed out in sequence.                                                 *)
(***************************************************************************)
EXTENDS Naturals, FiniteSets

CONSTANTS
  ApiCaller,   \* gRPC goroutines calling CreateSession / DeleteSession
  MaxCalls     \* bound on API calls, and so on the SEIDs allocated

VARIABLES
  sessions,    \* keys of cp.sessions
  store,       \* keys of MemoryStore.sessions
  writers,     \* goroutines inside a write of the MemoryStore map
  crashed,     \* the runtime threw "concurrent map writes"
  nextSEID,    \* cp.nextSEID
  pc,          \* pc[g]: where goroutine g is in its API call
  seid,        \* seid[g]: the SEID of g's call
  calls        \* API calls made so far

nbVars == <<sessions, store, writers, crashed, nextSEID, pc, seid, calls>>

SEID == 1..MaxCalls

Init ==
  /\ sessions = {}
  /\ store = {}
  /\ writers = {}
  /\ crashed = FALSE
  /\ nextSEID = 1
  /\ pc = [g \in ApiCaller |-> "idle"]
  /\ seid = [g \in ApiCaller |-> 0]
  /\ calls = 0

(* An API call starts only in a live process and within the bound.         *)
StartCall(g) ==
  /\ ~crashed
  /\ pc[g] = "idle"
  /\ calls < MaxCalls
  /\ calls' = calls + 1

(* CreateSession up to SendRequest: the association is found under the    *)
(* read lock, allocSEID takes cp.nextSEID under the lock, the rules are   *)
(* marshalled and the request is sent.                                     *)
CreateSession(g) ==
  /\ StartCall(g)
  /\ seid' = [seid EXCEPT ![g] = nextSEID]
  /\ nextSEID' = nextSEID + 1
  /\ pc' = [pc EXCEPT ![g] = "createWait"]
  /\ UNCHANGED <<sessions, store, writers, crashed>>

(* CreateSession after SendRequest: anything but RequestAccepted returns  *)
(* an error; otherwise the session goes into cp.sessions under cp.mu,     *)
(* which is released before StoreSession.                                  *)
CreateSessionReturn(g) ==
  /\ ~crashed
  /\ pc[g] = "createWait"
  /\ \/ /\ sessions' = sessions \cup {seid[g]}
        /\ pc' = [pc EXCEPT ![g] = "storeSession"]
     \/ /\ UNCHANGED sessions
        /\ pc' = [pc EXCEPT ![g] = "idle"]
  /\ UNCHANGED <<store, writers, crashed, nextSEID, seid, calls>>

(* DeleteSession up to SendRequest: a SEID missing from cp.sessions (read *)
(* lock) is an error and nothing changes; otherwise the deletion request  *)
(* for its RemoteSEID is sent.                                             *)
DeleteSession(g, s) ==
  /\ StartCall(g)
  /\ \/ /\ s \notin sessions
        /\ UNCHANGED <<pc, seid>>
     \/ /\ s \in sessions
        /\ seid' = [seid EXCEPT ![g] = s]
        /\ pc' = [pc EXCEPT ![g] = "deleteWait"]
  /\ UNCHANGED <<sessions, store, writers, crashed, nextSEID>>

(* DeleteSession after SendRequest: anything but RequestAccepted returns  *)
(* an error; otherwise the session leaves cp.sessions under cp.mu, then   *)
(* the store's DeleteSession runs unlocked.                                *)
DeleteSessionReturn(g) ==
  /\ ~crashed
  /\ pc[g] = "deleteWait"
  /\ \/ /\ sessions' = sessions \ {seid[g]}
        /\ pc' = [pc EXCEPT ![g] = "storeDelete"]
     \/ /\ UNCHANGED sessions
        /\ pc' = [pc EXCEPT ![g] = "idle"]
  /\ UNCHANGED <<store, writers, crashed, nextSEID, seid, calls>>

(* MemoryStore.StoreSession / DeleteSession begin their map write: with   *)
(* no write in progress the goroutine holds hashWriting; otherwise the    *)
(* runtime throws and the process is gone.                                 *)
BeginStoreWrite(g) ==
  /\ ~crashed
  /\ pc[g] \in {"storeSession", "storeDelete"}
  /\ \/ /\ writers = {}
        /\ writers' = {g}
        /\ pc' = [pc EXCEPT ![g] = IF @ = "storeSession" THEN "inStoreSession"
                                                          ELSE "inStoreDelete"]
        /\ UNCHANGED crashed
     \/ /\ writers # {}
        /\ crashed' = TRUE
        /\ UNCHANGED <<writers, pc>>
  /\ UNCHANGED <<sessions, store, nextSEID, seid, calls>>

(* The map write completes (m.sessions[seid] = session, or delete), the   *)
(* flag is cleared and the API call returns.                               *)
EndStoreWrite(g) ==
  /\ ~crashed
  /\ pc[g] \in {"inStoreSession", "inStoreDelete"}
  /\ store' = IF pc[g] = "inStoreSession" THEN store \cup {seid[g]}
                                          ELSE store \ {seid[g]}
  /\ writers' = writers \ {g}
  /\ pc' = [pc EXCEPT ![g] = "idle"]
  /\ UNCHANGED <<sessions, crashed, nextSEID, seid, calls>>

Next ==
  \E g \in ApiCaller :
    \/ CreateSession(g)
    \/ CreateSessionReturn(g)
    \/ \E s \in SEID : DeleteSession(g, s)
    \/ DeleteSessionReturn(g)
    \/ BeginStoreWrite(g)
    \/ EndStoreWrite(g)

Spec == Init /\ [][Next]_nbVars

-----------------------------------------------------------------------------
(* Properties.                                                             *)

(* The CP process survives concurrent northbound calls: no two writes of  *)
(* the MemoryStore map, from StoreSession and DeleteSession of different   *)
(* gRPC goroutines, ever overlap.                                          *)
NoConcurrentMapWrite == ~crashed

(* The goroutines between their cp.sessions update and their store update.*)
Updating == {g \in ApiCaller :
               pc[g] \in {"storeSession", "inStoreSession", "storeDelete", "inStoreDelete"}}

(* The persistence hook mirrors cp.sessions: whenever no API call is       *)
(* between updating cp.sessions and updating the store, the store holds    *)
(* exactly the CP's sessions, whatever order concurrent CreateSession and *)
(* DeleteSession calls for the same SEID take.                             *)
StoreMirrorsSessions ==
  ~crashed /\ Updating = {} => store = sessions

=============================================================================
