---------------------------- MODULE VRFConsumer ----------------------------
(***************************************************************************)
(* The BlockTicVRF contract: requests for random words, their fulfilment   *)
(* by the coordinator, and lastRequestId, which the backend reads back in  *)
(* a call of its own.  The coordinator's ids are unique; here they count.  *)
(***************************************************************************)
EXTENDS Naturals

CONSTANTS
    Words,         \* random words the coordinator may deliver
    MaxRequests    \* bound: requests ever made

ASSUME MaxRequestsAssumption == MaxRequests \in Nat

(* fulfilled is a flag beside the word, never a value of it.               *)
ASSUME WordsAssumption == {"none", "pending"} \cap Words = {}

VARIABLES
    requests,        \* requests[i]: "none", "pending", or the word delivered
    lastRequestId    \* 0 before the first request

vrfVars == <<requests, lastRequestId>>

RequestIds == 1..MaxRequests

VrfInit ==
    /\ requests = [i \in RequestIds |-> "none"]
    /\ lastRequestId = 0

(* The transaction requestRandomWords, mined.                              *)
RequestRandomWords ==
    /\ lastRequestId < MaxRequests
    /\ lastRequestId' = lastRequestId + 1
    /\ requests' = [requests EXCEPT ![lastRequestId + 1] = "pending"]

(* The coordinator's callback; a second one for the same id reverts.       *)
RawFulfillRandomWords(i, word) ==
    /\ requests[i] = "pending"
    /\ requests' = [requests EXCEPT ![i] = word]
    /\ UNCHANGED lastRequestId

Fulfilled(i) == requests[i] \in Words

VrfTypeOK ==
    /\ requests \in [RequestIds -> Words \cup {"none", "pending"}]
    /\ lastRequestId \in 0..MaxRequests
=============================================================================
