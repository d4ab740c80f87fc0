---------------------------- MODULE OneShotCall ----------------------------
(***************************************************************************)
(* What a caller of http_transport_client::send_request_to_server relies   *)
(* on (src/include/cpprealm/networking/http.hpp): the completion block,    *)
(* which the bridge hands over as a raw pointer it has released            *)
(* (src/src/cpprealm/internal/networking/shims.cpp), is run once before    *)
(* the call returns, or never if the call throws.  HttpTransport           *)
(* implements this specification.                                          *)
(***************************************************************************)
CONSTANTS Requests, Results, NoResult

VARIABLES status,  \* status[r]: "unsent", "called", "completed", "returned", "thrown"
          result   \* result[r]: what the completion block was given

vars == <<status, result>>

Init ==
    /\ status = [r \in Requests |-> "unsent"]
    /\ result = [r \in Requests |-> NoResult]

Call(r) ==
    /\ status[r] = "unsent"
    /\ status' = [status EXCEPT ![r] = "called"]
    /\ UNCHANGED result

Complete(r) ==
    /\ status[r] = "called"
    /\ status' = [status EXCEPT ![r] = "completed"]
    /\ \E x \in Results : result' = [result EXCEPT ![r] = x]

Return(r) ==
    /\ status[r] = "completed"
    /\ status' = [status EXCEPT ![r] = "returned"]
    /\ UNCHANGED result

Throw(r) ==
    /\ status[r] = "called"
    /\ status' = [status EXCEPT ![r] = "thrown"]
    /\ UNCHANGED result

Next == \E r \in Requests : Call(r) \/ Complete(r) \/ Return(r) \/ Throw(r)

Spec == Init /\ [][Next]_vars
=============================================================================
