-------------------------------- MODULE Rpc --------------------------------
(***************************************************************************)
(* What fws_client_call promises its caller, without server, connection or *)
(* message: a call runs a callback of the server at most once and before   *)
(* it returns, and RET_OK delivers what that run of that call computed.    *)
(***************************************************************************)
CONSTANTS Client, Value, NoValue

VARIABLES
  phase,   (* where each client stands: between calls, in one, or gone     *)
  status,  (* what became of its last call at the server                   *)
  value,   (* what the callback computed for it                            *)
  result   (* what it returned                                             *)

vars == <<phase, status, value, result>>

Init ==
  /\ phase = [c \in Client |-> "idle"]
  /\ status = [c \in Client |-> "none"]
  /\ value = [c \in Client |-> NoValue]
  /\ result = [c \in Client |-> NoValue]

Call(c) ==
  /\ phase[c] = "idle"
  /\ phase' = [phase EXCEPT ![c] = "called"]
  /\ status' = [status EXCEPT ![c] = "pending"]
  /\ value' = [value EXCEPT ![c] = NoValue]
  /\ result' = [result EXCEPT ![c] = NoValue]

(* The callback runs; the client may be gone by now, but the call has not  *)
(* returned.  One that fails computes nothing.                             *)
Run(c) ==
  /\ status[c] = "pending"
  /\ status' = [status EXCEPT ![c] = "run"]
  /\ \E v \in Value \cup {NoValue} : value' = [value EXCEPT ![c] = v]
  /\ UNCHANGED <<phase, result>>

Refuse(c) ==
  /\ status[c] = "pending"
  /\ status' = [status EXCEPT ![c] = "refused"]
  /\ UNCHANGED <<phase, value, result>>

ReturnOk(c) ==
  /\ phase[c] = "called"
  /\ status[c] = "run"
  /\ value[c] # NoValue
  /\ phase' = [phase EXCEPT ![c] = "idle"]
  /\ result' = [result EXCEPT ![c] = value[c]]
  /\ UNCHANGED <<status, value>>

(* An error leaves it open whether the callback ran, but it will not run   *)
(* any more.                                                               *)
ReturnError(c) ==
  /\ phase[c] = "called"
  /\ phase' = [phase EXCEPT ![c] = "idle"]
  /\ status' = [status EXCEPT ![c] = IF @ = "pending" THEN "lost" ELSE @]
  /\ UNCHANGED <<value, result>>

Leave(c) ==
  /\ phase[c] # "gone"
  /\ phase' = [phase EXCEPT ![c] = "gone"]
  /\ UNCHANGED <<status, value, result>>

Next == \E c \in Client : \/ Call(c) \/ Run(c) \/ Refuse(c)
                          \/ ReturnOk(c) \/ ReturnError(c) \/ Leave(c)

Spec == Init /\ [][Next]_vars
=============================================================================
