--------------------------- MODULE Fws_refinement ---------------------------
(***************************************************************************)
(* Module Fws implements module Server, which knows nothing of its peers,  *)
(* and module Rpc, which knows nothing of servers and connections: every   *)
(* step of Fws is a step of either or leaves what it speaks of alone.      *)
(***************************************************************************)
EXTENDS Fws_proofs

-----------------------------------------------------------------------------
(* The server among its clients does what module Server says of it alone.  *)
THEOREM FwsImplementsServer == Spec => ImplementsServer
<1>1. Init => S!Init
  <2>1. ASSUME Init PROVE ServerPc = "bind" /\ Readable = {} /\ Len(waiting) = 0
    <3>1. \A c \in Client : cfd[c] = 0
      BY <2>1 DEF Init
    <3>2. QED
      BY <2>1, <3>1 DEF Init, ServerPc, Readable
  <2>2. QED
    BY <2>1 DEF Init, S!Init
<1>2. QED
  BY <1>1, StepsAreServers, Inductive, PTL DEF Spec, ImplementsServer, S!Spec

Phase == [c \in Client |-> IF cpc[c] \in InCall THEN "called"
                           ELSE IF cpc[c] \in Gone THEN "gone" ELSE "idle"]

(* A step that neither moves a client into or out of a call nor touches    *)
(* what became of one.                                                     *)
LEMMA CallsRest ==
  ASSUME UNCHANGED <<result, status, value>>,
         \A c \in Client : /\ cpc'[c] \in InCall <=> cpc[c] \in InCall
                           /\ cpc'[c] \in Gone <=> cpc[c] \in Gone
  PROVE  UNCHANGED R!vars
  BY DEF R!vars

LEMMA ServeIsRun == IInv /\ fws_server_serve => R!Next
<1> SUFFICES ASSUME IInv, fws_server_serve PROVE R!Next
  OBVIOUS
<1>1. PICK p \in Peer :
        /\ c2s[p] # <<>>
        /\ \/ status' = [status EXCEPT ![p] = "refused"] /\ value' = value
           \/ /\ Head(c2s[p]).kind = "body"
              /\ \E i \in Dispatch(Head(c2s[p]).type), outcome \in Outcome :
                   value' = [value EXCEPT ![p] = IF outcome = "output"
                              THEN <<i, Head(c2s[p]).type, Head(c2s[p]).data>> ELSE <<>>]
              /\ status' = [status EXCEPT ![p] = "run"]
  BY DEF fws_server_serve
<1>2. p \in Client /\ Consistent(p) /\ OwnTypes
  BY DEF IInv, TypeOK, OwnTypes, Peer
<1>3. status[p] = "pending"
  BY <1>1, <1>2 DEF Consistent, Open
<1>4. UNCHANGED <<cpc, result>>
  BY DEF fws_server_serve, clients
<1>5. CASE status' = [status EXCEPT ![p] = "refused"] /\ value' = value
  BY <1>2, <1>3, <1>4, <1>5 DEF R!Next, R!Refuse
<1>6. CASE status' = [status EXCEPT ![p] = "run"]
  <2>1. status' # [status EXCEPT ![p] = "refused"]
    BY <1>2, <1>6 DEF OwnTypes
  <2>2. PICK i \in Dispatch(Head(c2s[p]).type), outcome \in Outcome :
              value' = [value EXCEPT ![p] = IF outcome = "output"
                         THEN <<i, Head(c2s[p]).type, Head(c2s[p]).data>> ELSE <<>>]
    BY <1>1, <2>1
  <2>3. Head(c2s[p]) \in {SIZE} \cup RequestFrame /\ Head(c2s[p]).kind = "body"
    BY <1>1, <1>2, <2>1, RemainderTyped DEF OwnTypes
  <2>4. <<i, Head(c2s[p]).type, Head(c2s[p]).data>> \in Run
    BY <2>3, ServedFrame
  <2>5. \E v \in Run \cup {<<>>} : value' = [value EXCEPT ![p] = v]
    BY <2>2, <2>4
  <2>6. R!Run(p)
    BY <1>3, <1>4, <1>6, <2>5 DEF R!Run
  <2>7. QED
    BY <1>2, <2>6 DEF R!Next
<1>7. QED
  BY <1>1, <1>5, <1>6

LEMMA ClientStepsAreRpcs ==
  ASSUME IInv, NEW c \in Client, ClientStep(c)
  PROVE  [R!Next]_(R!vars)
<1>1. Consistent(c) /\ OwnTypes
  BY DEF IInv, TypeOK, OwnTypes
<1>2. InCall = {"sending", "waiting", "sized"} /\ Gone = {"left", "killed"}
  BY DEF InCall, Gone
<1>3. CASE fws_client_connect(c) \/ client_send_msg(c) \/ client_recv_size(c)
  <2>1. UNCHANGED <<result, status, value>>
    BY <1>3 DEF fws_client_connect, client_send_msg, client_recv_size, history
  <2>2. \A d \in Client : /\ cpc'[d] \in InCall <=> cpc[d] \in InCall
                          /\ cpc'[d] \in Gone <=> cpc[d] \in Gone
    BY <1>1, <1>2, <1>3 DEF fws_client_connect, client_send_msg, client_recv_size, OwnTypes
  <2>3. QED
    BY <2>1, <2>2, CallsRest
<1>4. CASE fws_client_connect_fails(c) \/ fws_client_call_oversized(c) \/ fws_client_done(c)
           \/ client_crash(c) \/ client_send_msg_killed(c)
  <2>1. /\ UNCHANGED <<result, status, value>>
        /\ cpc[c] \notin Gone
        /\ \A d \in Client : IF d = c THEN cpc'[d] \in Gone ELSE cpc'[d] = cpc[d]
    BY <1>1, <1>2, <1>4
    DEF fws_client_connect_fails, fws_client_call_oversized, fws_client_done, client_crash,
        client_send_msg_killed, history, OwnTypes
  <2>2. Phase' = [Phase EXCEPT ![c] = "gone"] /\ Phase[c] # "gone"
    BY <1>2, <2>1 DEF Phase
  <2>3. R!Leave(c)
    BY <2>1, <2>2 DEF R!Leave, Phase
  <2>4. QED
    BY <2>3 DEF R!Next
<1>5. CASE fws_client_call(c)
  <2>1. /\ cpc[c] = "open" /\ cpc' = [cpc EXCEPT ![c] = "sending"]
        /\ result' = [result EXCEPT ![c] = <<>>]
        /\ status' = [status EXCEPT ![c] = "pending"]
        /\ value' = [value EXCEPT ![c] = <<>>]
    BY <1>5 DEF fws_client_call
  <2>2. Phase' = [Phase EXCEPT ![c] = "called"] /\ Phase[c] = "idle"
    BY <1>1, <1>2, <2>1 DEF Phase, OwnTypes
  <2>3. R!Call(c)
    BY <2>1, <2>2 DEF R!Call, Phase
  <2>4. QED
    BY <2>3 DEF R!Next
<1>6. CASE client_recv_fails(c)
  <2>1. /\ cpc[c] \in {"waiting", "sized"} /\ cpc' = [cpc EXCEPT ![c] = "open"]
        /\ status' = [status EXCEPT ![c] = IF @ = "pending" THEN "lost" ELSE @]
        /\ UNCHANGED <<value, result>>
    BY <1>6 DEF client_recv_fails, Returned
  <2>2. Phase' = [Phase EXCEPT ![c] = "idle"] /\ Phase[c] = "called"
    BY <1>1, <1>2, <2>1 DEF Phase, OwnTypes
  <2>3. R!ReturnError(c)
    BY <2>1, <2>2 DEF R!ReturnError, Phase
  <2>4. QED
    BY <2>3 DEF R!Next
<1>7. CASE client_recv_msg(c)
  <2>1. /\ cpc[c] = "sized" /\ cpc' = [cpc EXCEPT ![c] = "open"]
        /\ s2c[c] # <<>>
        /\ IF Head(s2c[c]).kind = "body"
           THEN result' = [result EXCEPT ![c] = Head(s2c[c]).data]
           ELSE UNCHANGED result
        /\ status' = [status EXCEPT ![c] = IF @ = "pending" THEN "lost" ELSE @]
        /\ UNCHANGED value
    BY <1>7 DEF client_recv_msg, Returned
  <2>2. Phase' = [Phase EXCEPT ![c] = "idle"] /\ Phase[c] = "called"
    BY <1>1, <1>2, <2>1 DEF Phase, OwnTypes
  <2>3. PICK f \in ReplyTo(c) : s2c[c] = <<f>>
    BY <1>1, <2>1 DEF Consistent, Turn, TurnSized, Silent
  <2>4. Head(s2c[c]) = f
    BY <2>3, ShortQueues
  <2>5. CASE f.kind = "body"
    <3>1. status[c] = "run" /\ f.data = value[c] /\ f \in ResponseFrame
      BY <2>5 DEF ReplyTo
    <3>2. f.data # <<>>
      <4>1. f.data \in Run
        BY <2>5, <3>1 DEF ResponseFrame, Fault
      <4>2. PICK i \in DOMAIN FuncList, u \in Type, x \in Client \X (1 .. CallNumbers) :
              f.data = <<i, u, x>>
        BY <4>1 DEF Run
      <4>3. <<i, u, x>> # <<>>
        OBVIOUS
      <4>4. QED
        BY <4>2, <4>3
    <3>3. status' = status
      BY <1>1, <2>1, <3>1 DEF OwnTypes
    <3>4. R!ReturnOk(c)
      BY <2>1, <2>2, <2>4, <2>5, <3>1, <3>2, <3>3 DEF R!ReturnOk, Phase
    <3>5. QED
      BY <3>4 DEF R!Next
  <2>6. CASE f.kind # "body"
    <3>1. R!ReturnError(c)
      BY <2>1, <2>2, <2>4, <2>6 DEF R!ReturnError, Phase
    <3>2. QED
      BY <3>1 DEF R!Next
  <2>7. QED
    BY <2>5, <2>6
<1>8. QED
  BY <1>3, <1>4, <1>5, <1>6, <1>7 DEF ClientStep, CallStep

(* A call runs a callback at most once and before it returns, and RET_OK   *)
(* returns what that run computed.                                         *)
THEOREM FwsImplementsRpc == Spec => ImplementsRpc
<1>1. Init => R!Init
  BY DEF Init, R!Init, InCall, Gone
<1>2. ASSUME IInv, [Next]_vars PROVE [R!Next]_(R!vars)
  <2>1. CASE UNCHANGED <<cpc, result, status, value>>
    BY <2>1, CallsRest
  <2>2. CASE fws_server_serve
    BY <1>2, <2>2, ServeIsRun
  <2>3. CASE \E c \in Client : ClientStep(c)
    BY <1>2, <2>3, ClientStepsAreRpcs
  <2>4. QED
    BY <1>2, <2>1, <2>2, <2>3
    DEF Next, ServerStep, vars, clients, history, fws_server_bind, select, pick_active,
        accept, accept_fails, serve_nobody, connection_recv_size, server_close_connection,
        connection_send_size, server_send_msg, server_send_msg_killed, fws_done
<1>3. QED
  BY <1>1, <1>2, Inductive, PTL DEF Spec, ImplementsRpc, R!Spec
=============================================================================
