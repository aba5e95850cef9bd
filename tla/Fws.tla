-------------------------------- MODULE Fws --------------------------------
(***************************************************************************)
(* fws/fws.c: clients that connect and call, and the server of module      *)
(* Server that serves them one message at a time.  A connection is a pair  *)
(* of byte streams in which every frame is two sends, its size and its     *)
(* bytes; each is received by one recv() that gets all of it (what short   *)
(* reads do is not part of this module).                                   *)
(*                                                                         *)
(* Every step is one system call with the code up to the next one.  The    *)
(* steps of the server are those of module Server joined to what they do   *)
(* to the streams.                                                         *)
(***************************************************************************)
EXTENDS Integers, FiniteSets, SequencesExt

CONSTANTS
  Client,     (* client contexts, each connects at most once               *)
  CallNumbers,  (* bound: calls are numbered up to this, then from 1 again *)
  Name,       (* names of functions: sequences of symbols                  *)
  Type,       (* the ones that clients put into their requests             *)
  Oversized,  (* the ones that do not fit into the buffer of a request     *)
  FuncList,   (* ctx->func_list: the ones that are served                  *)
  Outcome,    (* how callbacks end                                         *)
  OddFrame,   (* envelopes other than a request that a peer may send       *)
  Fd, Info, NULL, Backlog, MayFail  (* as in module Server                 *)

ASSUME ClientAssumption == IsFiniteSet(Client)
ASSUME NameAssumption == Type \cup Oversized \subseteq Name /\ FuncList \in Seq(Name)
ASSUME OutcomeAssumption == Outcome \subseteq {"output", "error", "silent"}
ASSUME OddAssumption == OddFrame \subseteq {"undecodable", "bodyless"}
ASSUME CallAssumption == CallNumbers \in Nat \ {0}
(* As module Server assumes it: descriptor 0 is taken.                      *)
ASSUME ServerAssumption == Fd \subseteq Nat \ {0} /\ NULL \notin Info /\ Backlog \in Nat

VARIABLES
  spc, socket, connections, read_fdset, active_fdset, client_conn, live, open,
  waiting,   (* kernel: the clients in the backlog, in order               *)
  cfd,       (* kernel: the server's descriptor of a client's connection   *)
  cut,       (* kernel: clients whose connection the server's end left     *)
  c2s, s2c,  (* what was sent and not yet received, per client             *)
  env_resp,  (* the response that fws_server_serve is sending              *)
  cpc,       (* where each client stands                                   *)
  calls,     (* history: the number of its last call                       *)
  result,    (* what the last one returned                                 *)
  status,    (* history: what became of the last call at the server        *)
  value      (* history: which run of a callback served it                 *)

conversation == <<waiting, cfd, cut, c2s, s2c, env_resp>>
clients == <<cpc, calls, result>>
history == <<status, value>>
serverVars == <<spc, socket, connections, read_fdset, active_fdset, client_conn, live, open>>
vars == <<serverVars, conversation, clients, history>>

InCall == {"sending", "waiting", "sized"}
Gone == {"left", "killed"}

(* The server as module Server sees it *)
ServerPc == IF spc = "reply_data" THEN "reply" ELSE spc
Readable == {cfd[c] : c \in {d \in Client : cfd[d] # 0 /\ (c2s[d] # <<>> \/ cpc[d] \in Gone)}}

S == INSTANCE Server WITH
       pc <- ServerPc,
       readable <- Readable,
       backlog <- Len(waiting),
       MaxConns <- Cardinality(Client)

-----------------------------------------------------------------------------
(* Frames and what fws_server_serve makes of them *)

SIZE == [kind |-> "size"]
Request(t, id) == [kind |-> "body", type |-> t, data |-> id]
Fault == [kind |-> "fault"]
NoFrame == [kind |-> "none"]

(* memcmp() over the length of the requested type, first entry that        *)
(* matches: a type is served by any name that starts with it.              *)
Dispatch_last(t) == {i \in DOMAIN FuncList :
                       /\ IsPrefix(t, FuncList[i])
                       /\ \A j \in DOMAIN FuncList : IsPrefix(t, FuncList[j]) => j <= i}
Dispatch(t) == {i \in DOMAIN FuncList :
                  /\ IsPrefix(t, FuncList[i])
                  /\ \A j \in DOMAIN FuncList : IsPrefix(t, FuncList[j]) => i <= j}

(* The response: what the callback returned, with the type of the request, *)
(* or a fault; a callback that returns RET_OK and no data leaves the       *)
(* envelope without a choice, which cannot be encoded.                     *)
Response_untyped(frame, run, outcome) ==
  IF outcome = "output" THEN [kind |-> "body", data |-> run] ELSE Fault
Response_unchecked(frame, run, outcome) == [kind |-> "body", type |-> frame.type, data |-> run]
Response_faultless(frame, run, outcome) ==
  IF outcome = "output" THEN [kind |-> "body", type |-> frame.type, data |-> run] ELSE NoFrame
Response(frame, run, outcome) ==
  CASE outcome = "output" -> [kind |-> "body", type |-> frame.type, data |-> run]
    [] outcome = "error" -> Fault
    [] outcome = "silent" -> NoFrame

Init ==
  /\ spc = "bind"
  /\ socket = S!INVALID_SOCKET
  /\ connections = <<>>
  /\ read_fdset = {}
  /\ active_fdset = {}
  /\ client_conn = S!NoConnection
  /\ live = {}
  /\ open = {}
  /\ waiting = <<>>
  /\ cfd = [c \in Client |-> 0]
  /\ cut = {}
  /\ c2s = [c \in Client |-> <<>>]
  /\ s2c = [c \in Client |-> <<>>]
  /\ env_resp = NoFrame
  /\ cpc = [c \in Client |-> "start"]
  /\ calls = [c \in Client |-> 0]
  /\ result = [c \in Client |-> <<>>]
  /\ status = [c \in Client |-> "none"]
  /\ value = [c \in Client |-> <<>>]

-----------------------------------------------------------------------------
(* The server *)

fws_server_bind ==
  /\ spc' \in {"select", "unbound", "crash"}
  /\ UNCHANGED <<conversation, clients, history>>
  /\ S!Bind

(* What is in flight to the server when its end goes is lost.              *)
Discarding(cs) == [c \in Client |-> IF c \in cs THEN <<>> ELSE c2s[c]]

select ==
  /\ spc' \in {"ready", "serve"}
  /\ UNCHANGED <<conversation, clients, history>>
  /\ S!select \/ S!select_fails

pick_active ==
  /\ spc' = "serve"
  /\ UNCHANGED <<conversation, clients, history>>
  /\ S!pick_active

accept ==
  /\ spc = "ready" /\ spc' = "serve"
  /\ waiting # <<>>
  /\ waiting' = Tail(waiting)
  /\ \E fd \in Fd \ open :
       /\ cfd' = [cfd EXCEPT ![Head(waiting)] = fd]
       /\ open' = open \cup {fd}
       /\ UNCHANGED <<cut, c2s, s2c, env_resp, clients, history>>
       /\ S!accept

accept_fails ==
  /\ spc = "ready" /\ spc' = "serve"
  /\ waiting # <<>>
  /\ \/ Fd \subseteq open /\ UNCHANGED <<waiting, cut>>
     \/ waiting' = Tail(waiting) /\ cut' = cut \cup {Head(waiting)}
  /\ c2s' = Discarding(cut')
  /\ UNCHANGED <<cfd, s2c, env_resp, clients, history>>
  /\ S!accept_fails

serve_nobody ==
  /\ spc' = "select"
  /\ UNCHANGED <<conversation, clients, history>>
  /\ S!serve_nobody

(* The client at the other end of client_conn.                             *)
Peer == {c \in Client : cfd[c] # 0 /\ cfd[c] = client_conn.socket}

(* connection_recv: the size first.                                        *)
connection_recv_size ==
  /\ spc = "serve" /\ spc' = "payload"
  /\ \E c \in Peer :
       /\ c2s[c] # <<>>
       /\ c2s' = [c2s EXCEPT ![c] = Tail(@)]
  /\ UNCHANGED <<waiting, cfd, cut, s2c, env_resp, clients, history>>
  /\ S!connection_recv_size

(* Then the message, which fws_server_serve decodes, dispatches and        *)
(* answers with what the callback returns or with a fault.                 *)
fws_server_serve ==
  /\ spc = "payload" /\ spc' = "reply"
  /\ \E c \in Peer :
       /\ c2s[c] # <<>>
       /\ c2s' = [c2s EXCEPT ![c] = Tail(@)]
       /\ LET frame == Head(c2s[c])
          IN \/ /\ frame.kind = "body" => Dispatch(frame.type) = {}
                /\ env_resp' = Fault
                /\ status' = [status EXCEPT ![c] = "refused"]
                /\ UNCHANGED value
             \/ /\ frame.kind = "body"
                /\ \E i \in Dispatch(frame.type), outcome \in Outcome :
                     LET run == <<i, frame.type, frame.data>>
                     IN /\ env_resp' = Response(frame, run, outcome)
                        /\ value' = [value EXCEPT ![c] = IF outcome = "output" THEN run ELSE <<>>]
                /\ status' = [status EXCEPT ![c] = "run"]
  /\ UNCHANGED <<waiting, cfd, cut, s2c, clients>>
  /\ S!server_recv_msg

(* recv() gives nothing: the peer is gone and all it sent was received.    *)
server_close_connection ==
  /\ spc' = "select"
  /\ \E c \in Peer :
       /\ cpc[c] \in Gone /\ c2s[c] = <<>>
       /\ cfd' = [cfd EXCEPT ![c] = 0]
       /\ cut' = cut \cup {c}
  /\ UNCHANGED <<waiting, c2s, s2c, env_resp, clients, history>>
  /\ S!server_close_connection

(* connection_send is two calls of send().  Towards a peer that is gone    *)
(* either of them may succeed, or return an error, which nobody looks at.  *)
SentTo(c, unit) == IF cpc[c] \in Gone THEN s2c ELSE [s2c EXCEPT ![c] = Append(@, unit)]

connection_send_size_forgets ==
  /\ spc = "reply" /\ spc' = "reply_data"
  /\ env_resp # NoFrame
  /\ \E c \in Peer : s2c' = SentTo(c, SIZE)
  /\ client_conn' = S!NoConnection
  /\ UNCHANGED <<socket, connections, read_fdset, active_fdset, live, open,
                 waiting, cfd, cut, c2s, env_resp, clients, history>>
connection_send_size ==
  /\ spc = "reply" /\ spc' = "reply_data"
  /\ env_resp # NoFrame
  /\ \E c \in Peer : s2c' = SentTo(c, SIZE)
  /\ UNCHANGED <<socket, connections, read_fdset, active_fdset, client_conn, live, open,
                 waiting, cfd, cut, c2s, env_resp, clients, history>>

server_send_msg ==
  /\ spc' = "select"
  /\ env_resp' = NoFrame
  /\ \/ spc = "reply" /\ env_resp = NoFrame /\ UNCHANGED s2c
     \/ spc = "reply" /\ (\E c \in Peer : cpc[c] \in Gone) /\ UNCHANGED s2c
     \/ spc = "reply_data" /\ \E c \in Peer : s2c' = SentTo(c, env_resp)
  /\ UNCHANGED <<waiting, cfd, cut, c2s, clients, history>>
  /\ S!server_send_msg

(* Or SIGPIPE ends the process, and the kernel closes what it had.         *)
server_send_msg_killed ==
  /\ spc \in {"reply", "reply_data"} /\ spc' = "killed"
  /\ env_resp # NoFrame
  /\ \E c \in Peer : cpc[c] \in Gone
  /\ waiting' = <<>>
  /\ cut' = cut \cup Range(waiting) \cup {c \in Client : cfd[c] # 0}
  /\ cfd' = [c \in Client |-> 0]
  /\ c2s' = Discarding(cut')
  /\ env_resp' = NoFrame
  /\ UNCHANGED <<s2c, clients, history>>
  /\ S!server_send_msg_killed

(* fws_done: only the connections in the backlog are cut.                  *)
fws_done ==
  /\ spc' = "done"
  /\ waiting' = <<>>
  /\ cut' = cut \cup Range(waiting)
  /\ c2s' = Discarding(cut')
  /\ UNCHANGED <<cfd, s2c, env_resp, clients, history>>
  /\ S!server_destroy

-----------------------------------------------------------------------------
(* The clients *)

fws_client_connect(c) ==
  /\ cpc[c] = "start"
  /\ socket \in open /\ Len(waiting) < Backlog
  /\ cpc' = [cpc EXCEPT ![c] = "open"]
  /\ waiting' = Append(waiting, c)
  /\ UNCHANGED <<serverVars, cfd, cut, c2s, s2c, env_resp, calls, result, history>>

(* Refused, or timed out because the backlog is full.                      *)
fws_client_connect_fails(c) ==
  /\ cpc[c] = "start"
  /\ socket \notin open \/ Len(waiting) = Backlog
  /\ cpc' = [cpc EXCEPT ![c] = "left"]
  /\ UNCHANGED <<serverVars, conversation, calls, result, history>>

(* What send() does to a connection that the server's end has left is not  *)
(* received by anybody.                                                    *)
SentBy(c, unit) == IF c \in cut THEN c2s ELSE [c2s EXCEPT ![c] = Append(@, unit)]

(* fws_client_call, up to the first send().                                *)
fws_client_call(c) ==
  /\ cpc[c] = "open"
  /\ cpc' = [cpc EXCEPT ![c] = "sending"]
  /\ calls' = [calls EXCEPT ![c] = IF @ = CallNumbers THEN 1 ELSE @ + 1]
  /\ result' = [result EXCEPT ![c] = <<>>]
  /\ status' = [status EXCEPT ![c] = "pending"]
  /\ value' = [value EXCEPT ![c] = <<>>]
  /\ c2s' = SentBy(c, SIZE)
  /\ UNCHANGED <<serverVars, waiting, cfd, cut, s2c, env_resp>>

(* The second one, after which it waits for the response.  (If the first   *)
(* failed there is no second, which only happens where nobody listens.)    *)
client_send_msg(c) ==
  /\ cpc[c] = "sending"
  /\ cpc' = [cpc EXCEPT ![c] = "waiting"]
  /\ \E frame \in {Request(t, <<c, calls[c]>>) : t \in Type \ Oversized} \cup {[kind |-> k] : k \in OddFrame} :
       c2s' = SentBy(c, frame)
  /\ UNCHANGED <<serverVars, waiting, cfd, cut, s2c, env_resp, calls, result, history>>

(* An envelope that needs more than its buffer is not encoded, and the -1   *)
(* goes on as the size of the stream, which no memcpy() survives.          *)
fws_client_call_oversized(c) ==
  /\ Oversized # {}
  /\ cpc[c] = "open"
  /\ cpc' = [cpc EXCEPT ![c] = "killed"]
  /\ UNCHANGED <<serverVars, conversation, calls, result, history>>

(* Nobody handles SIGPIPE here either.                                     *)
client_send_msg_killed(c) ==
  /\ "send" \in MayFail
  /\ c \in cut
  /\ cpc[c] \in {"sending", "open"}
  /\ cpc' = [cpc EXCEPT ![c] = "killed"]
  /\ UNCHANGED <<serverVars, conversation, calls, result, history>>

client_recv_size(c) ==
  /\ cpc[c] = "waiting"
  /\ s2c[c] # <<>>
  /\ s2c' = [s2c EXCEPT ![c] = Tail(@)]
  /\ cpc' = [cpc EXCEPT ![c] = "sized"]
  /\ UNCHANGED <<serverVars, waiting, cfd, cut, c2s, env_resp, calls, result, history>>

(* A call that returns is not pending any more.                            *)
Returned(c) == status' = [status EXCEPT ![c] = IF @ = "pending" THEN "lost" ELSE @]

client_recv_msg(c) ==
  /\ cpc[c] = "sized"
  /\ s2c[c] # <<>>
  /\ s2c' = [s2c EXCEPT ![c] = Tail(@)]
  /\ cpc' = [cpc EXCEPT ![c] = "open"]
  /\ IF Head(s2c[c]).kind = "body"
     THEN result' = [result EXCEPT ![c] = Head(s2c[c]).data]
     ELSE UNCHANGED result
  /\ Returned(c)
  /\ UNCHANGED <<serverVars, waiting, cfd, cut, c2s, env_resp, calls, value>>

client_recv_fails_timeout(c) ==
  /\ cpc[c] \in {"waiting", "sized"}
  /\ s2c[c] = <<>>
  /\ cpc' = [cpc EXCEPT ![c] = "open"]
  /\ Returned(c)
  /\ UNCHANGED <<serverVars, conversation, calls, result, value>>
client_recv_fails(c) ==
  /\ cpc[c] \in {"waiting", "sized"}
  /\ s2c[c] = <<>> /\ c \in cut
  /\ cpc' = [cpc EXCEPT ![c] = "open"]
  /\ Returned(c)
  /\ UNCHANGED <<serverVars, conversation, calls, result, value>>

fws_client_done(c) ==
  /\ cpc[c] = "open"
  /\ cpc' = [cpc EXCEPT ![c] = "left"]
  /\ UNCHANGED <<serverVars, conversation, calls, result, history>>

(* The process of the client ends in the middle of it; if its kernel       *)
(* resets the connection, what it had sent may be lost.                    *)
client_crash(c) ==
  /\ cpc[c] \in InCall
  /\ cpc' = [cpc EXCEPT ![c] = "left"]
  /\ c2s' \in {c2s, [c2s EXCEPT ![c] = <<>>]}
  /\ s2c' = [s2c EXCEPT ![c] = <<>>]
  /\ UNCHANGED <<serverVars, waiting, cfd, cut, env_resp, calls, result, history>>

-----------------------------------------------------------------------------
ServerStep ==
  \/ fws_server_bind
  \/ select \/ pick_active \/ accept \/ accept_fails
  \/ serve_nobody \/ connection_recv_size \/ fws_server_serve \/ server_close_connection
  \/ connection_send_size \/ server_send_msg \/ server_send_msg_killed

CallStep(c) ==
  \/ client_send_msg(c) \/ client_send_msg_killed(c)
  \/ client_recv_size(c) \/ client_recv_msg(c) \/ client_recv_fails(c)

ClientStep(c) ==
  \/ fws_client_connect(c) \/ fws_client_connect_fails(c)
  \/ fws_client_call(c) \/ fws_client_call_oversized(c)
  \/ fws_client_done(c) \/ client_crash(c)
  \/ CallStep(c)

Next == ServerStep \/ fws_done \/ \E c \in Client : ClientStep(c)

Spec == Init /\ [][Next]_vars

(* The server loops and is not told to stop, a call goes on by itself, and *)
(* a client that is connected goes on to its next call or leaves: the      *)
(* server is in recv() for as long as one does not.                        *)
Fairness ==
  /\ WF_vars(ServerStep)
  /\ \A c \in Client : /\ WF_vars(CallStep(c))
                       /\ WF_vars(fws_client_call(c) \/ fws_client_done(c))

FairSpec == Spec /\ Fairness

-----------------------------------------------------------------------------
(* Properties *)

RequestFrame == [kind : {"body"}, type : Type, data : Client \X (1 .. CallNumbers)]
                  \cup {[kind |-> k] : k \in OddFrame}
Run == (DOMAIN FuncList) \X Type \X (Client \X (1 .. CallNumbers))
ResponseFrame == [kind : {"body"}, type : Type, data : Run] \cup {Fault}

(* Every variable has its type; those of module Server are typed there.    *)
TypeOK ==
  /\ S!TypeOK
  /\ waiting \in Seq(Client)
  /\ cfd \in [Client -> Fd \cup {0}]
  /\ cut \subseteq Client
  /\ c2s \in [Client -> Seq({SIZE} \cup RequestFrame)]
  /\ s2c \in [Client -> Seq({SIZE} \cup ResponseFrame)]
  /\ env_resp \in ResponseFrame \cup {NoFrame}
  /\ cpc \in [Client -> {"start", "open"} \cup InCall \cup Gone]
  /\ calls \in [Client -> 0 .. CallNumbers]
  /\ result \in [Client -> Run \cup {<<>>}]
  /\ status \in [Client -> {"none", "pending", "run", "refused", "lost"}]
  /\ value \in [Client -> Run \cup {<<>>}]

(* While the loop runs, every connection that the kernel holds open has an *)
(* entry in server->connections, no two clients share one, and one that    *)
(* waits in the backlog has none.                                          *)
EveryPeerIsListed ==
  /\ S!Running => S!Sockets = {cfd[c] : c \in Client} \ {0}
  /\ \A c, d \in Client : c # d /\ cfd[c] # 0 => cfd[c] # cfd[d]
  /\ \A c \in Range(waiting) : cfd[c] = 0 /\ c \notin cut

Answering(c) == c \in Peer /\ spc \in {"payload", "reply", "reply_data"}

(* fws_client_call and fws_server_serve take turns on a connection without *)
(* counting messages: nothing is left in it when a call has returned, no   *)
(* request meets a response, and whoever expects a size next to receive    *)
(* finds one (connection_recv takes any four bytes for a size).            *)
TurnsAlternate ==
  \A c \in Client :
    /\ cpc[c] \in {"start", "open"} => c2s[c] = <<>> /\ s2c[c] = <<>> /\ ~Answering(c)
    /\ c2s[c] = <<>> \/ (s2c[c] = <<>> /\ (Answering(c) => spc = "payload"))
    /\ c2s[c] # <<>> => (Head(c2s[c]) = SIZE <=> ~Answering(c))
    /\ s2c[c] # <<>> => (Head(s2c[c]) = SIZE <=> cpc[c] = "waiting")

(* The response that is being sent answers the call that is in progress at *)
(* the other end of client_conn, which fws_server_serve does not look up   *)
(* again after the callback.                                               *)
AnswersWhoAsked ==
  env_resp # NoFrame =>
    \E c \in Peer :
      /\ status[c] \in {"run", "refused"}
      /\ cpc[c] \in InCall \cup Gone
      /\ env_resp.kind = "body" => env_resp.data[3] = <<c, calls[c]>>

(* A call that returned data returned what the one run of the callback for *)
(* that very call computed, though nothing in a response names its call.   *)
OwnReply ==
  \A c \in Client : result[c] # <<>> => result[c] = value[c] /\ result[c][3] = <<c, calls[c]>>

(* A request is run by the function it names and by no other ("serve       *)
(* request of type TestMessage", sample/main.c:6), which memcmp() only     *)
(* ensures if no name is listed before one of its proper prefixes.         *)
ServedByItsName ==
  \A c \in Client : value[c] # <<>> => FuncList[value[c][1]] = value[c][2]

(* A peer that goes away is no reason for the server to end.               *)
ServerSurvives == spc # "killed"

(* server_accept looks at newcomers first and at the list from its start,  *)
(* so a client that calls again and again keeps those behind it waiting    *)
(* for ever.  (Newcomers stop by themselves: finitely many clients connect *)
(* once each.)  What is promised is about the first in the list, and about *)
(* executions in which the others begin no more calls.                     *)
First(c) == connections # <<>> /\ connections[1].socket = cfd[c]
OthersPause(c) == <>[][\A d \in Client \ {c} : ~fws_client_call(d)]_vars

(* Unless the server is told to stop, a call returns if its client is the  *)
(* first in the list, however much the others call, and that of any client *)
(* if the others at some time begin no more calls.  Without one or the     *)
(* other it may wait for ever.                                             *)
CallsReturn ==
  \A c \in Client :
    /\ cpc[c] \in InCall /\ First(c) ~> cpc[c] \notin InCall \/ spc = "done"
    /\ OthersPause(c) => (cpc[c] \in InCall ~> cpc[c] \notin InCall \/ spc = "done")

(* The server notices that a client is gone, and gives its descriptor and  *)
(* its entry back, on the same conditions: if it is the first in the list, *)
(* or if the others at some time begin no more calls.                      *)
DeadPeersAreDropped ==
  \A c \in Client :
    /\ cpc[c] \in Gone /\ First(c) ~> cfd[c] = 0 \/ spc = "done"
    /\ OthersPause(c) => (cpc[c] \in Gone /\ cfd[c] # 0 ~> cfd[c] = 0 \/ spc = "done")

(* The server does what module Server says, with the streams deciding what *)
(* is readable and the waiting clients being the backlog.                  *)
ImplementsServer == S!Spec

R == INSTANCE Rpc WITH
       Value <- Run,
       NoValue <- <<>>,
       phase <- [c \in Client |-> IF cpc[c] \in InCall THEN "called"
                                  ELSE IF cpc[c] \in Gone THEN "gone" ELSE "idle"]

(* A call is run at most once and before it returns, and RET_OK returns    *)
(* what that run computed.                                                 *)
ImplementsRpc == R!Spec
=============================================================================
