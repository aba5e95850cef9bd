----------------------------- MODULE Fws_proofs -----------------------------
(***************************************************************************)
(* Module Fws: for any clients, names, outcomes of callbacks, failures and *)
(* bounds, clients and server take turns on every connection, an answer    *)
(* goes to the call it answers, and the whole is an implementation of      *)
(* modules Server and Rpc.                                                 *)
(***************************************************************************)
EXTENDS Fws, SequenceTheorems, FiniteSetTheorems, FunctionTheorems, TLAPS

(* What is proved about module Server, for the server as Fws sees it.      *)
SP == INSTANCE Server_proofs WITH
        pc <- ServerPc,
        readable <- Readable,
        backlog <- Len(waiting),
        MaxConns <- Cardinality(Client)

(* Where the server stands with a client it is talking to.                 *)
Talking == {"payload", "reply", "reply_data"}
At(c, p) == c \in Peer /\ spc = p

(* What a client may have asked in its current call, and what may be       *)
(* answered to that.                                                       *)
RequestOf(c) == {f \in RequestFrame : f.kind = "body" => f.data = <<c, calls[c]>>}
ReplyTo(c) == {f \in ResponseFrame :
                 /\ status[c] \in {"run", "refused"}
                 /\ f.kind = "body" => /\ status[c] = "run"
                                       /\ f.data = value[c]
                                       /\ f.data[3] = <<c, calls[c]>>}

(* What is in the two streams of a connection, from where its ends stand.  *)
Silent(c) == c2s[c] = <<>> /\ s2c[c] = <<>>

TurnSending(c) ==
  /\ s2c[c] = <<>>
  /\ \/ ~Answering(c) /\ c2s[c] = (IF c \in cut THEN <<>> ELSE <<SIZE>>)
     \/ At(c, "payload") /\ c2s[c] = <<>>

TurnWaiting(c) ==
  \/ ~Answering(c) /\ Silent(c)
  \/ ~Answering(c) /\ s2c[c] = <<>> /\ \E f \in RequestOf(c) : c2s[c] = <<SIZE, f>>
  \/ At(c, "payload") /\ s2c[c] = <<>> /\ \E f \in RequestOf(c) : c2s[c] = <<f>>
  \/ At(c, "reply") /\ Silent(c)
  \/ At(c, "reply_data") /\ c2s[c] = <<>> /\ s2c[c] = <<SIZE>>
  \/ ~Answering(c) /\ c2s[c] = <<>> /\ \E f \in ReplyTo(c) : s2c[c] = <<SIZE, f>>

TurnSized(c) ==
  \/ At(c, "reply_data") /\ Silent(c)
  \/ ~Answering(c) /\ c2s[c] = <<>> /\ \E f \in ReplyTo(c) : s2c[c] = <<f>>

TurnGone(c) ==
  /\ s2c[c] = <<>>
  /\ \/ c2s[c] = <<>>
     \/ ~Answering(c) /\ c2s[c] = <<SIZE>>
     \/ ~Answering(c) /\ \E f \in RequestOf(c) : c2s[c] = <<SIZE, f>>
     \/ At(c, "payload") /\ \E f \in RequestOf(c) : c2s[c] = <<f>>

Turn(c) ==
  /\ cpc[c] \in {"start", "open"} => Silent(c) /\ ~Answering(c)
  /\ cpc[c] = "sending" => TurnSending(c)
  /\ cpc[c] = "waiting" => TurnWaiting(c)
  /\ cpc[c] = "sized" => TurnSized(c)
  /\ cpc[c] \in Gone => TurnGone(c)

(* The call whose request is on its way, or being received, has neither    *)
(* been run nor returned.                                                  *)
Open(c) ==
  /\ cpc[c] \in InCall => result[c] = <<>> /\ calls[c] > 0
  /\ c2s[c] # <<>> \/ At(c, "payload") => status[c] = "pending" /\ result[c] = <<>>

Own(c) == result[c] # <<>> => result[c] = value[c] /\ result[c][3] = <<c, calls[c]>>

Consistent(c) == Turn(c) /\ Open(c) /\ Own(c)

(* env_resp is empty unless it answers the peer.                           *)
ResponseIsDue ==
  /\ env_resp # NoFrame => spc \in {"reply", "reply_data"} /\ \E c \in Peer : env_resp \in ReplyTo(c)
  /\ spc = "reply_data" => env_resp # NoFrame

Distinct(s) == \A i, j \in DOMAIN s : i # j => s[i] # s[j]

(* A connection is in the backlog, then accepted, then cut.                *)
Links ==
  /\ Distinct(waiting)
  /\ \A c \in Client :
       /\ cpc[c] = "start" => c \notin Range(waiting) /\ c \notin cut /\ cfd[c] = 0
       /\ c \in cut => cfd[c] = 0 /\ c2s[c] = <<>>

(* An accepted connection is one of the descriptors of the process, which  *)
(* listens only while it runs.                                             *)
Descriptors ==
  /\ \A c \in Client : cfd[c] # 0 => cfd[c] \in open \ {socket}
  /\ socket \in open => S!Running
  /\ spc = "bind" => socket = S!INVALID_SOCKET

IInv ==
  /\ TypeOK
  /\ SP!IInv
  /\ EveryPeerIsListed
  /\ Links
  /\ Descriptors
  /\ ResponseIsDue
  /\ \A c \in Client : Consistent(c)

-----------------------------------------------------------------------------
(* Server_proofs is an instance of its own of module Server: what Fws      *)
(* takes from Server is the same there.                                    *)
LEMMA SameServer ==
  /\ S!Init <=> SP!Init
  /\ S!TypeOK <=> SP!TypeOK
  /\ S!Running <=> SP!Running
  /\ S!Sockets = SP!Sockets
  /\ S!vars = SP!vars
  /\ S!NoConnection = SP!NoConnection
<1>1. S!Init <=> SP!Init
  BY DEF S!Init, SP!Init, S!INVALID_SOCKET, SP!INVALID_SOCKET, S!NoConnection, SP!NoConnection
<1>2. S!TypeOK <=> SP!TypeOK
  BY DEF S!TypeOK, SP!TypeOK, S!INVALID_SOCKET, SP!INVALID_SOCKET, S!NoConnection, SP!NoConnection,
         S!Connection, SP!Connection
<1>3. S!Running <=> SP!Running
  BY DEF S!Running, SP!Running
<1>4. S!Sockets = SP!Sockets
  BY DEF S!Sockets, SP!Sockets
<1>5. S!vars = SP!vars
  BY DEF S!vars, SP!vars, S!server, SP!server, S!kernel, SP!kernel
<1>6. S!NoConnection = SP!NoConnection
  BY DEF S!NoConnection, SP!NoConnection
<1>7. QED
  BY <1>1, <1>2, <1>3, <1>4, <1>5, <1>6

(* ... and so is every step.                                               *)
LEMMA SameSteps == [S!Next]_(S!vars) => [SP!Next]_(SP!vars)
<1>1. /\ S!INVALID_SOCKET = SP!INVALID_SOCKET
      /\ S!NoConnection = SP!NoConnection
      /\ S!Sockets = SP!Sockets
      /\ S!Infos = SP!Infos
  BY DEF S!INVALID_SOCKET, SP!INVALID_SOCKET, S!NoConnection, SP!NoConnection,
         S!Sockets, SP!Sockets, S!Infos, SP!Infos
<1>2. S!Ready = SP!Ready
  BY <1>1 DEF S!Ready, SP!Ready, S!AcceptReady, SP!AcceptReady, S!BelowNfds, SP!BelowNfds
<1>3. S!ActiveEntries = SP!ActiveEntries /\ S!Matching = SP!Matching
  BY DEF S!ActiveEntries, SP!ActiveEntries, S!Matching, SP!Matching
<1>4. S!FirstOf(S!ActiveEntries) = SP!FirstOf(SP!ActiveEntries)
  BY <1>3 DEF S!FirstOf, SP!FirstOf
<1>5. S!FirstOf(S!Matching) = SP!FirstOf(SP!Matching)
  BY <1>3 DEF S!FirstOf, SP!FirstOf
<1>6. S!server = SP!server /\ S!kernel = SP!kernel
  BY DEF S!server, SP!server, S!kernel, SP!kernel
<1> USE DEF S!Goto, SP!Goto, S!server, SP!server, S!kernel, SP!kernel
<1>7. S!Bind => SP!Bind
  BY DEF S!Bind, SP!Bind, S!server_create, SP!server_create, S!server_create_fails,
         SP!server_create_fails, S!server_accept_null, SP!server_accept_null
<1>8. S!select => SP!select
  BY <1>2 DEF S!select, SP!select
<1>9. S!select_fails => SP!select_fails
  BY DEF S!select_fails, SP!select_fails
<1>10. S!accept => SP!accept
  BY DEF S!accept, SP!accept, S!TakesNewcomer, SP!TakesNewcomer, S!Listed, SP!Listed
<1>11. S!accept_fails => SP!accept_fails
  BY DEF S!accept_fails, SP!accept_fails, S!TakesNewcomer, SP!TakesNewcomer
<1>12. S!pick_active => SP!pick_active
  BY <1>3, <1>4 DEF S!pick_active, SP!pick_active, S!TakesNewcomer, SP!TakesNewcomer
<1>13. S!serve_nobody => SP!serve_nobody
  BY DEF S!serve_nobody, SP!serve_nobody
<1>14. /\ S!connection_recv_size => SP!connection_recv_size
       /\ S!server_recv_msg => SP!server_recv_msg
  BY DEF S!connection_recv_size, SP!connection_recv_size, S!server_recv_msg, SP!server_recv_msg,
         S!Received, SP!Received
<1>15. S!server_close_connection => SP!server_close_connection
  BY <1>1, <1>3, <1>5
  DEF S!server_close_connection, SP!server_close_connection, S!RecvReturns, SP!RecvReturns,
      S!LiveWithout, SP!LiveWithout, S!SetWithoutCurrent, SP!SetWithoutCurrent,
      S!AfterClose, SP!AfterClose, S!RemoveAt, SP!RemoveAt
<1>16. /\ S!server_send_msg => SP!server_send_msg
       /\ S!server_send_msg_killed => SP!server_send_msg_killed
  BY DEF S!server_send_msg, SP!server_send_msg, S!server_send_msg_killed, SP!server_send_msg_killed
<1>17. S!server_destroy => SP!server_destroy
  BY <1>1 DEF S!server_destroy, SP!server_destroy
<1>18. S!Environment => SP!Environment
  BY DEF S!Environment, SP!Environment, S!connect, SP!connect, S!arrive, SP!arrive
<1>19. UNCHANGED S!vars => UNCHANGED SP!vars
  BY DEF S!vars, SP!vars
<1>20. S!Next => SP!Next
  BY <1>7, <1>8, <1>9, <1>10, <1>11, <1>12, <1>13, <1>14, <1>15, <1>16, <1>17, <1>18
  DEF S!Next, SP!Next, S!Accept, SP!Accept, S!Serve, SP!Serve
<1>21. QED
  BY <1>19, <1>20

(* What Server_proofs assumes of its constants holds here.                 *)
LEMMA ServerKeeps == SP!IInv /\ [S!Next]_(S!vars) => SP!IInv'
  BY SameSteps, SP!NextKeeps, ServerAssumption, ClientAssumption, FS_CardinalityType
  DEF SP!FdAssumption, SP!InfoAssumption, SP!BoundAssumption

-----------------------------------------------------------------------------
(* The backlog is a sequence without repetition *)

LEMMA QueueAppend ==
  ASSUME NEW Elem, NEW s \in Seq(Elem), NEW x \in Elem, Distinct(s), x \notin Range(s)
  PROVE  /\ Append(s, x) \in Seq(Elem)
         /\ Len(Append(s, x)) = Len(s) + 1
         /\ Range(Append(s, x)) = Range(s) \cup {x}
         /\ Distinct(Append(s, x))
<1> DEFINE n == Len(s)
           t == Append(s, x)
<1>1. n \in Nat /\ DOMAIN s = 1 .. n
  OBVIOUS
<1>2. /\ t \in Seq(Elem) /\ Len(t) = n + 1 /\ DOMAIN t = 1 .. n + 1
      /\ \A i \in 1 .. n : t[i] = s[i]
      /\ t[n + 1] = x
  OBVIOUS
<1> HIDE DEF n, t
<1>3. \A i \in 1 .. n + 1 : i \in 1 .. n \/ i = n + 1
  BY <1>1
<1>4. 1 .. n \subseteq 1 .. n + 1 /\ n + 1 \in 1 .. n + 1
  BY <1>1
<1>5. Range(t) = Range(s) \cup {x}
  BY <1>1, <1>2, <1>3, <1>4 DEF Range
<1>6. Distinct(t)
  BY <1>1, <1>2, <1>3 DEF Distinct, Range
<1>7. QED
  BY <1>2, <1>5, <1>6 DEF n, t

LEMMA QueueTail ==
  ASSUME NEW Elem, NEW s \in Seq(Elem), s # <<>>, Distinct(s)
  PROVE  /\ Tail(s) \in Seq(Elem)
         /\ Len(Tail(s)) = Len(s) - 1
         /\ Head(s) \in Range(s)
         /\ Range(Tail(s)) = Range(s) \ {Head(s)}
         /\ Distinct(Tail(s))
<1> DEFINE n == Len(s)
           t == Tail(s)
<1>1. n \in Nat /\ n > 0 /\ DOMAIN s = 1 .. n /\ Head(s) = s[1]
  BY EmptySeq
<1>2. /\ t \in Seq(Elem) /\ Len(t) = n - 1 /\ DOMAIN t = 1 .. n - 1
      /\ \A i \in 1 .. n - 1 : t[i] = s[i + 1]
  BY <1>1
<1> HIDE DEF n, t
<1>3. \A i \in 1 .. n : i = 1 \/ (i - 1 \in 1 .. n - 1 /\ (i - 1) + 1 = i)
  BY <1>1
<1>4. \A i \in 1 .. n - 1 : i + 1 \in 1 .. n /\ i + 1 # 1
  BY <1>1
<1>5. \A i, j \in 1 .. n - 1 : i # j => i + 1 # j + 1
  BY <1>1
<1>6. 1 \in 1 .. n
  BY <1>1
<1>7. Range(t) = Range(s) \ {s[1]}
  <2>1. Range(s) = {s[i] : i \in 1 .. n} /\ Range(t) = {t[i] : i \in 1 .. n - 1}
    BY <1>1, <1>2 DEF Range
  <2>2. ASSUME NEW i \in 1 .. n - 1 PROVE t[i] \in Range(s) \ {s[1]}
    <3>1. i + 1 \in 1 .. n /\ i + 1 # 1
      BY <1>4
    <3>2. s[i + 1] # s[1]
      BY <1>1, <1>6, <3>1 DEF Distinct
    <3>3. QED
      BY <1>2, <2>1, <3>1, <3>2
  <2>3. ASSUME NEW i \in 1 .. n, s[i] # s[1] PROVE s[i] \in Range(t)
    <3>1. i - 1 \in 1 .. n - 1 /\ (i - 1) + 1 = i
      BY <1>3, <2>3
    <3>2. t[i - 1] = s[i]
      BY <1>2, <3>1
    <3>3. QED
      BY <2>1, <3>1, <3>2
  <2>4. QED
    BY <2>1, <2>2, <2>3
<1>8. Distinct(t)
  <2>1. ASSUME NEW i \in 1 .. n - 1, NEW j \in 1 .. n - 1, i # j PROVE t[i] # t[j]
    <3>1. i + 1 \in 1 .. n /\ j + 1 \in 1 .. n /\ i + 1 # j + 1
      BY <1>4, <1>5, <2>1
    <3>2. s[i + 1] # s[j + 1]
      BY <1>1, <3>1 DEF Distinct
    <3>3. QED
      BY <1>2, <3>2
  <2>2. QED
    BY <1>2, <2>1 DEF Distinct
<1>9. Head(s) \in Range(s)
  BY <1>1, <1>6 DEF Range
<1>10. QED
  BY <1>1, <1>2, <1>7, <1>8, <1>9 DEF n, t

-----------------------------------------------------------------------------
(* What module Server proves of its tables, said of descriptors.           *)
LEMMA RunsWhen == S!Running <=> spc \in {"select", "ready", "serve", "payload", "reply", "reply_data"}
  BY DEF S!Running, ServerPc

LEMMA TablesGive ==
  ASSUME SP!IInv, S!Running
  PROVE  S!Sockets = open \ {socket} /\ socket \in open
  BY SameServer DEF SP!IInv, SP!TablesAgree

(* The client at the other end of a descriptor is one, and the server is   *)
(* in a conversation with at most one.                                     *)
LEMMA OnePeer == ASSUME EveryPeerIsListed, NEW c \in Peer, NEW d \in Peer PROVE c = d
  BY DEF EveryPeerIsListed, Peer

(* Every connection belongs to a client of its own, so that one more fits. *)
LEMMA RoomForOne ==
  ASSUME IInv, S!Running, NEW c \in Client, c \notin Range(waiting), cfd[c] = 0
  PROVE  Len(waiting) + Len(connections) < Cardinality(Client)
<1> DEFINE m == Len(waiting)
           n == Len(connections)
           peer(i) == CHOOSE d \in Client : cfd[d] = connections[i].socket
           f == [i \in 1 .. m + n |-> IF i <= m THEN waiting[i] ELSE peer(i - m)]
<1>1. /\ m \in Nat /\ n \in Nat
      /\ DOMAIN waiting = 1 .. m /\ DOMAIN connections = 1 .. n
  BY DEF IInv, TypeOK, S!TypeOK
<1>2. \A i \in 1 .. n : /\ peer(i) \in Client
                        /\ cfd[peer(i)] = connections[i].socket
                        /\ cfd[peer(i)] # 0
  <2> SUFFICES ASSUME NEW i \in 1 .. n
               PROVE  \E d \in Client : cfd[d] = connections[i].socket /\ cfd[d] # 0
    OBVIOUS
  <2>1. connections[i].socket \in S!Sockets
    BY <1>1 DEF S!Sockets
  <2>2. QED
    BY <2>1 DEF IInv, EveryPeerIsListed
<1> HIDE DEF peer
<1>3. \A i \in 1 .. m : waiting[i] \in Client /\ waiting[i] # c /\ cfd[waiting[i]] = 0
  <2> SUFFICES ASSUME NEW i \in 1 .. m
               PROVE  waiting[i] \in Client /\ waiting[i] # c /\ cfd[waiting[i]] = 0
    OBVIOUS
  <2>1. waiting[i] \in Range(waiting)
    BY <1>1 DEF Range
  <2>2. waiting[i] \in Client
    BY <1>1, ElementOfSeq DEF IInv, TypeOK
  <2>3. QED
    BY <2>1, <2>2 DEF IInv, EveryPeerIsListed
<1>4. \A i, j \in 1 .. n : i # j => peer(i) # peer(j)
  <2>1. \A i, j \in 1 .. n : i # j => connections[i].socket # connections[j].socket
    BY <1>1 DEF IInv, SP!IInv, SP!EntriesOwnTheirs
  <2>2. QED
    BY <1>2, <2>1
<1>5. \A i \in 1 .. m + n : i \in 1 .. m \/ (~(i <= m) /\ i - m \in 1 .. n)
  BY <1>1
<1>6. \A i, j \in 1 .. m + n : i - m = j - m => i = j
  BY <1>1
<1>7. \A i \in 1 .. m : i <= m
  BY <1>1
<1>8. \A i \in 1 .. m + n : f[i] \in Client \ {c}
  <2> SUFFICES ASSUME NEW i \in 1 .. m + n PROVE f[i] \in Client \ {c}
    OBVIOUS
  <2>1. CASE i \in 1 .. m
    BY <1>3, <1>7, <2>1
  <2>2. CASE ~(i <= m) /\ i - m \in 1 .. n
    <3>1. f[i] = peer(i - m)
      BY <2>2
    <3>2. QED
      BY <1>2, <2>2, <3>1
  <2>3. QED
    BY <1>5, <2>1, <2>2
<1>9. \A i, j \in 1 .. m + n : f[i] = f[j] => i = j
  <2> SUFFICES ASSUME NEW i \in 1 .. m + n, NEW j \in 1 .. m + n, f[i] = f[j] PROVE i = j
    OBVIOUS
  <2>1. /\ f[i] = (IF i <= m THEN waiting[i] ELSE peer(i - m))
        /\ f[j] = (IF j <= m THEN waiting[j] ELSE peer(j - m))
    OBVIOUS
  <2>2. CASE i \in 1 .. m /\ j \in 1 .. m
    <3>1. waiting[i] = waiting[j]
      BY <1>7, <2>1, <2>2
    <3>2. QED
      BY <1>1, <2>2, <3>1 DEF IInv, Links, Distinct
  <2>3. CASE i \in 1 .. m /\ ~(j <= m) /\ j - m \in 1 .. n
    BY <1>2, <1>3, <1>7, <2>1, <2>3
  <2>4. CASE ~(i <= m) /\ i - m \in 1 .. n /\ j \in 1 .. m
    BY <1>2, <1>3, <1>7, <2>1, <2>4
  <2>5. CASE ~(i <= m) /\ i - m \in 1 .. n /\ ~(j <= m) /\ j - m \in 1 .. n
    BY <1>4, <1>6, <2>1, <2>5
  <2>6. QED
    BY <1>5, <2>2, <2>3, <2>4, <2>5
<1>10. f \in Injection(1 .. m + n, Client \ {c})
  BY <1>8, <1>9 DEF Injection, IsInjective
<1> HIDE DEF f
<1>11. IsFiniteSet(Client \ {c}) /\ Cardinality(Client \ {c}) = Cardinality(Client) - 1
  BY ClientAssumption, FS_RemoveElement
<1>12. Cardinality(1 .. m + n) <= Cardinality(Client \ {c})
  BY <1>10, <1>11, FS_Injection
<1>13. Cardinality(1 .. m + n) = m + n
  BY <1>1, FS_Interval
<1>14. Cardinality(Client) \in Nat
  BY ClientAssumption, FS_CardinalityType
<1>15. QED
  BY <1>1, <1>11, <1>12, <1>13, <1>14

(* A client that connects is the environment of module Server.             *)
LEMMA ConnectIsServerStep ==
  ASSUME IInv, NEW c \in Client, fws_client_connect(c)
  PROVE  S!connect
<1>1. /\ waiting \in Seq(Client)
      /\ waiting' = Append(waiting, c)
      /\ socket \in open /\ Len(waiting) < Backlog
      /\ cpc \in [Client -> {"start", "open"} \cup InCall \cup Gone]
      /\ cpc[c] = "start" /\ cpc' = [cpc EXCEPT ![c] = "open"]
      /\ UNCHANGED <<serverVars, cfd, c2s>>
  BY DEF IInv, TypeOK, fws_client_connect
<1>2. c \notin Range(waiting) /\ cfd[c] = 0 /\ S!Running
  BY <1>1 DEF IInv, Links, Descriptors
<1>3. Len(waiting) + Len(connections) < Cardinality(Client)
  BY <1>2, RoomForOne
<1>4. Len(waiting') = Len(waiting) + 1
  BY <1>1
<1>5. Readable' = Readable
  <2>1. \A d \in Client : d # c => cpc'[d] = cpc[d]
    BY <1>1
  <2>2. QED
    BY <1>1, <1>2, <2>1 DEF Readable, Gone
<1>6. ServerPc' = ServerPc /\ UNCHANGED S!server
  BY <1>1 DEF ServerPc, serverVars, S!server
<1>7. QED
  BY <1>1, <1>3, <1>4, <1>5, <1>6 DEF S!connect, serverVars

(* Otherwise a client at most makes its own descriptor readable.           *)
LEMMA ClientMoves ==
  ASSUME IInv, NEW c \in Client,
         UNCHANGED <<serverVars, waiting, cfd>>,
         \A d \in Client : d # c => c2s'[d] = c2s[d] /\ cpc'[d] = cpc[d],
         c2s[c] # <<>> \/ cpc[c] \in Gone => c2s'[c] # <<>> \/ cpc'[c] \in Gone
  PROVE  [S!Next]_(S!vars)
<1>1. ServerPc' = ServerPc /\ UNCHANGED <<S!server, Len(waiting)>>
  BY DEF ServerPc, serverVars, S!server
<1>2. CASE Readable' = Readable
  BY <1>1, <1>2 DEF S!vars, S!kernel, serverVars
<1>3. CASE Readable' # Readable
  <2>1. cfd[c] # 0 /\ Readable' = Readable \cup {cfd[c]} /\ ~(c2s[c] # <<>> \/ cpc[c] \in Gone)
    BY <1>3 DEF Readable
  <2>2. cfd[c] \notin Readable
    BY <2>1 DEF Readable, IInv, EveryPeerIsListed
  <2>3. cfd[c] \in open \ {socket} /\ cfd[c] \in Fd
    BY <2>1 DEF IInv, Descriptors, TypeOK
  <2>4. S!arrive(cfd[c])
    BY <1>1, <2>1, <2>2, <2>3 DEF S!arrive, serverVars
  <2>5. QED
    BY <2>3, <2>4 DEF S!Next, S!Environment
<1>4. QED
  BY <1>2, <1>3

-----------------------------------------------------------------------------
(* The steps of the server are those of module Server.                     *)
LEMMA ServerStepsAreServers == ServerStep \/ fws_done => [S!Next]_(S!vars)
<1> SUFFICES ASSUME ServerStep \/ fws_done PROVE [S!Next]_(S!vars)
  OBVIOUS
<1>1. CASE connection_send_size
  <2>1. ServerPc' = ServerPc /\ Readable' = Readable
    BY <1>1 DEF connection_send_size, ServerPc, Readable, clients
  <2>2. QED
    BY <1>1, <2>1 DEF connection_send_size, S!vars, S!server, S!kernel
<1>2. CASE fws_server_bind
  BY <1>2 DEF fws_server_bind, S!Next
<1>3. CASE select \/ pick_active \/ accept \/ accept_fails
  BY <1>3 DEF select, pick_active, accept, accept_fails, S!Next, S!Accept
<1>4. CASE serve_nobody \/ connection_recv_size \/ fws_server_serve \/ server_close_connection
  BY <1>4 DEF serve_nobody, connection_recv_size, fws_server_serve, server_close_connection,
              S!Next, S!Serve
<1>5. CASE server_send_msg \/ server_send_msg_killed
  BY <1>5 DEF server_send_msg, server_send_msg_killed, S!Next, S!Serve
<1>6. CASE fws_done
  BY <1>6 DEF fws_done, S!Next
<1>7. QED
  BY <1>1, <1>2, <1>3, <1>4, <1>5, <1>6 DEF ServerStep

(* Those of the clients are its environment or none of its business.       *)
LEMMA ClientStepsAreServers ==
  ASSUME IInv, NEW c \in Client, ClientStep(c)
  PROVE  [S!Next]_(S!vars)
<1>1. CASE fws_client_connect(c)
  BY <1>1, ConnectIsServerStep DEF S!Next, S!Environment
<1>2. /\ cpc \in [Client -> {"start", "open"} \cup InCall \cup Gone]
      /\ c2s \in [Client -> Seq({SIZE} \cup RequestFrame)]
  BY DEF IInv, TypeOK
<1>3. CASE fws_client_connect_fails(c) \/ fws_client_call_oversized(c) \/ fws_client_done(c)
           \/ client_send_msg_killed(c) \/ client_recv_fails(c)
  <2>1. /\ UNCHANGED <<serverVars, waiting, cfd, c2s>>
        /\ \A d \in Client : d # c => cpc'[d] = cpc[d]
        /\ cpc[c] \notin Gone
    BY <1>2, <1>3
    DEF fws_client_connect_fails, fws_client_call_oversized, fws_client_done,
        client_send_msg_killed, client_recv_fails, conversation, Gone
  <2>2. QED
    BY <2>1, ClientMoves
<1>4. CASE client_recv_size(c) \/ client_recv_msg(c)
  <2>1. /\ UNCHANGED <<serverVars, waiting, cfd, c2s>>
        /\ \A d \in Client : d # c => cpc'[d] = cpc[d]
        /\ cpc[c] \notin Gone
    BY <1>2, <1>4 DEF client_recv_size, client_recv_msg, Gone
  <2>2. QED
    BY <2>1, ClientMoves
<1>5. CASE fws_client_call(c) \/ client_send_msg(c)
  <2>1. PICK unit : c2s' = SentBy(c, unit)
    BY <1>5 DEF fws_client_call, client_send_msg
  <2>2. /\ UNCHANGED <<serverVars, waiting, cfd>>
        /\ \A d \in Client : d # c => cpc'[d] = cpc[d]
        /\ cpc[c] \notin Gone
    BY <1>2, <1>5 DEF fws_client_call, client_send_msg, Gone
  <2>3. /\ \A d \in Client : d # c => c2s'[d] = c2s[d]
        /\ c2s'[c] = c2s[c] \/ c2s'[c] = Append(c2s[c], unit)
    BY <1>2, <2>1 DEF SentBy
  <2>4. Append(c2s[c], unit) # <<>>
    <3>1. Len(c2s[c]) \in Nat
      BY <1>2
    <3>2. Len(Append(c2s[c], unit)) = Len(c2s[c]) + 1
      BY <1>2
    <3>3. QED
      BY <3>1, <3>2
  <2>5. QED
    BY <2>2, <2>3, <2>4, ClientMoves
<1>6. CASE client_crash(c)
  <2>1. /\ UNCHANGED <<serverVars, waiting, cfd>>
        /\ \A d \in Client : d # c => cpc'[d] = cpc[d]
        /\ cpc'[c] \in Gone
        /\ \A d \in Client : d # c => c2s'[d] = c2s[d]
    BY <1>2, <1>6 DEF client_crash, Gone
  <2>2. QED
    BY <2>1, ClientMoves
<1>7. QED
  BY <1>1, <1>3, <1>4, <1>5, <1>6 DEF ClientStep, CallStep

LEMMA StepsAreServers == IInv /\ [Next]_vars => [S!Next]_(S!vars)
<1>1. ASSUME UNCHANGED vars PROVE UNCHANGED S!vars
  <2>1. ServerPc' = ServerPc /\ Readable' = Readable
    BY <1>1 DEF vars, serverVars, conversation, clients, ServerPc, Readable
  <2>2. QED
    BY <1>1, <2>1 DEF vars, serverVars, conversation, S!vars, S!server, S!kernel
<1>2. QED
  BY <1>1, ServerStepsAreServers, ClientStepsAreServers DEF Next

-----------------------------------------------------------------------------
(* Types *)

OwnTypes ==
  /\ waiting \in Seq(Client)
  /\ cfd \in [Client -> Fd \cup {0}]
  /\ cut \subseteq Client
  /\ c2s \in [Client -> Seq({SIZE} \cup RequestFrame)]
  /\ s2c \in [Client -> Seq({SIZE} \cup ResponseFrame)]
  /\ env_resp \in ResponseFrame \cup {NoFrame}
  /\ cpc \in [Client -> {"start", "open"} \cup InCall \cup Gone]
  /\ calls \in [Client -> 0 .. CallNumbers]
  /\ result \in [Client -> Run \cup {<<>>}]
  /\ status \in [Client -> {"none", "pending", "run", "refused", "lost"}]
  /\ value \in [Client -> Run \cup {<<>>}]

(* The run of a callback takes name and data from the request, and what    *)
(* answers it carries the same.                                            *)
LEMMA ServedFrame ==
  ASSUME NEW f \in {SIZE} \cup RequestFrame, f.kind = "body",
         NEW i \in Dispatch(f.type), NEW outcome \in Outcome
  PROVE  /\ <<i, f.type, f.data>> \in Run
         /\ Response(f, <<i, f.type, f.data>>, outcome) \in ResponseFrame \cup {NoFrame}
<1>1. f.type \in Type /\ f.data \in Client \X (1 .. CallNumbers)
  BY OddAssumption DEF RequestFrame, SIZE
<1>2. <<i, f.type, f.data>> \in Run
  BY <1>1 DEF Run, Dispatch
<1> HIDE DEF Run
<1>3. QED
  BY <1>1, <1>2, OutcomeAssumption DEF Response, ResponseFrame

LEMMA RemainderTyped ==
  ASSUME NEW Elem, NEW q \in [Client -> Seq(Elem)], NEW c \in Client
  PROVE  q[c] # <<>> => [q EXCEPT ![c] = Tail(@)] \in [Client -> Seq(Elem)] /\ Head(q[c]) \in Elem
  OBVIOUS

LEMMA ExtensionTyped ==
  ASSUME NEW Elem, NEW q \in [Client -> Seq(Elem)], NEW c \in Client, NEW x \in Elem
  PROVE  [q EXCEPT ![c] = Append(@, x)] \in [Client -> Seq(Elem)]
  OBVIOUS

LEMMA EmptiedTyped ==
  ASSUME NEW Elem, NEW q \in [Client -> Seq(Elem)], NEW c \in Client
  PROVE  [q EXCEPT ![c] = <<>>] \in [Client -> Seq(Elem)]
<1>1. <<>> \in Seq(Elem)
  BY EmptySeq
<1>2. QED
  BY <1>1

LEMMA DiscardingTyped ==
  ASSUME OwnTypes, NEW cs PROVE Discarding(cs) \in [Client -> Seq({SIZE} \cup RequestFrame)]
<1>1. \A c \in Client : c2s[c] \in Seq({SIZE} \cup RequestFrame) /\ <<>> \in Seq({SIZE} \cup RequestFrame)
  BY DEF OwnTypes
<1>2. QED
  BY <1>1 DEF Discarding

LEMMA ServerTypesKeep == OwnTypes /\ ResponseIsDue /\ (ServerStep \/ fws_done) => OwnTypes'
<1> SUFFICES ASSUME OwnTypes, ResponseIsDue, ServerStep \/ fws_done PROVE OwnTypes'
  OBVIOUS
<1>1. CASE fws_server_bind \/ select \/ pick_active \/ serve_nobody
  BY <1>1 DEF fws_server_bind, select, pick_active, serve_nobody, conversation, clients, history, OwnTypes
<1>2. CASE accept
  <2>1. Head(waiting) \in Client /\ Tail(waiting) \in Seq(Client)
    BY <1>2 DEF accept, OwnTypes
  <2>2. QED
    BY <1>2, <2>1 DEF accept, clients, history, OwnTypes
<1>3. CASE accept_fails
  <2>1. Head(waiting) \in Client /\ Tail(waiting) \in Seq(Client)
    BY <1>3 DEF accept_fails, OwnTypes
  <2>2. QED
    BY <1>3, <2>1, DiscardingTyped DEF accept_fails, clients, history, OwnTypes
<1>4. CASE connection_recv_size
  <2>1. c2s' \in [Client -> Seq({SIZE} \cup RequestFrame)]
    BY <1>4, RemainderTyped DEF connection_recv_size, OwnTypes, Peer
  <2>2. QED
    BY <1>4, <2>1 DEF connection_recv_size, clients, history, OwnTypes
<1>5. CASE fws_server_serve
  <2>1. PICK c \in Peer :
          /\ c2s[c] # <<>>
          /\ c2s' = [c2s EXCEPT ![c] = Tail(@)]
          /\ \/ env_resp' = Fault /\ status' = [status EXCEPT ![c] = "refused"] /\ value' = value
             \/ /\ Head(c2s[c]).kind = "body"
                /\ \E i \in Dispatch(Head(c2s[c]).type), outcome \in Outcome :
                     LET run == <<i, Head(c2s[c]).type, Head(c2s[c]).data>>
                     IN /\ env_resp' = Response(Head(c2s[c]), run, outcome)
                        /\ value' = [value EXCEPT ![c] = IF outcome = "output" THEN run ELSE <<>>]
                /\ status' = [status EXCEPT ![c] = "run"]
    BY <1>5 DEF fws_server_serve
  <2>2. c \in Client
    BY DEF Peer
  <2>3. /\ c2s' \in [Client -> Seq({SIZE} \cup RequestFrame)]
        /\ Head(c2s[c]) \in {SIZE} \cup RequestFrame
    BY <2>1, <2>2, RemainderTyped DEF OwnTypes
  <2>4. /\ env_resp' \in ResponseFrame \cup {NoFrame}
        /\ value' \in [Client -> Run \cup {<<>>}]
    <3>1. CASE env_resp' = Fault /\ value' = value
      BY <3>1 DEF ResponseFrame, OwnTypes
    <3>2. CASE Head(c2s[c]).kind = "body" /\ ~(env_resp' = Fault /\ value' = value)
      <4> DEFINE f == Head(c2s[c])
      <4>1. PICK i \in Dispatch(f.type), outcome \in Outcome :
              /\ env_resp' = Response(f, <<i, f.type, f.data>>, outcome)
              /\ value' = [value EXCEPT ![c] = IF outcome = "output" THEN <<i, f.type, f.data>> ELSE <<>>]
        BY <2>1, <3>2
      <4>2. /\ <<i, f.type, f.data>> \in Run
            /\ Response(f, <<i, f.type, f.data>>, outcome) \in ResponseFrame \cup {NoFrame}
        BY <2>3, <3>2, ServedFrame
      <4>3. QED
        BY <4>1, <4>2 DEF OwnTypes
    <3>3. QED
      BY <2>1, <3>1, <3>2
  <2>5. status' \in [Client -> {"none", "pending", "run", "refused", "lost"}]
    BY <2>1 DEF OwnTypes
  <2>6. QED
    BY <1>5, <2>3, <2>4, <2>5 DEF fws_server_serve, clients, OwnTypes
<1>6. CASE server_close_connection
  <2>1. cfd' \in [Client -> Fd \cup {0}] /\ cut' \subseteq Client
    BY <1>6 DEF server_close_connection, OwnTypes, Peer
  <2>2. QED
    BY <1>6, <2>1 DEF server_close_connection, clients, history, OwnTypes
<1>7. CASE connection_send_size \/ server_send_msg
  <2>1. \/ s2c' = s2c
        \/ \E c \in Peer, unit \in {SIZE} \cup ResponseFrame : s2c' = SentTo(c, unit)
    <3>1. spc = "reply_data" => env_resp \in ResponseFrame
      BY DEF OwnTypes, ResponseIsDue
    <3>2. QED
      BY <1>7, <3>1 DEF connection_send_size, server_send_msg
  <2>2. s2c' \in [Client -> Seq({SIZE} \cup ResponseFrame)]
    <3>1. ASSUME NEW c \in Client, NEW unit \in {SIZE} \cup ResponseFrame
          PROVE  SentTo(c, unit) \in [Client -> Seq({SIZE} \cup ResponseFrame)]
      <4>1. s2c \in [Client -> Seq({SIZE} \cup ResponseFrame)]
        BY DEF OwnTypes
      <4>2. QED
        BY <4>1, ExtensionTyped DEF SentTo
    <3>2. s2c \in [Client -> Seq({SIZE} \cup ResponseFrame)] /\ Peer \subseteq Client
      BY DEF OwnTypes, Peer
    <3>3. QED
      BY <2>1, <3>1, <3>2
  <2>3. QED
    BY <1>7, <2>2 DEF connection_send_size, server_send_msg, clients, history, OwnTypes
<1>8. CASE server_send_msg_killed
  <2>1. cut' \subseteq Client /\ waiting' \in Seq(Client) /\ cfd' \in [Client -> Fd \cup {0}]
    BY <1>8 DEF server_send_msg_killed, OwnTypes, Range
  <2>2. QED
    BY <1>8, <2>1, DiscardingTyped DEF server_send_msg_killed, clients, history, OwnTypes
<1>9. CASE fws_done
  <2>1. cut' \subseteq Client /\ waiting' \in Seq(Client)
    BY <1>9 DEF fws_done, OwnTypes, Range
  <2>2. QED
    BY <1>9, <2>1, DiscardingTyped DEF fws_done, clients, history, OwnTypes
<1>10. QED
  BY <1>1, <1>2, <1>3, <1>4, <1>5, <1>6, <1>7, <1>8, <1>9 DEF ServerStep

(* What a client sends is a request of its current call.                   *)
LEMMA SentFrame ==
  ASSUME OwnTypes, NEW c \in Client, Open(c), client_send_msg(c)
  PROVE  \E frame \in RequestOf(c) : c2s' = SentBy(c, frame)
<1>1. PICK frame \in {Request(t, <<c, calls[c]>>) : t \in Type \ Oversized}
                     \cup {[kind |-> k] : k \in OddFrame} :
        c2s' = SentBy(c, frame)
  BY DEF client_send_msg
<1>2. calls[c] \in 1 .. CallNumbers
  <2>1. calls[c] \in 0 .. CallNumbers /\ calls[c] > 0
    BY DEF client_send_msg, Open, InCall, OwnTypes
  <2>2. QED
    BY <2>1, CallAssumption
<1>3. CASE \E t \in Type : frame = Request(t, <<c, calls[c]>>)
  BY <1>1, <1>2, <1>3 DEF Request, RequestOf, RequestFrame
<1>4. CASE \E k \in OddFrame : frame = [kind |-> k]
  <2>1. PICK k \in OddFrame : frame = [kind |-> k]
    BY <1>4
  <2>2. frame.kind # "body"
    BY <2>1, OddAssumption
  <2>3. QED
    BY <1>1, <1>4, <2>2 DEF RequestOf, RequestFrame
<1>5. QED
  BY <1>1, <1>3, <1>4

LEMMA ClientTypesKeep ==
  ASSUME OwnTypes, NEW c \in Client, ClientStep(c), Open(c)
  PROVE  OwnTypes'
<1>1. CASE fws_client_connect(c)
  BY <1>1 DEF fws_client_connect, serverVars, history, OwnTypes
<1>2. CASE fws_client_connect_fails(c) \/ fws_client_call_oversized(c) \/ fws_client_done(c)
           \/ client_send_msg_killed(c)
  BY <1>2 DEF fws_client_connect_fails, fws_client_call_oversized, fws_client_done,
              client_send_msg_killed, conversation, history, OwnTypes, Gone
<1>3. CASE fws_client_call(c)
  <2>1. c2s' \in [Client -> Seq({SIZE} \cup RequestFrame)]
    BY <1>3, ExtensionTyped DEF fws_client_call, SentBy, OwnTypes
  <2>2. calls' \in [Client -> 0 .. CallNumbers]
    BY <1>3, CallAssumption DEF fws_client_call, OwnTypes
  <2>3. QED
    BY <1>3, <2>1, <2>2 DEF fws_client_call, OwnTypes, InCall
<1>4. CASE client_send_msg(c)
  <2>1. PICK frame \in RequestOf(c) : c2s' = SentBy(c, frame)
    BY <1>4, SentFrame
  <2>2. c2s' \in [Client -> Seq({SIZE} \cup RequestFrame)]
    BY <2>1, ExtensionTyped DEF RequestOf, SentBy, OwnTypes
  <2>3. QED
    BY <1>4, <2>2 DEF client_send_msg, history, OwnTypes, InCall
<1>5. CASE client_recv_size(c)
  <2>1. s2c' \in [Client -> Seq({SIZE} \cup ResponseFrame)]
    BY <1>5, RemainderTyped DEF client_recv_size, OwnTypes
  <2>2. QED
    BY <1>5, <2>1 DEF client_recv_size, history, OwnTypes, InCall
<1>6. CASE client_recv_msg(c)
  <2>1. /\ s2c' \in [Client -> Seq({SIZE} \cup ResponseFrame)]
        /\ Head(s2c[c]) \in {SIZE} \cup ResponseFrame
    BY <1>6, RemainderTyped DEF client_recv_msg, OwnTypes
  <2>2. result' \in [Client -> Run \cup {<<>>}]
    <3>1. Head(s2c[c]).kind = "body" => Head(s2c[c]).data \in Run
      BY <2>1 DEF ResponseFrame, SIZE, Fault
    <3>2. QED
      BY <1>6, <3>1 DEF client_recv_msg, OwnTypes
  <2>3. QED
    BY <1>6, <2>1, <2>2 DEF client_recv_msg, Returned, OwnTypes
<1>7. CASE client_recv_fails(c)
  BY <1>7 DEF client_recv_fails, Returned, conversation, OwnTypes
<1>8. CASE client_crash(c)
  <2>1. /\ c2s' \in [Client -> Seq({SIZE} \cup RequestFrame)]
        /\ s2c' \in [Client -> Seq({SIZE} \cup ResponseFrame)]
    <3>1. /\ c2s \in [Client -> Seq({SIZE} \cup RequestFrame)]
          /\ s2c \in [Client -> Seq({SIZE} \cup ResponseFrame)]
      BY DEF OwnTypes
    <3>2. /\ [c2s EXCEPT ![c] = <<>>] \in [Client -> Seq({SIZE} \cup RequestFrame)]
          /\ [s2c EXCEPT ![c] = <<>>] \in [Client -> Seq({SIZE} \cup ResponseFrame)]
      BY <3>1, EmptiedTyped
    <3>3. QED
      BY <1>8, <3>1, <3>2 DEF client_crash
  <2>2. QED
    BY <1>8, <2>1 DEF client_crash, history, OwnTypes, Gone
<1>9. QED
  BY <1>1, <1>2, <1>3, <1>4, <1>5, <1>6, <1>7, <1>8 DEF ClientStep, CallStep

-----------------------------------------------------------------------------
(* Connections and descriptors *)

Tables == EveryPeerIsListed /\ Links /\ Descriptors

(* With the tables of the server in order it is enough to compare the      *)
(* connections with its descriptors.                                       *)
LEMMA TablesFollow ==
  ASSUME SP!IInv',
         S!Running' => open' \ {socket'} = {cfd'[c] : c \in Client} \ {0},
         \A c, d \in Client : c # d /\ cfd'[c] # 0 => cfd'[c] # cfd'[d],
         \A c \in Range(waiting') : cfd'[c] = 0 /\ c \notin cut'
  PROVE  EveryPeerIsListed'
<1>1. S!Running' => S!Sockets' = open' \ {socket'}
  BY SameServer DEF SP!IInv, SP!TablesAgree, S!Running, SP!Running, S!Sockets, SP!Sockets
<1>2. QED
  BY <1>1 DEF EveryPeerIsListed

LEMMA BindLinks == IInv /\ fws_server_bind /\ SP!IInv' => Tables'
<1> SUFFICES ASSUME IInv, fws_server_bind, SP!IInv' PROVE Tables'
  OBVIOUS
<1>1. /\ UNCHANGED <<waiting, cfd, cut, c2s, cpc>>
      /\ spc' \in {"select", "unbound", "crash"}
      /\ S!server_create \/ S!server_create_fails \/ S!server_accept_null
  BY DEF fws_server_bind, conversation, clients, S!Bind
<1>2. EveryPeerIsListed /\ Links /\ Descriptors /\ waiting \in Seq(Client)
  BY DEF IInv, TypeOK
<1>3. spc = "bind" => open = {}
  BY DEF IInv, SP!IInv, SP!Idle, ServerPc
<1>4. Links'
  BY <1>1, <1>2 DEF Links
<1>5. CASE S!server_create
  <2>1. /\ spc = "bind" /\ spc' = "select"
        /\ \E fd \in Fd : socket' = fd /\ open' = {fd}
    BY <1>1, <1>5 DEF S!server_create, S!Goto, ServerPc
  <2>2. \A c \in Client : cfd[c] = 0
    BY <1>2, <1>3, <2>1 DEF Descriptors
  <2>3. EveryPeerIsListed'
    BY <1>1, <1>2, <2>1, <2>2, TablesFollow DEF EveryPeerIsListed
  <2>4. Descriptors'
    BY <1>1, <2>1, <2>2 DEF Descriptors, S!Running, ServerPc
  <2>5. QED
    BY <1>4, <2>3, <2>4 DEF Tables
<1>6. CASE S!server_create_fails
  <2>1. /\ spc = "bind" /\ spc' = "unbound" /\ socket' = socket
        /\ open' \subseteq Fd
    BY <1>1, <1>6 DEF S!server_create_fails, S!Goto, ServerPc, S!server
  <2>2. ~S!Running' /\ \A c \in Client : cfd[c] = 0
    BY <1>2, <1>3, <2>1 DEF Descriptors, S!Running, ServerPc
  <2>3. EveryPeerIsListed'
    BY <1>1, <1>2, <2>2 DEF EveryPeerIsListed
  <2>4. Descriptors'
    BY <1>1, <1>2, <2>1, <2>2, ServerAssumption DEF Descriptors, S!INVALID_SOCKET
  <2>5. QED
    BY <1>4, <2>3, <2>4 DEF Tables
<1>7. CASE S!server_accept_null
  <2>1. /\ spc = "unbound" /\ spc' = "crash" /\ UNCHANGED <<socket, open>>
    BY <1>1, <1>7 DEF S!server_accept_null, S!Goto, ServerPc, S!server, S!kernel
  <2>2. ~S!Running' /\ ~S!Running
    BY <2>1 DEF S!Running, ServerPc
  <2>3. EveryPeerIsListed'
    BY <1>1, <1>2, <2>2 DEF EveryPeerIsListed
  <2>4. Descriptors'
    BY <1>1, <1>2, <2>1, <2>2 DEF Descriptors
  <2>5. QED
    BY <1>4, <2>3, <2>4 DEF Tables
<1>8. QED
  BY <1>1, <1>5, <1>6, <1>7

(* Nothing comes or goes while the server waits, receives and sends.       *)
LEMMA TalkLinks ==
  IInv /\ SP!IInv' /\ (\/ select \/ pick_active \/ serve_nobody \/ connection_recv_size
                       \/ fws_server_serve \/ connection_send_size \/ server_send_msg)
  => Tables'
<1> SUFFICES ASSUME IInv, SP!IInv', \/ select \/ pick_active \/ serve_nobody \/ connection_recv_size
                                    \/ fws_server_serve \/ connection_send_size \/ server_send_msg
             PROVE  Tables'
  OBVIOUS
<1>1. UNCHANGED <<waiting, cfd, cut, cpc, socket, open>>
  BY DEF select, pick_active, serve_nobody, connection_recv_size, fws_server_serve,
         connection_send_size, server_send_msg, conversation, clients, S!select, S!select_fails,
         S!pick_active, S!serve_nobody, S!connection_recv_size, S!server_recv_msg, S!Received,
         S!server_send_msg, S!server, S!kernel
<1>2. S!Running /\ S!Running' /\ spc' # "bind"
  BY RunsWhen
  DEF select, pick_active, serve_nobody, connection_recv_size, fws_server_serve,
      connection_send_size, server_send_msg, S!select, S!select_fails,
      S!pick_active, S!serve_nobody, S!server_send_msg, S!Goto, S!Running, ServerPc
<1>3. \A c \in Client : c2s'[c] = c2s[c] \/ c \in Peer
  BY DEF IInv, TypeOK, select, pick_active, serve_nobody, connection_recv_size, fws_server_serve,
         connection_send_size, server_send_msg, conversation
<1>4. EveryPeerIsListed /\ Links /\ Descriptors /\ SP!IInv
  BY DEF IInv
<1>5. EveryPeerIsListed'
  BY <1>1, <1>2, <1>4, TablesGive, TablesFollow DEF EveryPeerIsListed
<1>6. Links'
  BY <1>1, <1>3, <1>4 DEF Links, Peer
<1>7. Descriptors'
  BY <1>1, <1>2, <1>4 DEF Descriptors
<1>8. QED
  BY <1>5, <1>6, <1>7 DEF Tables

(* accept() gives the first in the backlog a descriptor of its own.        *)
LEMMA AcceptLinks == IInv /\ accept /\ SP!IInv' => Tables'
<1> SUFFICES ASSUME IInv, accept, SP!IInv' PROVE Tables'
  OBVIOUS
<1> DEFINE h == Head(waiting)
<1>1. PICK fd \in Fd \ open : cfd' = [cfd EXCEPT ![h] = fd] /\ open' = open \cup {fd}
  BY DEF accept
<1>2. /\ spc = "ready" /\ spc' = "serve"
      /\ waiting # <<>> /\ waiting' = Tail(waiting)
      /\ UNCHANGED <<cut, c2s, cpc, socket>>
  BY DEF accept, clients, S!accept
<1>3. S!Running /\ S!Running'
  BY <1>2 DEF S!Running, ServerPc
<1>4. EveryPeerIsListed /\ Links /\ Descriptors /\ SP!IInv
  BY DEF IInv
<1>5. waiting \in Seq(Client) /\ cfd \in [Client -> Fd \cup {0}]
  BY DEF IInv, TypeOK
<1>6. h \in Range(waiting) /\ h \in Client /\ Range(waiting') = Range(waiting) \ {h} /\ Distinct(waiting')
  BY <1>2, <1>4, <1>5, QueueTail DEF Links
<1>7. cfd[h] = 0 /\ h \notin cut /\ fd # 0
  BY <1>4, <1>6, ServerAssumption DEF EveryPeerIsListed
<1>8. socket \in open /\ open \ {socket} = {cfd[c] : c \in Client} \ {0}
  BY <1>3, <1>4, TablesGive DEF EveryPeerIsListed
<1>9. \A c \in Client : cfd'[c] = IF c = h THEN fd ELSE cfd[c]
  BY <1>1, <1>5
<1>10. \A c \in Client : cfd[c] # 0 => cfd[c] \in open
  BY <1>4 DEF Descriptors
<1>11. open' \ {socket'} = {cfd'[c] : c \in Client} \ {0}
  <2>1. open' \ {socket'} = (open \ {socket}) \cup {fd}
    BY <1>1, <1>2, <1>8
  <2>2. {cfd'[c] : c \in Client} \ {0} = ({cfd[c] : c \in Client} \ {0}) \cup {fd}
    BY <1>6, <1>7, <1>9
  <2>3. QED
    BY <1>8, <2>1, <2>2
<1>12. \A c, d \in Client : c # d /\ cfd'[c] # 0 => cfd'[c] # cfd'[d]
  BY <1>1, <1>4, <1>9, <1>10 DEF EveryPeerIsListed
<1>13. Range(waiting) \subseteq Client
  BY <1>5 DEF Range
<1>14. \A c \in Range(waiting') : cfd'[c] = 0 /\ c \notin cut'
  BY <1>2, <1>4, <1>6, <1>9, <1>13 DEF EveryPeerIsListed
<1>15. EveryPeerIsListed'
  BY <1>11, <1>12, <1>14, TablesFollow
<1>16. Links'
  BY <1>2, <1>4, <1>6, <1>7, <1>9 DEF Links
<1>17. Descriptors'
  BY <1>1, <1>2, <1>3, <1>4, <1>8, <1>9 DEF Descriptors
<1>18. QED
  BY <1>15, <1>16, <1>17 DEF Tables

(* What accept() fails on stays in the backlog or is cut.                  *)
LEMMA AcceptFailsLinks == IInv /\ accept_fails /\ SP!IInv' => Tables'
<1> SUFFICES ASSUME IInv, accept_fails, SP!IInv' PROVE Tables'
  OBVIOUS
<1> DEFINE h == Head(waiting)
<1>1. /\ spc = "ready" /\ spc' = "serve"
      /\ waiting # <<>>
      /\ \/ UNCHANGED <<waiting, cut>>
         \/ waiting' = Tail(waiting) /\ cut' = cut \cup {h}
      /\ c2s' = Discarding(cut')
      /\ UNCHANGED <<cfd, cpc, socket, open>>
  BY DEF accept_fails, clients, S!accept_fails, S!server
<1>2. S!Running /\ S!Running'
  BY <1>1 DEF S!Running, ServerPc
<1>3. EveryPeerIsListed /\ Links /\ Descriptors /\ SP!IInv /\ waiting \in Seq(Client)
  BY DEF IInv, TypeOK
<1>4. /\ h \in Range(waiting) /\ h \in Client
      /\ Range(Tail(waiting)) = Range(waiting) \ {h} /\ Distinct(Tail(waiting))
  BY <1>1, <1>3, QueueTail DEF Links
<1>5. cfd[h] = 0
  BY <1>3, <1>4 DEF EveryPeerIsListed
<1>6. \A c \in Client : c \in cut' => c2s'[c] = <<>> /\ (c \in cut \/ c = h)
  BY <1>1 DEF Discarding
<1>7. open' \ {socket'} = {cfd'[c] : c \in Client} \ {0}
  BY <1>1, <1>2, <1>3, TablesGive DEF EveryPeerIsListed
<1>8. Range(waiting) \subseteq Client
  BY <1>3 DEF Range
<1>9. /\ Range(waiting') \subseteq Range(waiting) /\ Distinct(waiting')
      /\ h \in cut' => h \in cut \/ h \notin Range(waiting')
  BY <1>1, <1>3, <1>4 DEF Links
<1>10. EveryPeerIsListed'
  <2>1. \A c \in Range(waiting') : cfd'[c] = 0 /\ c \notin cut'
    BY <1>1, <1>3, <1>6, <1>8, <1>9 DEF EveryPeerIsListed
  <2>2. \A c, d \in Client : c # d /\ cfd'[c] # 0 => cfd'[c] # cfd'[d]
    BY <1>1, <1>3 DEF EveryPeerIsListed
  <2>3. QED
    BY <1>7, <2>1, <2>2, TablesFollow
<1>11. Links'
  <2>1. cpc[h] # "start"
    BY <1>3, <1>4 DEF Links
  <2>2. QED
    BY <1>1, <1>3, <1>5, <1>6, <1>9, <2>1 DEF Links
<1>12. Descriptors'
  BY <1>1, <1>2, <1>3 DEF Descriptors
<1>13. QED
  BY <1>10, <1>11, <1>12 DEF Tables

(* The connection that ends is the one of client_conn.                     *)
LEMMA CloseLinks == IInv /\ server_close_connection /\ SP!IInv' => Tables'
<1> SUFFICES ASSUME IInv, server_close_connection, SP!IInv' PROVE Tables'
  OBVIOUS
<1>1. PICK p \in Peer : /\ cpc[p] \in Gone /\ c2s[p] = <<>>
                        /\ cfd' = [cfd EXCEPT ![p] = 0]
                        /\ cut' = cut \cup {p}
  BY DEF server_close_connection
<1>2. /\ spc \in {"serve", "payload"} /\ spc' = "select"
      /\ open' = open \ {client_conn.socket}
      /\ UNCHANGED <<waiting, c2s, cpc, socket>>
  BY DEF server_close_connection, clients, S!server_close_connection, ServerPc
<1>3. S!Running /\ S!Running'
  BY <1>2 DEF S!Running, ServerPc
<1>4. EveryPeerIsListed /\ Links /\ Descriptors /\ SP!IInv
  BY DEF IInv
<1>5. cfd \in [Client -> Fd \cup {0}] /\ waiting \in Seq(Client)
  BY DEF IInv, TypeOK
<1>6. p \in Client /\ cfd[p] # 0 /\ cfd[p] = client_conn.socket
  BY DEF Peer
<1>7. \A c \in Client : cfd'[c] = IF c = p THEN 0 ELSE cfd[c]
  BY <1>1, <1>5
<1>8. \A c \in Client : c # p => cfd[c] # client_conn.socket
  BY <1>4, <1>6 DEF EveryPeerIsListed
<1>9. client_conn.socket # socket
  BY <1>4, <1>6 DEF Descriptors
<1>10. open' \ {socket'} = {cfd'[c] : c \in Client} \ {0}
  <2>1. open \ {socket} = {cfd[c] : c \in Client} \ {0}
    BY <1>3, <1>4, TablesGive DEF EveryPeerIsListed
  <2>2. {cfd'[c] : c \in Client} \ {0} = ({cfd[c] : c \in Client} \ {0}) \ {client_conn.socket}
    BY <1>6, <1>7, <1>8
  <2>3. QED
    BY <1>2, <2>1, <2>2
<1>11. Range(waiting) \subseteq Client
  BY <1>5 DEF Range
<1>12. EveryPeerIsListed'
  <2>1. \A c \in Range(waiting') : cfd'[c] = 0 /\ c \notin cut'
    BY <1>1, <1>2, <1>4, <1>6, <1>7, <1>11 DEF EveryPeerIsListed
  <2>2. \A c, d \in Client : c # d /\ cfd'[c] # 0 => cfd'[c] # cfd'[d]
    BY <1>4, <1>7 DEF EveryPeerIsListed
  <2>3. QED
    BY <1>10, <2>1, <2>2, TablesFollow
<1>13. Links'
  BY <1>1, <1>2, <1>4, <1>7 DEF Links, Gone
<1>14. Descriptors'
  BY <1>2, <1>3, <1>4, <1>7, <1>8 DEF Descriptors
<1>15. QED
  BY <1>12, <1>13, <1>14 DEF Tables

(* The end of the process cuts whoever is in the backlog, and if it is not *)
(* fws_done also whoever was accepted.                                     *)
LEMMA EndLinks == IInv /\ (server_send_msg_killed \/ fws_done) /\ SP!IInv' => Tables'
<1> SUFFICES ASSUME IInv, server_send_msg_killed \/ fws_done, SP!IInv' PROVE Tables'
  OBVIOUS
<1>1. EveryPeerIsListed /\ Links /\ Descriptors /\ SP!IInv
  BY DEF IInv
<1>2. /\ cfd \in [Client -> Fd \cup {0}] /\ waiting \in Seq(Client)
      /\ socket \in Fd \cup {-1} /\ open \subseteq Fd
  BY DEF IInv, TypeOK, S!TypeOK, S!INVALID_SOCKET
<1>3. Range(waiting') = {} /\ Distinct(waiting') /\ c2s' = Discarding(cut') /\ cpc' = cpc
  BY DEF server_send_msg_killed, fws_done, clients, Range, Distinct
<1>4. ~S!Running' /\ spc' # "bind"
  BY DEF server_send_msg_killed, fws_done, S!Running, ServerPc
<1>5. /\ \A c \in Client : c \in cut' => c \in cut \/ c \in Range(waiting) \/ cfd[c] # 0
      /\ \A c \in Client : c \in cut' => cfd'[c] = 0
      /\ \A c \in Client : cfd'[c] = 0 \/ cfd'[c] = cfd[c]
  <2>1. CASE server_send_msg_killed
    BY <1>1, <2>1 DEF server_send_msg_killed
  <2>2. CASE fws_done
    <3>1. \A c \in Range(waiting) : cfd[c] = 0
      BY <1>1 DEF EveryPeerIsListed
    <3>2. QED
      BY <1>1, <3>1, <2>2 DEF fws_done, Links
  <2>3. QED
    BY <2>1, <2>2
<1>6. EveryPeerIsListed'
  BY <1>1, <1>3, <1>4, <1>5 DEF EveryPeerIsListed
<1>7. Links'
  BY <1>1, <1>3, <1>5 DEF Links, Discarding
<1>8. Descriptors'
  <2>1. CASE server_send_msg_killed
    BY <1>4, <2>1 DEF server_send_msg_killed, S!server_send_msg_killed, Descriptors
  <2>2. CASE fws_done
    <3>1. socket' = -1 /\ open' = open \ {socket} /\ cfd' = cfd
      BY <2>2 DEF fws_done, S!server_destroy, S!INVALID_SOCKET
    <3>2. -1 \notin Fd
      BY ServerAssumption
    <3>3. QED
      BY <1>1, <1>2, <1>4, <3>1, <3>2 DEF Descriptors
  <2>3. QED
    BY <2>1, <2>2
<1>9. QED
  BY <1>6, <1>7, <1>8 DEF Tables

(* A client that connects is in the backlog and nowhere else.              *)
LEMMA ClientLinks ==
  ASSUME IInv, SP!IInv', NEW c \in Client, ClientStep(c)
  PROVE  Tables'
<1>1. EveryPeerIsListed /\ Links /\ Descriptors /\ SP!IInv
  BY DEF IInv
<1>2. /\ waiting \in Seq(Client)
      /\ cpc \in [Client -> {"start", "open"} \cup InCall \cup Gone]
      /\ c2s \in [Client -> Seq({SIZE} \cup RequestFrame)]
  BY DEF IInv, TypeOK
<1>3. UNCHANGED <<spc, socket, connections, open, cfd, cut>>
  BY DEF ClientStep, CallStep, fws_client_connect, fws_client_connect_fails, fws_client_call,
         fws_client_call_oversized, fws_client_done, client_crash, client_send_msg,
         client_send_msg_killed, client_recv_size, client_recv_msg, client_recv_fails,
         conversation, serverVars
<1>4. S!Running' <=> S!Running
  BY <1>3 DEF S!Running, ServerPc
<1>5. Descriptors'
  BY <1>1, <1>3, <1>4 DEF Descriptors
<1>6. \A d \in Client : d # c => cpc'[d] = cpc[d]
  BY <1>2 DEF ClientStep, CallStep, fws_client_connect, fws_client_connect_fails, fws_client_call,
         fws_client_call_oversized, fws_client_done, client_crash, client_send_msg,
         client_send_msg_killed, client_recv_size, client_recv_msg, client_recv_fails
<1>7. cpc'[c] # "start"
  BY <1>2 DEF ClientStep, CallStep, fws_client_connect, fws_client_connect_fails, fws_client_call,
         fws_client_call_oversized, fws_client_done, client_crash, client_send_msg,
         client_send_msg_killed, client_recv_size, client_recv_msg, client_recv_fails
<1>8. \A d \in cut : d \in Client => c2s'[d] = c2s[d] \/ c2s'[d] = <<>>
  BY <1>2 DEF ClientStep, CallStep, fws_client_connect, fws_client_connect_fails, fws_client_call,
         fws_client_call_oversized, fws_client_done, client_crash, client_send_msg,
         client_send_msg_killed, client_recv_size, client_recv_msg, client_recv_fails, SentBy,
         conversation
<1>9. CASE waiting' = waiting
  <2>1. EveryPeerIsListed'
    BY <1>1, <1>3, <1>4, <1>9 DEF EveryPeerIsListed, S!Sockets
  <2>2. Links'
    BY <1>1, <1>3, <1>6, <1>7, <1>8, <1>9 DEF Links
  <2>3. QED
    BY <1>5, <2>1, <2>2 DEF Tables
<1>10. CASE fws_client_connect(c)
  <2>1. waiting' = Append(waiting, c) /\ cpc[c] = "start"
    BY <1>10 DEF fws_client_connect
  <2>2. c \notin Range(waiting) /\ c \notin cut /\ cfd[c] = 0
    BY <1>1, <2>1 DEF Links
  <2>3. Range(waiting') = Range(waiting) \cup {c} /\ Distinct(waiting')
    BY <1>1, <1>2, <2>1, <2>2, QueueAppend DEF Links
  <2>4. EveryPeerIsListed'
    BY <1>1, <1>3, <1>4, <2>2, <2>3 DEF EveryPeerIsListed, S!Sockets
  <2>5. Links'
    BY <1>1, <1>3, <1>6, <1>7, <1>8, <2>3 DEF Links
  <2>6. QED
    BY <1>5, <2>4, <2>5 DEF Tables
<1>11. QED
  BY <1>9, <1>10 DEF ClientStep, CallStep, fws_client_connect_fails, fws_client_call,
         fws_client_call_oversized, fws_client_done, client_crash, client_send_msg,
         client_send_msg_killed, client_recv_size, client_recv_msg, client_recv_fails,
         conversation

LEMMA TablesKeep == IInv /\ SP!IInv' /\ Next => Tables'
  BY BindLinks, TalkLinks, AcceptLinks, AcceptFailsLinks, CloseLinks, EndLinks, ClientLinks
  DEF Next, ServerStep

-----------------------------------------------------------------------------
(* Turns *)

(* Nothing about a client changes but perhaps whether it is cut.           *)
SameFor(d) ==
  /\ cpc'[d] = cpc[d] /\ calls'[d] = calls[d] /\ result'[d] = result[d]
  /\ status'[d] = status[d] /\ value'[d] = value[d]
  /\ s2c'[d] = s2c[d]

LEMMA SameFrames ==
  ASSUME NEW d \in Client, SameFor(d)
  PROVE  RequestOf(d)' = RequestOf(d) /\ ReplyTo(d)' = ReplyTo(d)
  BY DEF SameFor, RequestOf, ReplyTo

(* A step that leaves a connection and its two ends alone.                 *)
LEMMA Untouched ==
  ASSUME NEW d \in Client, Consistent(d), SameFor(d),
         c2s'[d] = c2s[d], d \in cut' <=> d \in cut,
         \A p \in Talking : At(d, p)' <=> At(d, p)
  PROVE  Consistent(d)'
<1>1. RequestOf(d)' = RequestOf(d) /\ ReplyTo(d)' = ReplyTo(d)
  BY SameFrames
<1>2. /\ At(d, "payload")' <=> At(d, "payload")
      /\ At(d, "reply")' <=> At(d, "reply")
      /\ At(d, "reply_data")' <=> At(d, "reply_data")
      /\ Answering(d)' <=> Answering(d)
  BY DEF Talking, Answering, At
<1>3. Turn(d)'
  BY <1>1, <1>2 DEF SameFor, Consistent, Turn, TurnSending, TurnWaiting, TurnSized, TurnGone, Silent
<1>4. Open(d)' /\ Own(d)'
  BY <1>2 DEF SameFor, Consistent, Open, Own
<1>5. QED
  BY <1>3, <1>4 DEF Consistent

(* A step that cuts a connection the server is not talking to, with what   *)
(* was in flight to the server.                                            *)
LEMMA CutOff ==
  ASSUME NEW d \in Client, Consistent(d), SameFor(d),
         c2s'[d] = <<>>, d \in cut', ~Answering(d), ~Answering(d)'
  PROVE  Consistent(d)'
<1>1. RequestOf(d)' = RequestOf(d) /\ ReplyTo(d)' = ReplyTo(d)
  BY SameFrames
<1>2. /\ ~At(d, "payload") /\ ~At(d, "reply") /\ ~At(d, "reply_data")
      /\ ~At(d, "payload")' /\ ~At(d, "reply")' /\ ~At(d, "reply_data")'
  BY DEF At, Answering
<1>3. Turn(d)'
  BY <1>1, <1>2 DEF SameFor, Consistent, Turn, TurnSending, TurnWaiting, TurnSized, TurnGone, Silent
<1>4. Open(d)' /\ Own(d)'
  BY <1>2 DEF SameFor, Consistent, Open, Own
<1>5. QED
  BY <1>3, <1>4 DEF Consistent

(* Before and after, the server talks to nobody.                           *)
LEMMA NobodyTalks ==
  ASSUME spc \notin Talking, spc' \notin Talking
  PROVE  /\ \A d \in Client : ~Answering(d) /\ ~Answering(d)'
         /\ \A d \in Client : \A p \in Talking : At(d, p)' <=> At(d, p)
  BY DEF Talking, Answering, At

Turns == ResponseIsDue /\ \A d \in Client : Consistent(d)

LEMMA QuietTurns ==
  IInv /\ (fws_server_bind \/ select \/ pick_active \/ accept \/ serve_nobody) => Turns'
<1> SUFFICES ASSUME IInv, fws_server_bind \/ select \/ pick_active \/ accept \/ serve_nobody
             PROVE  Turns'
  OBVIOUS
<1>1. UNCHANGED <<cut, c2s, s2c, env_resp, cpc, calls, result, status, value>>
  BY DEF fws_server_bind, select, pick_active, accept, serve_nobody, conversation, clients, history
<1>2. spc \notin Talking /\ spc' \notin Talking
  BY DEF fws_server_bind, select, pick_active, accept, serve_nobody, S!Bind, S!server_create,
         S!server_create_fails, S!server_accept_null, S!select, S!select_fails, S!pick_active,
         S!serve_nobody, S!Goto, ServerPc, Talking
<1>3. \A d \in Client : Consistent(d)'
  BY <1>1, <1>2, NobodyTalks, Untouched DEF IInv, SameFor
<1>4. ResponseIsDue'
  BY <1>1, <1>2 DEF IInv, ResponseIsDue, Talking
<1>5. QED
  BY <1>3, <1>4 DEF Turns

LEMMA CutTurns == IInv /\ (accept_fails \/ fws_done) => Turns'
<1> SUFFICES ASSUME IInv, accept_fails \/ fws_done PROVE Turns'
  OBVIOUS
<1>1. /\ UNCHANGED <<s2c, env_resp, cpc, calls, result, status, value>>
      /\ cut \subseteq cut'
      /\ c2s' = Discarding(cut')
  BY DEF accept_fails, fws_done, clients, history
<1>2. spc \notin Talking /\ spc' \notin Talking
  BY DEF accept_fails, fws_done, S!server_destroy, S!Goto, ServerPc, Talking
<1>3. ASSUME NEW d \in Client PROVE Consistent(d)'
  <2>1. Consistent(d) /\ SameFor(d)
    BY <1>1 DEF IInv, SameFor
  <2>2. CASE d \in cut'
    BY <1>1, <1>2, <2>1, <2>2, NobodyTalks, CutOff DEF Discarding
  <2>3. CASE d \notin cut'
    BY <1>1, <1>2, <2>1, <2>3, NobodyTalks, Untouched DEF Discarding
  <2>4. QED
    BY <2>2, <2>3
<1>4. ResponseIsDue'
  BY <1>1, <1>2 DEF IInv, ResponseIsDue, Talking
<1>5. QED
  BY <1>3, <1>4 DEF Turns

LEMMA ShortQueues ==
  /\ \A a : Head(<<a>>) = a /\ Tail(<<a>>) = <<>> /\ Append(<<>>, a) = <<a>> /\ <<a>> # <<>>
  /\ \A a, b : Head(<<a, b>>) = a /\ Tail(<<a, b>>) = <<b>> /\ Append(<<a>>, b) = <<a, b>> /\ <<a, b>> # <<>>
  /\ \A a, b, c : <<a>> # <<b, c>>
<1>1. \A a : Head(<<a>>) = a /\ <<a>> # <<>>
  OBVIOUS
<1>2. \A a, b : Head(<<a, b>>) = a /\ <<a, b>> # <<>>
  OBVIOUS
<1>3. \A a : Tail(<<a>>) = <<>>
  OBVIOUS
<1>4. \A a : Append(<<>>, a) = <<a>>
  OBVIOUS
<1>5. \A a, b : Tail(<<a, b>>) = <<b>>
  OBVIOUS
<1>6. \A a, b : Append(<<a>>, b) = <<a, b>>
  <2> SUFFICES ASSUME NEW a, NEW b PROVE Append(<<a>>, b) = <<a, b>>
    OBVIOUS
  <2> DEFINE s == Append(<<a>>, b)
  <2>1. <<a>> \in Seq({a, b}) /\ b \in {a, b} /\ <<a, b>> \in Seq({a, b})
    OBVIOUS
  <2>2. s \in Seq({a, b}) /\ Len(s) = 2 /\ s[1] = a /\ s[2] = b
    BY <2>1
  <2> HIDE DEF s
  <2>3. \A i \in 1 .. 2 : s[i] = <<a, b>>[i]
    BY <2>2
  <2>4. QED
    BY <2>1, <2>2, <2>3, SeqEqual DEF s
<1>7. \A a, b, c : <<a>> # <<b, c>>
  OBVIOUS
<1>8. QED
  BY <1>1, <1>2, <1>3, <1>4, <1>5, <1>6, <1>7

(* Whom the server talks to stays the same while it does.                  *)
LEMMA PeerStays ==
  ASSUME EveryPeerIsListed, UNCHANGED <<cfd, client_conn>>, NEW p \in Peer
  PROVE  /\ Peer' = Peer /\ p \in Client
         /\ \A d \in Client : d # p => d \notin Peer /\ \A x \in Talking : ~At(d, x) /\ ~At(d, x)'
         /\ \A x \in Talking : (At(p, x) <=> spc = x) /\ (At(p, x)' <=> spc' = x)
<1>1. Peer' = Peer /\ p \in Client
  BY DEF Peer
<1>2. \A d \in Client : d # p => d \notin Peer
  BY OnePeer
<1>3. QED
  BY <1>1, <1>2 DEF At

(* What the server finds on a connection, from where it stands with it.    *)
LEMMA BeforeReceiving ==
  ASSUME NEW c \in Client, Consistent(c), OwnTypes, ~Answering(c), c2s[c] # <<>>, c \notin cut
  PROVE  /\ s2c[c] = <<>>
         /\ \/ cpc[c] \in {"sending"} \cup Gone /\ c2s[c] = <<SIZE>>
            \/ cpc[c] \in {"waiting"} \cup Gone /\ \E f \in RequestOf(c) : c2s[c] = <<SIZE, f>>
<1>1. cpc[c] \in {"start", "open", "sending", "waiting", "sized"} \cup Gone
  BY DEF OwnTypes, InCall
<1>2. ~At(c, "payload") /\ ~At(c, "reply") /\ ~At(c, "reply_data")
  BY DEF At, Answering
<1>3. Turn(c)
  BY DEF Consistent
<1>4. QED
  BY <1>1, <1>2, <1>3 DEF Turn, TurnSending, TurnWaiting, TurnSized, TurnGone, Silent

LEMMA WhileReceiving ==
  ASSUME NEW c \in Client, Consistent(c), OwnTypes, At(c, "payload")
  PROVE  /\ s2c[c] = <<>>
         /\ \/ cpc[c] \in {"sending"} \cup Gone /\ c2s[c] = <<>>
            \/ cpc[c] \in {"waiting"} \cup Gone /\ \E f \in RequestOf(c) : c2s[c] = <<f>>
<1>1. cpc[c] \in {"start", "open", "sending", "waiting", "sized"} \cup Gone
  BY DEF OwnTypes, InCall
<1>2. ~At(c, "reply") /\ ~At(c, "reply_data") /\ Answering(c)
  BY DEF At, Answering
<1>3. Turn(c)
  BY DEF Consistent
<1>4. QED
  BY <1>1, <1>2, <1>3 DEF Turn, TurnSending, TurnWaiting, TurnSized, TurnGone, Silent

LEMMA WhileAnswering ==
  ASSUME NEW c \in Client, Consistent(c), OwnTypes, At(c, "reply") \/ At(c, "reply_data")
  PROVE  /\ c2s[c] = <<>>
         /\ \/ cpc[c] = "waiting" /\ s2c[c] = (IF spc = "reply" THEN <<>> ELSE <<SIZE>>)
            \/ cpc[c] = "sized" /\ spc = "reply_data" /\ s2c[c] = <<>>
            \/ cpc[c] \in Gone /\ s2c[c] = <<>>
<1>1. cpc[c] \in {"start", "open", "sending", "waiting", "sized"} \cup Gone
  BY DEF OwnTypes, InCall
<1>2. /\ ~At(c, "payload") /\ Answering(c)
      /\ At(c, "reply") => spc = "reply"
      /\ At(c, "reply_data") => spc = "reply_data"
  BY DEF At, Answering
<1>3. Turn(c)
  BY DEF Consistent
<1>4. QED
  BY <1>1, <1>2, <1>3 DEF Turn, TurnSending, TurnWaiting, TurnSized, TurnGone, Silent

LEMMA RecvSizeTurns == IInv /\ connection_recv_size => Turns'
<1> SUFFICES ASSUME IInv, connection_recv_size PROVE Turns'
  OBVIOUS
<1>1. PICK p \in Peer : c2s[p] # <<>> /\ c2s' = [c2s EXCEPT ![p] = Tail(@)]
  BY DEF connection_recv_size
<1>2. /\ spc = "serve" /\ spc' = "payload"
      /\ UNCHANGED <<cfd, client_conn, cut, s2c, env_resp, cpc, calls, result, status, value>>
  BY DEF connection_recv_size, clients, history, S!connection_recv_size, S!Received
<1>3. EveryPeerIsListed /\ Links /\ Consistent(p) /\ OwnTypes
  BY DEF IInv, TypeOK, OwnTypes, Peer
<1>4. /\ Peer' = Peer /\ p \in Client
      /\ \A d \in Client : d # p => d \notin Peer /\ \A x \in Talking : ~At(d, x) /\ ~At(d, x)'
      /\ \A x \in Talking : (At(p, x) <=> spc = x) /\ (At(p, x)' <=> spc' = x)
  BY <1>2, <1>3, PeerStays
<1>5. \A d \in Client : c2s'[d] = IF d = p THEN Tail(c2s[p]) ELSE c2s[d]
  BY <1>1, <1>3, <1>4 DEF OwnTypes
<1>6. ASSUME NEW d \in Client, d # p PROVE Consistent(d)'
  BY <1>2, <1>4, <1>5, <1>6, Untouched DEF IInv, SameFor
<1>7. Consistent(p)'
  <2>1. /\ ~At(p, "payload") /\ ~At(p, "reply") /\ ~At(p, "reply_data") /\ ~Answering(p)
        /\ At(p, "payload")' /\ Answering(p)'
    BY <1>2, <1>4 DEF At, Answering
  <2>2. SameFor(p) /\ RequestOf(p)' = RequestOf(p) /\ ReplyTo(p)' = ReplyTo(p)
    BY <1>2, <1>4, SameFrames DEF SameFor
  <2>3. p \notin cut
    BY <1>1, <1>3, <1>4 DEF Links
  <2>4. c2s'[p] = Tail(c2s[p])
    BY <1>4, <1>5
  <2>5. /\ s2c[p] = <<>>
        /\ \/ cpc[p] \in {"sending"} \cup Gone /\ c2s[p] = <<SIZE>>
           \/ cpc[p] \in {"waiting"} \cup Gone /\ \E f \in RequestOf(p) : c2s[p] = <<SIZE, f>>
    BY <1>1, <1>3, <1>4, <2>1, <2>3, BeforeReceiving
  <2>6. Turn(p)'
    <3>1. \/ cpc'[p] \in {"sending"} \cup Gone /\ c2s'[p] = <<>>
          \/ cpc'[p] \in {"waiting"} \cup Gone /\ \E f \in RequestOf(p)' : c2s'[p] = <<f>>
      <4>1. CASE cpc[p] \in {"sending"} \cup Gone /\ c2s[p] = <<SIZE>>
        BY <2>2, <2>4, <4>1, ShortQueues DEF SameFor
      <4>2. CASE cpc[p] \in {"waiting"} \cup Gone /\ \E f \in RequestOf(p) : c2s[p] = <<SIZE, f>>
        <5>1. PICK f \in RequestOf(p) : c2s[p] = <<SIZE, f>>
          BY <4>2
        <5>2. c2s'[p] = <<f>> /\ f \in RequestOf(p)'
          BY <2>2, <2>4, <5>1, ShortQueues
        <5>3. QED
          BY <2>2, <4>2, <5>2 DEF SameFor
      <4>3. QED
        BY <2>5, <4>1, <4>2
    <3>2. s2c'[p] = <<>>
      BY <2>2, <2>5 DEF SameFor
    <3>3. QED
      BY <2>1, <3>1, <3>2 DEF Turn, TurnSending, TurnWaiting, TurnGone, Gone
  <2>7. Open(p)' /\ Own(p)'
    BY <1>1, <1>3, <2>1, <2>2 DEF SameFor, Consistent, Open, Own
  <2>8. QED
    BY <2>6, <2>7 DEF Consistent
<1>8. ResponseIsDue'
  BY <1>2 DEF IInv, ResponseIsDue
<1>9. QED
  BY <1>6, <1>7, <1>8 DEF Turns

(* The request that is received has not been run; what is made of it is    *)
(* the answer that is due.                                                 *)
LEMMA ServeTurns == IInv /\ fws_server_serve => Turns'
<1> SUFFICES ASSUME IInv, fws_server_serve PROVE Turns'
  OBVIOUS
<1>1. PICK p \in Peer :
        /\ c2s[p] # <<>>
        /\ c2s' = [c2s EXCEPT ![p] = Tail(@)]
        /\ \/ env_resp' = Fault /\ status' = [status EXCEPT ![p] = "refused"] /\ value' = value
           \/ /\ Head(c2s[p]).kind = "body"
              /\ \E i \in Dispatch(Head(c2s[p]).type), outcome \in Outcome :
                   LET run == <<i, Head(c2s[p]).type, Head(c2s[p]).data>>
                   IN /\ env_resp' = Response(Head(c2s[p]), run, outcome)
                      /\ value' = [value EXCEPT ![p] = IF outcome = "output" THEN run ELSE <<>>]
              /\ status' = [status EXCEPT ![p] = "run"]
  BY DEF fws_server_serve
<1>2. /\ spc = "payload" /\ spc' = "reply"
      /\ UNCHANGED <<cfd, client_conn, cut, s2c, cpc, calls, result>>
  BY DEF fws_server_serve, clients, S!server_recv_msg, S!Received
<1>3. EveryPeerIsListed /\ Links /\ Consistent(p) /\ OwnTypes
  BY DEF IInv, TypeOK, OwnTypes, Peer
<1>4. /\ Peer' = Peer /\ p \in Client
      /\ \A d \in Client : d # p => d \notin Peer /\ \A x \in Talking : ~At(d, x) /\ ~At(d, x)'
      /\ \A x \in Talking : (At(p, x) <=> spc = x) /\ (At(p, x)' <=> spc' = x)
  BY <1>2, <1>3, PeerStays
<1>5. /\ \A d \in Client : c2s'[d] = IF d = p THEN Tail(c2s[p]) ELSE c2s[d]
      /\ \A d \in Client : d # p => status'[d] = status[d] /\ value'[d] = value[d]
  BY <1>1, <1>3, <1>4 DEF OwnTypes
<1>6. ASSUME NEW d \in Client, d # p PROVE Consistent(d)'
  BY <1>2, <1>4, <1>5, <1>6, Untouched DEF IInv, SameFor
<1>7. /\ At(p, "payload") /\ ~At(p, "payload")' /\ At(p, "reply")'
      /\ status[p] = "pending" /\ result[p] = <<>>
  BY <1>1, <1>2, <1>3, <1>4 DEF At, Consistent, Open
<1>8. /\ s2c[p] = <<>>
      /\ cpc[p] \in {"waiting"} \cup Gone
      /\ \E f \in RequestOf(p) : c2s[p] = <<f>>
  BY <1>1, <1>3, <1>4, <1>7, WhileReceiving
<1>9. PICK f \in RequestOf(p) : c2s[p] = <<f>>
  BY <1>8
<1>10. c2s'[p] = <<>> /\ Head(c2s[p]) = f
  BY <1>4, <1>5, <1>9, ShortQueues
<1>11. Consistent(p)'
  <2>1. Turn(p)'
    BY <1>2, <1>7, <1>8, <1>10 DEF Turn, TurnWaiting, TurnGone, Silent, Gone
  <2>2. Open(p)' /\ Own(p)'
    BY <1>2, <1>3, <1>7, <1>10 DEF Consistent, Open, Own
  <2>3. QED
    BY <2>1, <2>2 DEF Consistent
<1>12. ResponseIsDue'
  <2>1. p \in Peer'
    BY <1>4
  <2>2. CASE env_resp' = Fault /\ status' = [status EXCEPT ![p] = "refused"]
    <3>1. env_resp' \in ReplyTo(p)'
      BY <2>2, <1>3, <1>4 DEF ReplyTo, ResponseFrame, Fault, OwnTypes
    <3>2. QED
      BY <2>1, <3>1, <1>2 DEF ResponseIsDue
  <2>3. CASE ~(env_resp' = Fault /\ status' = [status EXCEPT ![p] = "refused"])
    <3>1. /\ f.kind = "body"
          /\ \E i \in Dispatch(f.type), outcome \in Outcome :
               /\ env_resp' = Response(f, <<i, f.type, f.data>>, outcome)
               /\ value' = [value EXCEPT ![p] = IF outcome = "output" THEN <<i, f.type, f.data>> ELSE <<>>]
          /\ status' = [status EXCEPT ![p] = "run"]
      BY <1>1, <1>10, <2>3
    <3>2. PICK i \in Dispatch(f.type), outcome \in Outcome :
               /\ env_resp' = Response(f, <<i, f.type, f.data>>, outcome)
               /\ value' = [value EXCEPT ![p] = IF outcome = "output" THEN <<i, f.type, f.data>> ELSE <<>>]
      BY <3>1
    <3>3. f.data = <<p, calls[p]>> /\ f \in RequestFrame
      BY <3>1 DEF RequestOf
    <3>4. Response(f, <<i, f.type, f.data>>, outcome) \in ResponseFrame \cup {NoFrame}
      BY <3>1, <3>3, ServedFrame
    <3>5. status'[p] = "run" /\ value'[p] = IF outcome = "output" THEN <<i, f.type, f.data>> ELSE <<>>
      BY <3>1, <3>2, <1>3, <1>4 DEF OwnTypes
    <3>6. CASE outcome = "output"
      <4>1. env_resp' = [kind |-> "body", type |-> f.type, data |-> <<i, f.type, f.data>>]
        BY <3>2, <3>6 DEF Response
      <4>2. env_resp' \in ReplyTo(p)'
        BY <4>1, <3>2, <3>3, <3>4, <3>5, <3>6, <1>2 DEF ReplyTo, NoFrame
      <4>3. QED
        BY <2>1, <4>2, <1>2 DEF ResponseIsDue
    <3>7. CASE outcome = "error"
      <4>1. env_resp' = Fault
        BY <3>2, <3>7 DEF Response
      <4>2. env_resp' \in ReplyTo(p)'
        BY <4>1, <3>5 DEF ReplyTo, ResponseFrame, Fault
      <4>3. QED
        BY <2>1, <4>2, <1>2 DEF ResponseIsDue
    <3>8. CASE outcome = "silent"
      <4>1. env_resp' = NoFrame
        BY <3>2, <3>8 DEF Response
      <4>2. QED
        BY <4>1, <1>2 DEF ResponseIsDue
    <3>9. QED
      BY <3>6, <3>7, <3>8, OutcomeAssumption
  <2>4. QED
    BY <2>2, <2>3
<1>13. QED
  BY <1>6, <1>11, <1>12 DEF Turns

(* Nothing is left in a connection that the server closes.                 *)
LEMMA CloseTurns == IInv /\ server_close_connection => Turns'
<1> SUFFICES ASSUME IInv, server_close_connection PROVE Turns'
  OBVIOUS
<1>1. PICK p \in Peer : /\ cpc[p] \in Gone /\ c2s[p] = <<>>
                        /\ cut' = cut \cup {p}
  BY DEF server_close_connection
<1>2. /\ spc \in {"serve", "payload"} /\ spc' = "select"
      /\ UNCHANGED <<c2s, s2c, env_resp, cpc, calls, result, status, value>>
  BY DEF server_close_connection, clients, history, S!server_close_connection, ServerPc
<1>3. EveryPeerIsListed /\ Consistent(p) /\ p \in Client
  BY DEF IInv, Peer
<1>4. \A d \in Client : ~Answering(d)' /\ \A x \in Talking : ~At(d, x)'
  BY <1>2 DEF Answering, At, Talking
<1>5. ASSUME NEW d \in Client, d # p PROVE Consistent(d)'
  <2>1. \A x \in Talking : ~At(d, x)
    BY <1>3, <1>5, OnePeer DEF At
  <2>2. QED
    BY <1>1, <1>2, <1>4, <1>5, <2>1, Untouched DEF IInv, SameFor
<1>6. Consistent(p)'
  <2>1. TurnGone(p)
    BY <1>1, <1>3 DEF Consistent, Turn
  <2>2. Turn(p)'
    BY <1>1, <1>2, <2>1 DEF Turn, TurnGone, Gone
  <2>3. Open(p)' /\ Own(p)'
    BY <1>1, <1>2, <1>3, <1>4 DEF Consistent, Open, Own, Talking
  <2>4. QED
    BY <2>2, <2>3 DEF Consistent
<1>7. ResponseIsDue'
  BY <1>2 DEF IInv, ResponseIsDue
<1>8. QED
  BY <1>5, <1>6, <1>7 DEF Turns

(* The size of the answer, then the answer, reach the client that waits    *)
(* for them, or nobody.                                                    *)
LEMMA SendSizeTurns == IInv /\ connection_send_size => Turns'
<1> SUFFICES ASSUME IInv, connection_send_size PROVE Turns'
  OBVIOUS
<1>1. PICK p \in Peer : s2c' = SentTo(p, SIZE)
  BY DEF connection_send_size
<1>2. /\ spc = "reply" /\ spc' = "reply_data" /\ env_resp # NoFrame
      /\ UNCHANGED <<cfd, client_conn, cut, c2s, env_resp, cpc, calls, result, status, value>>
  BY DEF connection_send_size, clients, history
<1>3. EveryPeerIsListed /\ Consistent(p) /\ OwnTypes
  BY DEF IInv, TypeOK, OwnTypes, Peer
<1>4. /\ Peer' = Peer /\ p \in Client
      /\ \A d \in Client : d # p => d \notin Peer /\ \A x \in Talking : ~At(d, x) /\ ~At(d, x)'
      /\ \A x \in Talking : (At(p, x) <=> spc = x) /\ (At(p, x)' <=> spc' = x)
  BY <1>2, <1>3, PeerStays
<1>5. \A d \in Client : s2c'[d] = IF d = p /\ cpc[p] \notin Gone THEN Append(s2c[p], SIZE) ELSE s2c[d]
  BY <1>1, <1>3, <1>4 DEF SentTo, OwnTypes
<1>6. ASSUME NEW d \in Client, d # p PROVE Consistent(d)'
  BY <1>2, <1>4, <1>5, <1>6, Untouched DEF IInv, SameFor
<1>7. At(p, "reply") /\ At(p, "reply_data")' /\ ~At(p, "payload") /\ ~At(p, "payload")'
  BY <1>2, <1>4 DEF At
<1>8. Consistent(p)'
  <2>1. c2s[p] = <<>> /\ s2c[p] = <<>> /\ cpc[p] \in {"waiting"} \cup Gone
    BY <1>2, <1>3, <1>4, <1>7, WhileAnswering
  <2>2. s2c'[p] = IF cpc[p] \in Gone THEN <<>> ELSE <<SIZE>>
    BY <1>4, <1>5, <2>1, ShortQueues
  <2>3. Turn(p)'
    BY <1>2, <1>7, <2>1, <2>2 DEF Turn, TurnWaiting, TurnGone, Gone
  <2>4. Open(p)' /\ Own(p)'
    BY <1>2, <1>3, <1>7 DEF Consistent, Open, Own
  <2>5. QED
    BY <2>3, <2>4 DEF Consistent
<1>9. ResponseIsDue'
  <2>1. PICK c \in Peer : env_resp \in ReplyTo(c)
    BY <1>2 DEF IInv, ResponseIsDue
  <2>2. env_resp' \in ReplyTo(c)'
    BY <1>2, <2>1 DEF ReplyTo
  <2>3. QED
    BY <1>2, <1>4, <2>1, <2>2 DEF ResponseIsDue
<1>10. QED
  BY <1>6, <1>8, <1>9 DEF Turns

LEMMA SendTurns == IInv /\ server_send_msg => Turns'
<1> SUFFICES ASSUME IInv, server_send_msg PROVE Turns'
  OBVIOUS
<1>1. /\ spc \in {"reply", "reply_data"} /\ spc' = "select" /\ env_resp' = NoFrame
      /\ UNCHANGED <<cfd, client_conn, cut, c2s, cpc, calls, result, status, value>>
      /\ \/ spc = "reply" /\ s2c' = s2c
         \/ spc = "reply_data" /\ \E c \in Peer : s2c' = SentTo(c, env_resp)
  BY DEF server_send_msg, clients, history, S!server_send_msg
<1>2. EveryPeerIsListed /\ OwnTypes /\ ResponseIsDue
  BY DEF IInv, TypeOK, OwnTypes
<1>3. \A d \in Client : ~Answering(d)' /\ \A x \in Talking : ~At(d, x)'
  BY <1>1 DEF Answering, At, Talking
<1>4. ASSUME NEW d \in Client, d \notin Peer, SameFor(d) PROVE Consistent(d)'
  BY <1>1, <1>3, <1>4, Untouched DEF IInv, At
<1>5. ASSUME NEW d \in Client, d \in Peer, c2s'[d] = <<>>,
             \/ cpc'[d] \in {"waiting"} \cup Gone /\ s2c'[d] = <<>>
             \/ cpc'[d] = "waiting" /\ \E f \in ReplyTo(d)' : s2c'[d] = <<SIZE, f>>
             \/ cpc'[d] = "sized" /\ \E f \in ReplyTo(d)' : s2c'[d] = <<f>>
      PROVE  Consistent(d)'
  <2>1. Turn(d)'
    BY <1>3, <1>5 DEF Turn, TurnWaiting, TurnSized, TurnGone, Silent, Gone
  <2>2. Open(d)' /\ Own(d)'
    BY <1>1, <1>3, <1>5 DEF IInv, Consistent, Open, Own, Talking
  <2>3. QED
    BY <2>1, <2>2 DEF Consistent
<1>6. ASSUME NEW d \in Client, d \in Peer
      PROVE  /\ c2s[d] = <<>>
             /\ \/ cpc[d] = "waiting" /\ s2c[d] = (IF spc = "reply" THEN <<>> ELSE <<SIZE>>)
                \/ cpc[d] = "sized" /\ spc = "reply_data" /\ s2c[d] = <<>>
                \/ cpc[d] \in Gone /\ s2c[d] = <<>>
  BY <1>1, <1>2, <1>6, WhileAnswering DEF IInv, At
<1>7. CASE spc = "reply" /\ s2c' = s2c
  <2>1. ASSUME NEW d \in Client, d \in Peer PROVE Consistent(d)'
    BY <1>1, <1>5, <1>6, <1>7, <2>1
  <2>2. QED
    BY <1>1, <1>4, <1>7, <2>1 DEF Turns, ResponseIsDue, SameFor
<1>8. CASE spc = "reply_data" /\ \E c \in Peer : s2c' = SentTo(c, env_resp)
  <2>1. PICK p \in Peer : s2c' = SentTo(p, env_resp)
    BY <1>8
  <2>2. p \in Client /\ \A d \in Peer : d = p
    BY <1>2, OnePeer DEF Peer
  <2>3. env_resp \in ReplyTo(p)
    BY <1>2, <1>8, <2>2 DEF ResponseIsDue
  <2>4. \A d \in Client : s2c'[d] = IF d = p /\ cpc[p] \notin Gone THEN Append(s2c[p], env_resp) ELSE s2c[d]
    BY <1>2, <2>1, <2>2 DEF SentTo, OwnTypes
  <2>5. env_resp \in ReplyTo(p)'
    BY <1>1, <2>3 DEF ReplyTo
  <2>6. Consistent(p)'
    <3>1. CASE cpc[p] \in Gone
      BY <1>1, <1>5, <1>6, <1>8, <2>2, <2>4, <3>1 DEF Gone
    <3>2. CASE cpc[p] = "waiting"
      <4>1. s2c[p] = <<SIZE>> /\ cpc[p] \notin Gone
        BY <1>6, <1>8, <2>2, <3>2 DEF Gone
      <4>2. s2c'[p] = <<SIZE, env_resp>>
        BY <2>2, <2>4, <4>1, ShortQueues
      <4>3. QED
        BY <1>1, <1>5, <1>6, <2>2, <2>5, <3>2, <4>2
    <3>3. CASE cpc[p] = "sized"
      <4>1. s2c'[p] = <<env_resp>>
        BY <1>6, <1>8, <2>2, <2>4, <3>3, ShortQueues DEF Gone
      <4>2. QED
        BY <1>1, <1>5, <1>6, <2>2, <2>5, <3>3, <4>1
    <3>4. QED
      BY <1>6, <2>2, <3>1, <3>2, <3>3
  <2>7. ASSUME NEW d \in Client, d # p PROVE Consistent(d)'
    BY <1>1, <1>4, <2>2, <2>4, <2>7 DEF SameFor
  <2>8. QED
    BY <1>1, <2>6, <2>7 DEF Turns, ResponseIsDue
<1>9. QED
  BY <1>1, <1>7, <1>8

LEMMA KilledTurns == IInv /\ server_send_msg_killed => Turns'
<1> SUFFICES ASSUME IInv, server_send_msg_killed PROVE Turns'
  OBVIOUS
<1>1. /\ spc \in {"reply", "reply_data"} /\ spc' = "killed" /\ env_resp' = NoFrame
      /\ \E c \in Peer : cpc[c] \in Gone
      /\ cut' = cut \cup Range(waiting) \cup {c \in Client : cfd[c] # 0}
      /\ c2s' = Discarding(cut')
      /\ UNCHANGED <<s2c, cpc, calls, result, status, value>>
  BY DEF server_send_msg_killed, clients, history
<1>2. EveryPeerIsListed /\ OwnTypes
  BY DEF IInv, TypeOK, OwnTypes
<1>3. \A d \in Client : ~Answering(d)' /\ \A x \in Talking : ~At(d, x)'
  BY <1>1 DEF Answering, At, Talking
<1>4. ASSUME NEW d \in Client PROVE Consistent(d)'
  <2>1. Consistent(d) /\ SameFor(d)
    BY <1>1 DEF IInv, SameFor
  <2>2. CASE d \in Peer
    <3>1. cpc[d] \in Gone /\ d \in cut'
      BY <1>1, <1>2, <2>2, OnePeer DEF Peer
    <3>2. s2c[d] = <<>> /\ c2s'[d] = <<>>
      BY <1>1, <2>1, <3>1 DEF Consistent, Turn, TurnGone, Discarding
    <3>3. Turn(d)'
      BY <1>1, <3>1, <3>2 DEF Turn, TurnGone, Gone
    <3>4. Open(d)' /\ Own(d)'
      BY <1>1, <1>3, <2>1, <3>2 DEF Consistent, Open, Own, Talking
    <3>5. QED
      BY <3>3, <3>4 DEF Consistent
  <2>3. CASE d \notin Peer /\ d \in cut'
    BY <1>1, <1>3, <2>1, <2>3, CutOff DEF Discarding, Answering
  <2>4. CASE d \notin Peer /\ d \notin cut'
    BY <1>1, <1>3, <2>1, <2>4, Untouched DEF Discarding, At
  <2>5. QED
    BY <2>2, <2>3, <2>4
<1>5. QED
  BY <1>1, <1>4 DEF Turns, ResponseIsDue

LEMMA ServerTurns == IInv /\ (ServerStep \/ fws_done) => Turns'
  BY QuietTurns, CutTurns, RecvSizeTurns, ServeTurns, CloseTurns, SendSizeTurns, SendTurns, KilledTurns
  DEF ServerStep

(* A client touches nothing but its own connection.                        *)
LEMMA ClientFrame ==
  ASSUME IInv, NEW c \in Client, ClientStep(c)
  PROVE  /\ UNCHANGED <<spc, client_conn, cfd, cut, env_resp>>
         /\ \A d \in Client : d # c => SameFor(d) /\ c2s'[d] = c2s[d]
         /\ Peer' = Peer
         /\ \A d \in Client : Answering(d)' <=> Answering(d)
         /\ \A d \in Client, x \in Talking : At(d, x)' <=> At(d, x)
<1>1. UNCHANGED <<spc, client_conn, cfd, cut, env_resp>>
  BY DEF ClientStep, CallStep, fws_client_connect, fws_client_connect_fails, fws_client_call,
         fws_client_call_oversized, fws_client_done, client_crash, client_send_msg,
         client_send_msg_killed, client_recv_size, client_recv_msg, client_recv_fails,
         conversation, serverVars
<1>2. OwnTypes
  BY DEF IInv, TypeOK, OwnTypes
<1>3. ASSUME NEW d \in Client, d # c PROVE SameFor(d) /\ c2s'[d] = c2s[d]
  BY <1>2, <1>3
  DEF OwnTypes, ClientStep, CallStep, fws_client_connect, fws_client_connect_fails,
      fws_client_call, fws_client_call_oversized, fws_client_done, client_crash, client_send_msg,
      client_send_msg_killed, client_recv_size, client_recv_msg, client_recv_fails,
      conversation, history, SentBy, Returned, SameFor
<1>4. Peer' = Peer
  BY <1>1 DEF Peer
<1>5. QED
  BY <1>1, <1>3, <1>4 DEF Answering, At

(* The call that is being answered does not change under the answer.       *)
LEMMA DueStays ==
  ASSUME IInv, NEW c \in Client, ClientStep(c),
         At(c, "reply") \/ At(c, "reply_data") =>
           status'[c] = status[c] /\ value'[c] = value[c] /\ calls'[c] = calls[c]
  PROVE  ResponseIsDue'
<1>1. /\ UNCHANGED <<spc, env_resp>> /\ Peer' = Peer
      /\ \A d \in Client : d # c => SameFor(d)
  BY ClientFrame
<1>2. ASSUME env_resp # NoFrame PROVE \E d \in Peer : env_resp \in ReplyTo(d)'
  <2>1. PICK d \in Peer : env_resp \in ReplyTo(d) /\ spc \in {"reply", "reply_data"}
    BY <1>2 DEF IInv, ResponseIsDue
  <2>2. status'[d] = status[d] /\ value'[d] = value[d] /\ calls'[d] = calls[d]
    BY <1>1, <2>1 DEF SameFor, Peer, At
  <2>3. QED
    BY <2>1, <2>2 DEF ReplyTo
<1>3. QED
  BY <1>1, <1>2 DEF IInv, ResponseIsDue

LEMMA ClientTurns ==
  ASSUME IInv, NEW c \in Client, ClientStep(c)
  PROVE  Turns'
<1>1. /\ UNCHANGED <<spc, client_conn, cfd, cut, env_resp>>
      /\ Answering(c)' <=> Answering(c)
      /\ At(c, "payload")' <=> At(c, "payload")
      /\ At(c, "reply")' <=> At(c, "reply")
      /\ At(c, "reply_data")' <=> At(c, "reply_data")
  BY ClientFrame DEF Talking
<1>2. \A d \in Client : d # c => Consistent(d)'
  <2> SUFFICES ASSUME NEW d \in Client, d # c PROVE Consistent(d)'
    OBVIOUS
  <2>1. Consistent(d)
    BY DEF IInv
  <2>2. /\ SameFor(d) /\ c2s'[d] = c2s[d] /\ cut' = cut
        /\ \A x \in Talking : At(d, x)' <=> At(d, x)
    BY ClientFrame
  <2>3. QED
    BY <2>1, <2>2, Untouched
<1>3. OwnTypes /\ Links /\ Consistent(c)
  BY DEF IInv, TypeOK, OwnTypes
<1>4. Turn(c) /\ Open(c) /\ Own(c)
  BY <1>3 DEF Consistent
<1>5. At(c, "reply") \/ At(c, "reply_data") \/ At(c, "payload") => Answering(c) /\ c \notin cut
  BY <1>3 DEF At, Answering, Peer, Links
<1> SUFFICES Consistent(c)' /\ ResponseIsDue'
  BY <1>2 DEF Turns
(* Where it neither waits nor is gone, the server is not talking to it.    *)
<1>6. ASSUME cpc[c] \in {"start", "open", "sending"} PROVE ~At(c, "reply") /\ ~At(c, "reply_data")
  BY <1>4, <1>6 DEF Turn, TurnSending, At, Answering
<1>7. CASE fws_client_connect(c) \/ fws_client_connect_fails(c) \/ fws_client_call_oversized(c)
           \/ fws_client_done(c)
  <2>1. /\ cpc[c] \in {"start", "open"} /\ cpc'[c] \in {"open"} \cup Gone
        /\ UNCHANGED <<c2s, s2c, calls, result, status, value>>
    BY <1>3, <1>7 DEF fws_client_connect, fws_client_connect_fails, fws_client_call_oversized,
                     fws_client_done, conversation, history, Gone, OwnTypes
  <2>2. Silent(c) /\ ~Answering(c)
    BY <1>4, <2>1 DEF Turn
  <2>3. Turn(c)'
    BY <1>1, <2>1, <2>2 DEF Turn, TurnGone, Silent, Gone
  <2>4. Open(c)' /\ Own(c)'
    BY <1>1, <1>4, <2>1 DEF Open, Own, InCall, Gone
  <2>5. QED
    BY <2>1, <2>3, <2>4, DueStays DEF Consistent
<1>8. CASE fws_client_call(c)
  <2>1. /\ cpc[c] = "open" /\ cpc'[c] = "sending"
        /\ calls'[c] = (IF calls[c] = CallNumbers THEN 1 ELSE calls[c] + 1) /\ result'[c] = <<>> /\ status'[c] = "pending"
        /\ c2s'[c] = (IF c \in cut THEN c2s[c] ELSE Append(c2s[c], SIZE))
        /\ s2c' = s2c
    BY <1>3, <1>8 DEF fws_client_call, SentBy, OwnTypes
  <2>2. Silent(c) /\ ~Answering(c)
    BY <1>4, <2>1 DEF Turn
  <2>3. Turn(c)'
    BY <1>1, <2>1, <2>2, ShortQueues DEF Turn, TurnSending, Silent, Gone
  <2>4. Open(c)' /\ Own(c)'
    <3>1. calls[c] \in Nat
      BY <1>3, CallAssumption DEF OwnTypes
    <3>2. calls'[c] > 0
      BY <2>1, <3>1
    <3>3. QED
      BY <2>1, <3>2 DEF Open, Own
  <2>5. QED
    BY <1>6, <2>1, <2>3, <2>4, DueStays DEF Consistent
<1>9. CASE client_send_msg(c)
  <2>1. /\ cpc[c] = "sending" /\ cpc'[c] = "waiting"
        /\ UNCHANGED <<s2c, calls, result, status, value>>
    BY <1>3, <1>9 DEF client_send_msg, history, OwnTypes
  <2>2. PICK f \in RequestOf(c) : c2s' = SentBy(c, f)
    BY <1>3, <1>4, <1>9, SentFrame
  <2>3. c2s'[c] = (IF c \in cut THEN c2s[c] ELSE Append(c2s[c], f))
    BY <1>3, <2>2 DEF SentBy, OwnTypes
  <2>4. f \in RequestOf(c)'
    BY <2>1 DEF RequestOf
  <2>5. TurnSending(c)
    BY <1>4, <2>1 DEF Turn
  <2>6. TurnWaiting(c)'
    <3>1. CASE ~Answering(c) /\ c \in cut /\ c2s[c] = <<>>
      BY <1>1, <2>1, <2>3, <2>5, <3>1 DEF TurnSending, TurnWaiting, Silent
    <3>2. CASE ~Answering(c) /\ c \notin cut /\ c2s[c] = <<SIZE>>
      <4>1. c2s'[c] = <<SIZE, f>>
        BY <2>3, <3>2, ShortQueues
      <4>2. QED
        BY <1>1, <2>1, <2>4, <2>5, <3>2, <4>1 DEF TurnSending, TurnWaiting
    <3>3. CASE At(c, "payload") /\ c2s[c] = <<>>
      <4>1. c2s'[c] = <<f>>
        BY <1>5, <2>3, <3>3, ShortQueues
      <4>2. QED
        BY <1>1, <2>1, <2>4, <2>5, <3>3, <4>1 DEF TurnSending, TurnWaiting
    <3>4. QED
      BY <2>5, <3>1, <3>2, <3>3 DEF TurnSending
  <2>7. Turn(c)'
    BY <2>1, <2>6 DEF Turn, Gone
  <2>8. Open(c)' /\ Own(c)'
    <3>1. c2s[c] # <<>> \/ At(c, "payload") \/ c2s'[c] = <<>>
      BY <2>3, <2>5, ShortQueues DEF TurnSending
    <3>2. QED
      BY <1>1, <1>4, <2>1, <3>1 DEF Open, Own, InCall
  <2>9. QED
    BY <2>1, <2>7, <2>8, DueStays DEF Consistent
<1>10. CASE client_send_msg_killed(c)
  <2>1. /\ c \in cut /\ cpc[c] \in {"sending", "open"} /\ cpc'[c] \in Gone
        /\ UNCHANGED <<c2s, s2c, calls, result, status, value>>
    BY <1>3, <1>10 DEF client_send_msg_killed, conversation, history, Gone, OwnTypes
  <2>2. c2s[c] = <<>> /\ s2c[c] = <<>>
    BY <1>3, <1>4, <2>1 DEF Links, Turn, TurnSending, Silent
  <2>3. Turn(c)'
    BY <2>1, <2>2 DEF Turn, TurnGone, Gone
  <2>4. Open(c)' /\ Own(c)'
    BY <1>1, <1>4, <2>1 DEF Open, Own, InCall, Gone
  <2>5. QED
    BY <2>1, <2>3, <2>4, DueStays DEF Consistent
<1>11. CASE client_recv_size(c)
  <2>1. /\ cpc[c] = "waiting" /\ cpc'[c] = "sized"
        /\ s2c[c] # <<>> /\ s2c'[c] = Tail(s2c[c])
        /\ UNCHANGED <<c2s, calls, result, status, value>>
    BY <1>3, <1>11 DEF client_recv_size, history, OwnTypes
  <2>2. TurnWaiting(c)
    BY <1>4, <2>1 DEF Turn
  <2>3. TurnSized(c)'
    <3>1. CASE At(c, "reply_data") /\ c2s[c] = <<>> /\ s2c[c] = <<SIZE>>
      BY <1>1, <2>1, <3>1, ShortQueues DEF TurnSized, Silent
    <3>2. CASE ~Answering(c) /\ c2s[c] = <<>> /\ \E f \in ReplyTo(c) : s2c[c] = <<SIZE, f>>
      <4>1. PICK f \in ReplyTo(c) : s2c[c] = <<SIZE, f>>
        BY <3>2
      <4>2. s2c'[c] = <<f>> /\ f \in ReplyTo(c)'
        BY <2>1, <4>1, ShortQueues DEF ReplyTo
      <4>3. QED
        BY <1>1, <2>1, <3>2, <4>2 DEF TurnSized
    <3>3. QED
      BY <2>1, <2>2, <3>1, <3>2 DEF TurnWaiting, Silent
  <2>4. Turn(c)'
    BY <2>1, <2>3 DEF Turn, Gone
  <2>5. Open(c)' /\ Own(c)'
    BY <1>1, <1>4, <2>1 DEF Open, Own, InCall
  <2>6. QED
    BY <2>1, <2>4, <2>5, DueStays DEF Consistent
<1>12. CASE client_recv_msg(c)
  <2>1. /\ cpc[c] = "sized" /\ cpc'[c] = "open"
        /\ s2c[c] # <<>> /\ s2c'[c] = Tail(s2c[c])
        /\ result'[c] = (IF Head(s2c[c]).kind = "body" THEN Head(s2c[c]).data ELSE result[c])
        /\ status'[c] = (IF status[c] = "pending" THEN "lost" ELSE status[c])
        /\ UNCHANGED <<c2s, calls, value>>
    BY <1>3, <1>12 DEF client_recv_msg, Returned, OwnTypes
  <2>2. ~Answering(c) /\ c2s[c] = <<>> /\ \E f \in ReplyTo(c) : s2c[c] = <<f>>
    BY <1>4, <2>1 DEF Turn, TurnSized, Silent
  <2>3. PICK f \in ReplyTo(c) : s2c[c] = <<f>>
    BY <2>2
  <2>4. s2c'[c] = <<>> /\ Head(s2c[c]) = f
    BY <2>1, <2>3, ShortQueues
  <2>5. Turn(c)'
    BY <1>1, <2>1, <2>2, <2>4 DEF Turn, Silent, Gone
  <2>6. Own(c)'
    <3>1. f.kind = "body" => f.data = value[c] /\ f.data[3] = <<c, calls[c]>>
      BY DEF ReplyTo
    <3>2. QED
      BY <1>4, <2>1, <2>4, <3>1 DEF Own
  <2>7. Open(c)'
    BY <1>1, <1>5, <2>1, <2>2 DEF Open, InCall
  <2>8. ~At(c, "reply") /\ ~At(c, "reply_data")
    BY <1>5, <2>2
  <2>9. QED
    BY <2>5, <2>6, <2>7, <2>8, DueStays DEF Consistent
<1>13. CASE client_recv_fails(c)
  <2>1. /\ cpc[c] \in {"waiting", "sized"} /\ cpc'[c] = "open"
        /\ s2c[c] = <<>> /\ c \in cut
        /\ UNCHANGED <<c2s, s2c, calls, result, value>>
    BY <1>3, <1>13 DEF client_recv_fails, conversation, OwnTypes
  <2>2. c2s[c] = <<>> /\ cfd[c] = 0
    BY <1>3, <2>1 DEF Links
  <2>3. ~Answering(c) /\ ~At(c, "reply") /\ ~At(c, "reply_data") /\ ~At(c, "payload")
    BY <2>2 DEF Answering, At, Peer
  <2>4. Turn(c)'
    BY <1>1, <2>1, <2>2, <2>3 DEF Turn, Silent, Gone
  <2>5. Open(c)' /\ Own(c)'
    BY <1>1, <1>4, <2>1, <2>2, <2>3 DEF Open, Own, InCall
  <2>6. QED
    BY <2>3, <2>4, <2>5, DueStays DEF Consistent
<1>14. CASE client_crash(c)
  <2>1. /\ cpc[c] \in {"sending", "waiting", "sized"} /\ cpc'[c] \in Gone
        /\ c2s'[c] = c2s[c] \/ c2s'[c] = <<>>
        /\ s2c'[c] = <<>>
        /\ UNCHANGED <<calls, result, status, value>>
    BY <1>3, <1>14 DEF client_crash, history, InCall, Gone, OwnTypes
  <2>2. RequestOf(c)' = RequestOf(c)
    BY <2>1 DEF RequestOf
  <2>3. \/ c2s[c] = <<>>
        \/ ~Answering(c) /\ c2s[c] = <<SIZE>>
        \/ ~Answering(c) /\ \E f \in RequestOf(c) : c2s[c] = <<SIZE, f>>
        \/ At(c, "payload") /\ \E f \in RequestOf(c) : c2s[c] = <<f>>
    BY <1>4, <2>1 DEF Turn, TurnSending, TurnWaiting, TurnSized, Silent
  <2>4. TurnGone(c)'
    BY <1>1, <2>1, <2>2, <2>3 DEF TurnGone
  <2>5. Turn(c)'
    BY <2>1, <2>4 DEF Turn, Gone
  <2>6. Open(c)' /\ Own(c)'
    BY <1>1, <1>4, <2>1 DEF Open, Own, InCall, Gone
  <2>7. QED
    BY <2>1, <2>5, <2>6, DueStays DEF Consistent
<1>15. QED
  BY <1>7, <1>8, <1>9, <1>10, <1>11, <1>12, <1>13, <1>14 DEF ClientStep, CallStep

-----------------------------------------------------------------------------
(* The invariant *)

LEMMA InitIInv == Init => IInv
<1> SUFFICES ASSUME Init PROVE IInv
  OBVIOUS
<1>1. /\ ServerPc = "bind" /\ Readable = {} /\ Len(waiting) = 0
  <2>1. \A c \in Client : cfd[c] = 0
    BY DEF Init
  <2>2. QED
    BY <2>1 DEF Init, ServerPc, Readable
<1>2. S!Init
  BY <1>1 DEF Init, S!Init
<1>3. SP!IInv
  BY <1>2, SameServer, SP!InitIInv, ServerAssumption, ClientAssumption, FS_CardinalityType
  DEF SP!FdAssumption, SP!InfoAssumption, SP!BoundAssumption
<1>4. S!TypeOK
  BY <1>3, SameServer DEF SP!IInv
<1>5. OwnTypes
  BY EmptySeq, CallAssumption DEF Init, OwnTypes, ResponseFrame
<1>6. TypeOK
  BY <1>4, <1>5 DEF TypeOK, OwnTypes
<1>7. Range(waiting) = {} /\ Distinct(waiting) /\ ~S!Running /\ Peer = {}
  BY <1>1 DEF Init, Range, Distinct, S!Running, Peer
<1>8. EveryPeerIsListed
  BY <1>7 DEF Init, EveryPeerIsListed
<1>9. Links /\ Descriptors
  BY <1>7 DEF Init, Links, Descriptors
<1>10. ResponseIsDue
  BY DEF Init, ResponseIsDue
<1>11. \A c \in Client : Consistent(c)
  BY <1>7 DEF Init, Consistent, Turn, Open, Own, Silent, Answering, At, InCall, Gone
<1>12. QED
  BY <1>3, <1>6, <1>8, <1>9, <1>10, <1>11 DEF IInv

LEMMA NextKeeps == IInv /\ [Next]_vars => IInv'
<1> SUFFICES ASSUME IInv, [Next]_vars PROVE IInv'
  OBVIOUS
<1>1. SP!IInv'
  BY ServerKeeps, StepsAreServers DEF IInv
<1>2. S!TypeOK'
  BY <1>1
  DEF SP!IInv, SP!TypeOK, S!TypeOK, SP!INVALID_SOCKET, S!INVALID_SOCKET, SP!NoConnection,
      S!NoConnection, SP!Connection, S!Connection
<1>3. OwnTypes /\ ResponseIsDue /\ \A c \in Client : Open(c)
  BY DEF IInv, TypeOK, OwnTypes, Consistent
<1>4. CASE Next
  <2>1. OwnTypes'
    BY <1>3, <1>4, ServerTypesKeep, ClientTypesKeep DEF Next
  <2>2. TypeOK'
    BY <1>2, <2>1 DEF TypeOK, OwnTypes
  <2>3. Tables'
    BY <1>1, <1>4, TablesKeep
  <2>4. Turns'
    BY <1>4, ServerTurns, ClientTurns DEF Next
  <2>5. QED
    BY <1>1, <2>2, <2>3, <2>4 DEF IInv, Tables, Turns
<1>5. CASE UNCHANGED vars
  <2>1. UNCHANGED <<spc, socket, connections, open, client_conn, waiting, cfd, cut, c2s, s2c,
                    env_resp, cpc, calls, result, status, value>>
    BY <1>5 DEF vars, serverVars, conversation, clients, history
  <2>2. TypeOK'
    BY <1>2, <1>3, <2>1 DEF TypeOK, OwnTypes
  <2>3. EveryPeerIsListed' /\ Links' /\ Descriptors'
    BY <2>1 DEF IInv, EveryPeerIsListed, Links, Descriptors, S!Running, S!Sockets, ServerPc
  <2>4. ResponseIsDue'
    BY <2>1 DEF IInv, ResponseIsDue, Peer, ReplyTo
  <2>5. ASSUME NEW c \in Client PROVE Consistent(c)'
    BY <2>1, Untouched DEF IInv, SameFor, At, Peer
  <2>6. QED
    BY <1>1, <2>2, <2>3, <2>4, <2>5 DEF IInv
<1>6. QED
  BY <1>4, <1>5

LEMMA Inductive == Spec => []IInv
  BY InitIInv, NextKeeps, PTL DEF Spec

-----------------------------------------------------------------------------
(* Every variable of both sides keeps its type, however many calls are     *)
(* made.                                                                   *)
THEOREM TypeCorrect == Spec => []TypeOK
<1>1. IInv => TypeOK
  BY DEF IInv
<1>2. QED
  BY <1>1, Inductive, PTL

(* The list of the server is who is connected, whatever fails and in       *)
(* whatever order clients come and go.                                     *)
THEOREM EveryPeerIsAlwaysListed == Spec => []EveryPeerIsListed
<1>1. IInv => EveryPeerIsListed
  BY DEF IInv
<1>2. QED
  BY <1>1, Inductive, PTL

(* On every connection client and server take turns, and whoever expects a *)
(* size finds one.                                                         *)
THEOREM TurnsAlwaysAlternate == Spec => []TurnsAlternate
<1>1. IInv => TurnsAlternate
  <2> SUFFICES ASSUME IInv, NEW c \in Client
               PROVE  /\ cpc[c] \in {"start", "open"} => c2s[c] = <<>> /\ s2c[c] = <<>> /\ ~Answering(c)
                      /\ c2s[c] = <<>> \/ (s2c[c] = <<>> /\ (Answering(c) => spc = "payload"))
                      /\ c2s[c] # <<>> => (Head(c2s[c]) = SIZE <=> ~Answering(c))
                      /\ s2c[c] # <<>> => (Head(s2c[c]) = SIZE <=> cpc[c] = "waiting")
    BY DEF TurnsAlternate
  <2>1. Turn(c) /\ OwnTypes
    BY DEF IInv, Consistent, TypeOK, OwnTypes
  <2>2. cpc[c] \in {"start", "open", "sending", "waiting", "sized"} \cup Gone
    BY <2>1 DEF OwnTypes, InCall
  <2>3. /\ \A f \in RequestOf(c) : f # SIZE
        /\ \A f \in ReplyTo(c) : f # SIZE
    BY OddAssumption DEF RequestOf, RequestFrame, ReplyTo, ResponseFrame, Fault, SIZE
  <2>4. At(c, "payload") => Answering(c) /\ spc = "payload"
    BY DEF At, Answering
  <2>5. At(c, "reply") \/ At(c, "reply_data") => Answering(c)
    BY DEF At, Answering
  <2>6. CASE cpc[c] \in {"start", "open"}
    BY <2>1, <2>6 DEF Turn, Silent
  <2>7. CASE cpc[c] = "sending"
    BY <2>1, <2>4, <2>7, ShortQueues DEF Turn, TurnSending
  <2>8. CASE cpc[c] = "waiting"
    BY <2>1, <2>3, <2>4, <2>5, <2>8, ShortQueues DEF Turn, TurnWaiting, Silent
  <2>9. CASE cpc[c] = "sized"
    BY <2>1, <2>3, <2>4, <2>5, <2>9, ShortQueues DEF Turn, TurnSized, Silent
  <2>10. CASE cpc[c] \in Gone
    BY <2>1, <2>3, <2>4, <2>5, <2>10, ShortQueues DEF Turn, TurnGone, Gone
  <2>11. QED
    BY <2>2, <2>6, <2>7, <2>8, <2>9, <2>10
<1>2. QED
  BY <1>1, Inductive, PTL

(* client_conn still leads to whoever asked when the answer is sent.       *)
THEOREM AnswersAlwaysGoToWhoAsked == Spec => []AnswersWhoAsked
<1>1. IInv => AnswersWhoAsked
  <2> SUFFICES ASSUME IInv, env_resp # NoFrame
               PROVE  \E c \in Peer : /\ status[c] \in {"run", "refused"}
                                      /\ cpc[c] \in InCall \cup Gone
                                      /\ env_resp.kind = "body" => env_resp.data[3] = <<c, calls[c]>>
    BY DEF AnswersWhoAsked
  <2>1. PICK c \in Peer : env_resp \in ReplyTo(c) /\ spc \in {"reply", "reply_data"}
    BY DEF IInv, ResponseIsDue
  <2>2. Consistent(c) /\ OwnTypes /\ c \in Client
    BY DEF IInv, TypeOK, OwnTypes, Peer
  <2>3. cpc[c] \in InCall \cup Gone
    BY <2>1, <2>2, WhileAnswering DEF At, InCall
  <2>4. QED
    BY <2>1, <2>3 DEF ReplyTo
<1>2. QED
  BY <1>1, Inductive, PTL

(* What a call returns is what the run of the callback for that call       *)
(* computed, and not what another call or another client was answered.     *)
THEOREM RepliesAreAlwaysOwn == Spec => []OwnReply
<1>1. IInv => OwnReply
  BY DEF IInv, Consistent, Own, OwnReply
<1>2. QED
  BY <1>1, Inductive, PTL

-----------------------------------------------------------------------------
(* What the list of functions has to look like for memcmp() to find a      *)
(* request's own name: names are listed before the longer ones that begin  *)
(* with them, and what is not listed is no prefix of anything listed.      *)
NamesComeFirst ==
  \A t \in Type, i \in DOMAIN FuncList :
    IsPrefix(t, FuncList[i]) => \E j \in DOMAIN FuncList : j <= i /\ FuncList[j] = t

LEMMA DispatchByName ==
  ASSUME NEW Symbol, Name \subseteq Seq(Symbol), NamesComeFirst,
         NEW t \in Type, NEW i \in Dispatch(t)
  PROVE  FuncList[i] = t
<1>1. /\ i \in DOMAIN FuncList /\ IsPrefix(t, FuncList[i])
      /\ \A j \in DOMAIN FuncList : IsPrefix(t, FuncList[j]) => i <= j
  BY DEF Dispatch
<1>2. PICK j \in DOMAIN FuncList : j <= i /\ FuncList[j] = t
  BY <1>1 DEF NamesComeFirst
<1>3. IsPrefix(t, t)
  <2>1. Len(t) \in Nat
    BY NameAssumption
  <2>2. QED
    BY <2>1 DEF IsPrefix
<1>4. i <= j
  BY <1>1, <1>2, <1>3
<1>5. i \in Nat /\ j \in Nat
  BY <1>1, NameAssumption
<1>6. i = j
  BY <1>2, <1>4, <1>5
<1>7. QED
  BY <1>2, <1>6

(* With such a list a request is only ever run by the function it names.   *)
THEOREM ServedAlwaysByItsName ==
  ASSUME NEW Symbol, Name \subseteq Seq(Symbol), NamesComeFirst
  PROVE  Spec => []ServedByItsName
<1>1. Init => ServedByItsName
  BY DEF Init, ServedByItsName
<1>2. ASSUME IInv, ServedByItsName, [Next]_vars PROVE ServedByItsName'
  <2>1. OwnTypes
    BY <1>2 DEF IInv, TypeOK, OwnTypes
  <2>2. CASE UNCHANGED value
    BY <1>2, <2>2 DEF ServedByItsName
  <2>3. CASE fws_server_serve
    <3>1. PICK p \in Peer :
            /\ c2s[p] # <<>>
            /\ \/ value' = value
               \/ /\ Head(c2s[p]).kind = "body"
                  /\ \E i \in Dispatch(Head(c2s[p]).type), outcome \in Outcome :
                       value' = [value EXCEPT ![p] = IF outcome = "output"
                                  THEN <<i, Head(c2s[p]).type, Head(c2s[p]).data>> ELSE <<>>]
      BY <2>3 DEF fws_server_serve
    <3>2. CASE value' = value
      BY <2>2, <3>2
    <3>3. CASE value' # value
      <4> DEFINE f == Head(c2s[p])
      <4>1. PICK i \in Dispatch(f.type), outcome \in Outcome :
              value' = [value EXCEPT ![p] = IF outcome = "output" THEN <<i, f.type, f.data>> ELSE <<>>]
        BY <3>1, <3>3
      <4>2. f.type \in Type
        <5>1. f \in {SIZE} \cup RequestFrame /\ f.kind = "body"
          BY <2>1, <3>1, <3>3, RemainderTyped DEF OwnTypes, Peer
        <5>2. QED
          BY <5>1, OddAssumption DEF RequestFrame, SIZE
      <4>3. FuncList[i] = f.type
        BY <4>2, DispatchByName
      <4>4. \A c \in Client : \/ value'[c] = value[c]
                              \/ value'[c] = <<>>
                              \/ value'[c] = <<i, f.type, f.data>>
        BY <2>1, <4>1 DEF OwnTypes
      <4>5. QED
        BY <1>2, <4>3, <4>4 DEF ServedByItsName
    <3>4. QED
      BY <3>2, <3>3
  <2>4. CASE \E c \in Client : fws_client_call(c)
    BY <1>2, <2>1, <2>4 DEF fws_client_call, ServedByItsName, OwnTypes
  <2>5. QED
    BY <1>2, <2>2, <2>3, <2>4
    DEF Next, ServerStep, ClientStep, CallStep, vars, history, fws_server_bind, select, pick_active,
        accept, accept_fails, serve_nobody, connection_recv_size, server_close_connection,
        connection_send_size, server_send_msg, server_send_msg_killed, fws_done,
        fws_client_connect, fws_client_connect_fails, fws_client_call_oversized, fws_client_done,
        client_crash, client_send_msg, client_send_msg_killed, client_recv_size, client_recv_msg,
        client_recv_fails
<1>3. QED
  BY <1>1, <1>2, Inductive, PTL DEF Spec

=============================================================================
