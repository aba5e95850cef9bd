--------------------------- MODULE Server_proofs ---------------------------
(***************************************************************************)
(* Module Server keeps its tables for every set of descriptors, every      *)
(* backlog and every choice of the calls that fail.                        *)
(***************************************************************************)
EXTENDS Server, SequenceTheorems, FiniteSetTheorems, TLAPS

(* What the invariants of module Server need to be inductive: before the   *)
(* bind and after the destroy there is nothing in the list, and a          *)
(* snapshot that shows the listening socket has a newcomer behind it.      *)
Idle ==
  /\ ~Running => connections = <<>>
  /\ pc \in {"bind", "unbound", "crash"} => client_conn = NoConnection
  /\ pc = "bind" => open = {}

SnapshotIsFresh ==
  pc = "ready" /\ socket \in active_fdset => backlog > 0

IInv ==
  /\ TypeOK
  /\ Idle
  /\ TablesAgree
  /\ EntriesOwnTheirs
  /\ CurrentIsListed
  /\ SnapshotIsUseful
  /\ SnapshotIsFresh

-----------------------------------------------------------------------------
(* The operators the module is built from *)

(* RemoveAt (vector_remove) keeps the entries before the index and moves   *)
(* the others down by one.                                                 *)
LEMMA RemoveAtProperties ==
  ASSUME NEW S, NEW s \in Seq(S), NEW i \in 1 .. Len(s)
  PROVE  /\ RemoveAt(s, i) \in Seq(S)
         /\ Len(RemoveAt(s, i)) = Len(s) - 1
         /\ \A j \in 1 .. Len(s) - 1 : RemoveAt(s, i)[j] = IF j < i THEN s[j] ELSE s[j + 1]
<1> DEFINE before == SubSeq(s, 1, i - 1)
           after == SubSeq(s, i + 1, Len(s))
<1>1. before \in Seq(S) /\ Len(before) = i - 1 /\ \A j \in 1 .. i - 1 : before[j] = s[j]
  BY SubSeqProperties
<1>2. after \in Seq(S) /\ Len(after) = Len(s) - i /\ \A j \in 1 .. Len(s) - i : after[j] = s[i + j]
  BY SubSeqProperties
<1>3. RemoveAt(s, i) = before \o after
  BY DEF RemoveAt
<1> HIDE DEF before, after
<1>4. /\ before \o after \in Seq(S)
      /\ Len(before \o after) = Len(s) - 1
  BY <1>1, <1>2
<1>5. ASSUME NEW j \in 1 .. Len(s) - 1
      PROVE  (before \o after)[j] = IF j < i THEN s[j] ELSE s[j + 1]
  <2>1. CASE j < i
    BY <1>1, <1>2, <2>1
  <2>2. CASE ~(j < i)
    <3>1. (before \o after)[j] = after[j - (i - 1)]
      BY <1>1, <1>2, <2>2
    <3>2. after[j - (i - 1)] = s[i + (j - (i - 1))]
      BY <1>2, <2>2
    <3>3. i + (j - (i - 1)) = j + 1
      OBVIOUS
    <3>4. QED
      BY <3>1, <3>2, <3>3, <2>2
  <2>3. QED
    BY <2>1, <2>2
<1>6. QED
  BY <1>3, <1>4, <1>5

(* Every index but the removed one still has its entry somewhere.          *)
LEMMA RemoveAtKeeps ==
  ASSUME NEW S, NEW s \in Seq(S), NEW i \in 1 .. Len(s), NEW k \in 1 .. Len(s), k # i
  PROVE  \E j \in 1 .. Len(s) - 1 : RemoveAt(s, i)[j] = s[k]
<1>1. CASE k < i
  <2>1. k \in 1 .. Len(s) - 1 /\ RemoveAt(s, i)[k] = s[k]
    BY <1>1, RemoveAtProperties
  <2>2. QED
    BY <2>1
<1>2. CASE k > i
  <2>1. k - 1 \in 1 .. Len(s) - 1 /\ ~(k - 1 < i) /\ (k - 1) + 1 = k
    BY <1>2
  <2>2. RemoveAt(s, i)[k - 1] = s[k]
    BY <2>1, RemoveAtProperties
  <2>3. QED
    BY <2>1, <2>2
<1>3. QED
  BY <1>1, <1>2

(* FirstOf (a loop that stops at the first hit) picks one of the hits.     *)
LEMMA FirstIsMember == \A S : FirstOf(S) \subseteq S
  BY DEF FirstOf

-----------------------------------------------------------------------------
(* Initially nothing is bound, listed or open. *)
LEMMA InitIInv == Init => IInv
<1> SUFFICES ASSUME Init PROVE IInv
  OBVIOUS
<1> USE DEF Init
<1>1. TypeOK
  BY BoundAssumption DEF TypeOK, INVALID_SOCKET, Connection
<1>2. Idle
  BY DEF Idle, Running
<1>3. TablesAgree /\ CurrentIsListed
  BY DEF TablesAgree, CurrentIsListed, Running
<1>4. EntriesOwnTheirs
  BY DEF EntriesOwnTheirs, Infos
<1>5. SnapshotIsUseful /\ SnapshotIsFresh
  BY DEF SnapshotIsUseful, SnapshotIsFresh
<1>6. QED
  BY <1>1, <1>2, <1>3, <1>4, <1>5 DEF IInv

(* server_accept appends what it accepted: the tables gain the same        *)
(* descriptor and the same block, neither of which was in use.             *)
LEMMA AcceptKeeps == IInv /\ accept => IInv'
<1> SUFFICES ASSUME IInv, accept PROVE IInv'
  OBVIOUS
<1> USE DEF IInv
<1>1. PICK fd \in Fd \ open, info \in Info \ live :
        /\ open' = open \cup {fd}
        /\ live' = live \cup {info}
        /\ read_fdset' = read_fdset \cup {fd}
        /\ client_conn' = [socket |-> fd, info |-> info]
        /\ connections' = Append(connections, [socket |-> fd, info |-> info])
        /\ readable' \in {readable, readable \cup {fd}}
  BY DEF accept, Listed
<1>2. /\ pc = "ready" /\ pc' = "serve"
      /\ socket \in active_fdset
      /\ backlog' = backlog - 1
      /\ UNCHANGED <<socket, active_fdset>>
  BY DEF accept, Goto, TakesNewcomer
<1> DEFINE conn == [socket |-> fd, info |-> info]
           n == Len(connections)
<1>3. conn \in Connection
  BY DEF Connection
<1>4. connections \in Seq(Connection) /\ n \in Nat
  BY DEF TypeOK
<1>5. /\ connections' \in Seq(Connection)
      /\ DOMAIN connections = 1 .. n
      /\ DOMAIN connections' = 1 .. n + 1
      /\ \A i \in 1 .. n : connections'[i] = connections[i]
      /\ connections'[n + 1] = conn
  BY <1>1, <1>3, <1>4
<1>6. TypeOK'
  BY <1>1, <1>2, <1>3, <1>5, BoundAssumption DEF TypeOK, SnapshotIsFresh
<1>7. Sockets' = Sockets \cup {fd} /\ Infos' = Infos \cup {info}
  BY <1>4, <1>5 DEF Sockets, Infos
<1>8. TablesAgree'
  BY <1>1, <1>2, <1>7 DEF TablesAgree, Running, TypeOK
<1>9. EntriesOwnTheirs'
  <2>1. \A i \in 1 .. n : connections[i].socket # fd /\ connections[i].info # info
    BY <1>1, <1>2, <1>5 DEF TablesAgree, EntriesOwnTheirs, Running, Sockets, Infos
  <2>2. \A i, j \in 1 .. n + 1 :
          i # j => /\ connections'[i].socket # connections'[j].socket
                   /\ connections'[i].info # connections'[j].info
    BY <1>4, <1>5, <2>1 DEF EntriesOwnTheirs
  <2>3. QED
    BY <1>1, <1>5, <1>7, <2>2 DEF EntriesOwnTheirs
<1>10. CurrentIsListed'
  BY <1>1, <1>4, <1>5 DEF CurrentIsListed
<1>11. Idle' /\ SnapshotIsUseful' /\ SnapshotIsFresh'
  BY <1>2 DEF Idle, SnapshotIsUseful, SnapshotIsFresh, Running
<1>12. QED
  BY <1>6, <1>8, <1>9, <1>10, <1>11

(* server_close_connection: client_conn is a copy of exactly one entry,    *)
(* and list, set, block and descriptor of that entry go together.          *)
LEMMA CloseKeeps == IInv /\ server_close_connection => IInv'
<1> SUFFICES ASSUME IInv, server_close_connection PROVE IInv'
  OBVIOUS
<1> USE DEF IInv
<1> DEFINE n == Len(connections)
<1>1. /\ pc \in {"serve", "payload"} /\ pc' = "select"
      /\ client_conn.socket # 0
      /\ read_fdset' = read_fdset \ {client_conn.socket}
      /\ open' = open \ {client_conn.socket}
      /\ readable' = readable \ {client_conn.socket}
      /\ client_conn' = NoConnection
      /\ UNCHANGED <<socket, active_fdset, backlog>>
  BY DEF server_close_connection, SetWithoutCurrent, AfterClose
<1>2. /\ connections \in Seq(Connection)
      /\ n \in Nat
      /\ DOMAIN connections = 1 .. n
  BY DEF TypeOK
<1>3. PICK k \in 1 .. n : connections[k] = client_conn
  BY <1>1, <1>2 DEF CurrentIsListed, Running, NoConnection
<1>4. \A i \in 1 .. n : i # k => /\ connections[i].socket # client_conn.socket
                               /\ connections[i].info # client_conn.info
  BY <1>2, <1>3 DEF EntriesOwnTheirs
<1>5. Matching = {k}
  BY <1>2, <1>3, <1>4 DEF Matching
<1>6. /\ live' = live \ {client_conn.info}
      /\ connections' = RemoveAt(connections, k)
  <2>1. PICK i \in FirstOf(Matching) : /\ live' = LiveWithout(connections[i])
                                       /\ connections' = RemoveAt(connections, i)
    BY <1>5 DEF server_close_connection
  <2>2. i = k
    BY <1>5, FirstIsMember
  <2>3. QED
    BY <2>1, <2>2, <1>3 DEF LiveWithout
<1>7. /\ connections' \in Seq(Connection)
      /\ DOMAIN connections' = 1 .. n - 1
      /\ \A j \in 1 .. n - 1 :
           connections'[j] = IF j < k THEN connections[j] ELSE connections[j + 1]
  BY <1>2, <1>6, RemoveAtProperties
<1>8. \A j \in 1 .. n - 1 : \E i \in 1 .. n : i # k /\ connections'[j] = connections[i]
  <2> SUFFICES ASSUME NEW j \in 1 .. n - 1
               PROVE  \E i \in 1 .. n : i # k /\ connections'[j] = connections[i]
    OBVIOUS
  <2>1. CASE j < k
    BY <1>2, <1>7, <2>1
  <2>2. CASE ~(j < k)
    <3>1. j + 1 \in 1 .. n /\ j + 1 # k
      BY <1>2, <2>2
    <3>2. QED
      BY <1>7, <2>2, <3>1
  <2>3. QED
    BY <2>1, <2>2
<1>9. \A i \in 1 .. n : i # k => \E j \in 1 .. n - 1 : connections'[j] = connections[i]
  BY <1>2, <1>6, RemoveAtKeeps
<1>10. /\ Sockets' = Sockets \ {client_conn.socket}
       /\ Infos' = Infos \ {client_conn.info}
  <2>1. /\ Sockets = {connections[i].socket : i \in 1 .. n}
        /\ Infos = {connections[i].info : i \in 1 .. n}
    BY <1>2 DEF Sockets, Infos
  <2>2. /\ Sockets' = {connections'[j].socket : j \in 1 .. n - 1}
        /\ Infos' = {connections'[j].info : j \in 1 .. n - 1}
    BY <1>7 DEF Sockets, Infos
  <2>3. \A j \in 1 .. n - 1 : /\ connections'[j].socket \in Sockets \ {client_conn.socket}
                              /\ connections'[j].info \in Infos \ {client_conn.info}
    <3> SUFFICES ASSUME NEW j \in 1 .. n - 1
                 PROVE  /\ connections'[j].socket \in Sockets \ {client_conn.socket}
                        /\ connections'[j].info \in Infos \ {client_conn.info}
      OBVIOUS
    <3>1. PICK i \in 1 .. n : i # k /\ connections'[j] = connections[i]
      BY <1>8
    <3>2. QED
      BY <2>1, <3>1, <1>4
  <2>4. \A i \in 1 .. n : i # k => /\ connections[i].socket \in Sockets'
                                 /\ connections[i].info \in Infos'
    <3> SUFFICES ASSUME NEW i \in 1 .. n, i # k
                 PROVE  connections[i].socket \in Sockets' /\ connections[i].info \in Infos'
      OBVIOUS
    <3>1. PICK j \in 1 .. n - 1 : connections'[j] = connections[i]
      BY <1>9
    <3>2. QED
      BY <2>2, <3>1
  <2>5. Sockets' = Sockets \ {client_conn.socket}
    <3>1. Sockets' \subseteq Sockets \ {client_conn.socket}
      BY <2>2, <2>3
    <3>2. Sockets \ {client_conn.socket} \subseteq Sockets'
      BY <2>1, <2>4, <1>3
    <3>3. QED
      BY <3>1, <3>2
  <2>6. Infos' = Infos \ {client_conn.info}
    <3>1. Infos' \subseteq Infos \ {client_conn.info}
      BY <2>2, <2>3
    <3>2. Infos \ {client_conn.info} \subseteq Infos'
      BY <2>1, <2>4, <1>3
    <3>3. QED
      BY <3>1, <3>2
  <2>7. QED
    BY <2>5, <2>6
<1>11. TypeOK'
  BY <1>1, <1>6, <1>7 DEF TypeOK
<1>12. TablesAgree'
  <2>1. client_conn.socket \in Sockets
    BY <1>2, <1>3 DEF Sockets
  <2>2. QED
    BY <1>1, <1>10, <2>1 DEF TablesAgree, Running
<1>13. EntriesOwnTheirs'
  <2>1. ASSUME NEW i \in 1 .. n - 1, NEW j \in 1 .. n - 1, i # j
        PROVE  \E p, q \in 1 .. n : /\ p # q
                                   /\ connections'[i] = connections[p]
                                   /\ connections'[j] = connections[q]
    <3> DEFINE up(x) == IF x < k THEN x ELSE x + 1
    <3>1. up(i) \in 1 .. n /\ up(j) \in 1 .. n /\ up(i) # up(j)
      BY <1>2, <2>1
    <3>2. connections'[i] = connections[up(i)] /\ connections'[j] = connections[up(j)]
      BY <1>7
    <3>3. QED
      BY <3>1, <3>2
  <2>2. \A p, q \in 1 .. n : p # q => /\ connections[p].socket # connections[q].socket
                                      /\ connections[p].info # connections[q].info
    BY <1>2 DEF EntriesOwnTheirs
  <2>3. \A i, j \in 1 .. n - 1 : i # j => /\ connections'[i].socket # connections'[j].socket
                                          /\ connections'[i].info # connections'[j].info
    <3> SUFFICES ASSUME NEW i \in 1 .. n - 1, NEW j \in 1 .. n - 1, i # j
                 PROVE  /\ connections'[i].socket # connections'[j].socket
                        /\ connections'[i].info # connections'[j].info
      OBVIOUS
    <3>1. PICK p, q \in 1 .. n : p # q /\ connections'[i] = connections[p] /\ connections'[j] = connections[q]
      BY <2>1
    <3>2. QED
      BY <2>2, <3>1
  <2>4. live' = Infos'
    BY <1>6, <1>10 DEF EntriesOwnTheirs
  <2>5. QED
    BY <1>7, <2>3, <2>4 DEF EntriesOwnTheirs
<1>14. Idle' /\ CurrentIsListed' /\ SnapshotIsUseful' /\ SnapshotIsFresh'
  BY <1>1 DEF Idle, CurrentIsListed, SnapshotIsUseful, SnapshotIsFresh, Running
<1>15. QED
  BY <1>11, <1>12, <1>13, <1>14

(* The steps that only move pc, client_conn or the snapshot.               *)
LEMMA BindKeeps == IInv /\ Bind => IInv'
<1> SUFFICES ASSUME IInv, Bind PROVE IInv'
  OBVIOUS
<1> USE DEF IInv
<1>1. CASE server_create
  <2> USE DEF server_create, Goto
  <2>1. connections = <<>> /\ client_conn = NoConnection /\ live = {} /\ connections' = <<>>
    BY <1>1 DEF Idle, EntriesOwnTheirs, Infos, Running
  <2>2. TypeOK'
    BY <1>1 DEF TypeOK
  <2>3. Sockets' = {} /\ Infos' = {}
    BY <2>1 DEF Sockets, Infos
  <2>4. TablesAgree' /\ CurrentIsListed'
    BY <1>1, <2>1, <2>3 DEF TablesAgree, CurrentIsListed, Running
  <2>5. EntriesOwnTheirs'
    BY <1>1, <2>1, <2>3 DEF EntriesOwnTheirs
  <2>6. Idle' /\ SnapshotIsUseful' /\ SnapshotIsFresh'
    BY <1>1 DEF Idle, SnapshotIsUseful, SnapshotIsFresh, Running
  <2>7. QED
    BY <2>2, <2>4, <2>5, <2>6
<1>2. CASE server_create_fails
  <2> USE DEF server_create_fails, Goto, server
  <2>1. TypeOK'
    BY <1>2 DEF TypeOK
  <2>2. EntriesOwnTheirs'
    BY <1>2 DEF EntriesOwnTheirs, Infos
  <2>3. QED
    BY <1>2, <2>1, <2>2
    DEF Idle, TablesAgree, CurrentIsListed, SnapshotIsUseful, SnapshotIsFresh, Running
<1>3. CASE server_accept_null
  <2> USE DEF server_accept_null, Goto, server, kernel
  <2>1. TypeOK'
    BY <1>3 DEF TypeOK
  <2>2. EntriesOwnTheirs'
    BY <1>3 DEF EntriesOwnTheirs, Infos
  <2>3. QED
    BY <1>3, <2>1, <2>2
    DEF Idle, TablesAgree, CurrentIsListed, SnapshotIsUseful, SnapshotIsFresh, Running
<1>4. QED
  BY <1>1, <1>2, <1>3 DEF Bind

LEMMA AcceptRestKeeps == IInv /\ (select \/ select_fails \/ accept_fails \/ pick_active) => IInv'
<1> SUFFICES ASSUME IInv, select \/ select_fails \/ accept_fails \/ pick_active PROVE IInv'
  OBVIOUS
<1> USE DEF IInv, Goto, server, kernel
<1>1. UNCHANGED <<socket, connections, read_fdset, live, open, readable>>
  BY DEF select, select_fails, accept_fails, pick_active
<1>2. Running /\ Running'
  BY DEF select, select_fails, accept_fails, pick_active, Running
<1>3. TablesAgree' /\ EntriesOwnTheirs' /\ Idle'
  BY <1>1, <1>2 DEF TablesAgree, EntriesOwnTheirs, Idle, Sockets, Infos, Running
<1>4. CASE select
  <2>1. Ready \subseteq read_fdset
    BY DEF Ready
  <2>2. TypeOK' /\ CurrentIsListed'
    BY <1>1, <1>2, <1>4, <2>1 DEF select, TypeOK, CurrentIsListed
  <2>3. SnapshotIsUseful'
    <3>1. socket \in Ready \/ \E i \in DOMAIN connections : connections[i].socket \in Ready
      BY <1>2, <1>4, <2>1 DEF select, TablesAgree, Sockets
    <3>2. QED
      BY <1>1, <1>4, <2>1, <3>1 DEF select, SnapshotIsUseful, ActiveEntries
  <2>4. SnapshotIsFresh'
    <3>1. socket \in Ready => backlog > 0
      BY DEF Ready, AcceptReady
    <3>2. QED
      BY <1>1, <1>4, <3>1 DEF select, SnapshotIsFresh
  <2>5. QED
    BY <1>3, <2>2, <2>3, <2>4
<1>5. CASE select_fails
  BY <1>1, <1>2, <1>3, <1>5
  DEF select_fails, TypeOK, CurrentIsListed, SnapshotIsUseful, SnapshotIsFresh
<1>6. CASE accept_fails
  <2>1. backlog' \in 0 .. Backlog
    BY <1>6, BoundAssumption DEF accept_fails, TypeOK, SnapshotIsFresh, TakesNewcomer
  <2>2. QED
    BY <1>1, <1>2, <1>3, <1>6, <2>1
    DEF accept_fails, TypeOK, CurrentIsListed, SnapshotIsUseful, SnapshotIsFresh
<1>7. CASE pick_active
  <2>1. client_conn' = client_conn \/ \E i \in DOMAIN connections : client_conn' = connections[i]
    BY <1>7, FirstIsMember DEF pick_active, ActiveEntries
  <2>2. client_conn' \in Connection \cup {NoConnection}
    BY <2>1 DEF TypeOK
  <2>3. TypeOK'
    BY <1>1, <1>7, <2>2 DEF pick_active, TypeOK
  <2>4. CurrentIsListed'
    BY <1>1, <1>2, <2>1 DEF CurrentIsListed
  <2>5. QED
    BY <1>3, <1>7, <2>3, <2>4 DEF pick_active, SnapshotIsUseful, SnapshotIsFresh
<1>8. QED
  BY <1>4, <1>5, <1>6, <1>7

LEMMA ServeRestKeeps ==
  IInv /\ (serve_nobody \/ connection_recv_size \/ server_recv_msg \/ server_send_msg) => IInv'
<1> SUFFICES ASSUME IInv, serve_nobody \/ connection_recv_size \/ server_recv_msg \/ server_send_msg
             PROVE  IInv'
  OBVIOUS
<1> USE DEF IInv, Goto, server, kernel
<1>1. /\ UNCHANGED <<socket, connections, read_fdset, active_fdset, client_conn, live, open, backlog>>
      /\ readable' \subseteq readable
      /\ Running /\ Running'
      /\ pc' \in {"select", "payload", "reply"}
  BY DEF serve_nobody, connection_recv_size, server_recv_msg, server_send_msg, Received, Running
<1>2. TypeOK'
  BY <1>1 DEF TypeOK
<1>3. TablesAgree' /\ EntriesOwnTheirs' /\ Idle' /\ CurrentIsListed'
  BY <1>1 DEF TablesAgree, EntriesOwnTheirs, Idle, CurrentIsListed, Sockets, Infos, Running
<1>4. SnapshotIsUseful' /\ SnapshotIsFresh'
  BY <1>1 DEF SnapshotIsUseful, SnapshotIsFresh
<1>5. QED
  BY <1>2, <1>3, <1>4

(* Orderly or not, the end of the process leaves nothing behind.           *)
LEMMA EndKeeps == IInv /\ (server_destroy \/ server_send_msg_killed) => IInv'
<1> SUFFICES ASSUME IInv, server_destroy \/ server_send_msg_killed PROVE IInv'
  OBVIOUS
<1> USE DEF IInv, server_destroy, server_send_msg_killed, Goto
<1>1. TypeOK'
  <2>1. CASE server_destroy
    BY <2>1, BoundAssumption DEF TypeOK
  <2>2. CASE server_send_msg_killed
    BY <2>2, BoundAssumption DEF TypeOK
  <2>3. QED
    BY <2>1, <2>2
<1>2. EntriesOwnTheirs'
  <2>1. Infos' = {} /\ live' = {}
    BY DEF EntriesOwnTheirs, Infos
  <2>2. QED
    BY <2>1 DEF EntriesOwnTheirs
<1>3. TablesAgree' /\ CurrentIsListed' /\ Idle' /\ SnapshotIsUseful' /\ SnapshotIsFresh'
  BY DEF TablesAgree, CurrentIsListed, Idle, SnapshotIsUseful, SnapshotIsFresh, Running
<1>4. QED
  BY <1>1, <1>2, <1>3

(* What the peers do between two calls of the server.                      *)
LEMMA EnvironmentKeeps == IInv /\ Environment => IInv'
<1> SUFFICES ASSUME IInv, Environment PROVE IInv'
  OBVIOUS
<1> USE DEF IInv, server
<1>1. /\ UNCHANGED <<pc, socket, connections, read_fdset, active_fdset, client_conn, live, open>>
      /\ readable' \subseteq Fd
      /\ backlog' \in 0 .. Backlog
      /\ backlog' >= backlog
  <2>1. CASE connect
    BY <2>1, BoundAssumption DEF connect, TypeOK
  <2>2. CASE \E fd \in Fd : arrive(fd)
    BY <2>2, BoundAssumption DEF arrive, TypeOK
  <2>3. QED
    BY <2>1, <2>2 DEF Environment
<1>2. TypeOK'
  BY <1>1 DEF TypeOK
<1>3. TablesAgree' /\ EntriesOwnTheirs' /\ Idle' /\ CurrentIsListed' /\ SnapshotIsUseful'
  BY <1>1
  DEF TablesAgree, EntriesOwnTheirs, Idle, CurrentIsListed, SnapshotIsUseful,
      Sockets, Infos, Running, ActiveEntries
<1>4. SnapshotIsFresh'
  BY <1>1, BoundAssumption DEF SnapshotIsFresh, TypeOK
<1>5. QED
  BY <1>2, <1>3, <1>4

LEMMA NextKeeps == IInv /\ [Next]_vars => IInv'
<1> SUFFICES ASSUME IInv, [Next]_vars PROVE IInv'
  OBVIOUS
<1>1. CASE Bind
  BY <1>1, BindKeeps
<1>2. CASE Accept
  BY <1>2, AcceptKeeps, AcceptRestKeeps DEF Accept
<1>3. CASE Serve
  BY <1>3, CloseKeeps, ServeRestKeeps, EndKeeps DEF Serve
<1>4. CASE server_destroy
  BY <1>4, EndKeeps
<1>5. CASE Environment
  BY <1>5, EnvironmentKeeps
<1>6. CASE UNCHANGED vars
  BY <1>6
  DEF IInv, TypeOK, Idle, TablesAgree, EntriesOwnTheirs, CurrentIsListed,
      SnapshotIsUseful, SnapshotIsFresh, Sockets, Infos, Running, ActiveEntries,
      vars, server, kernel
<1>7. QED
  BY <1>1, <1>2, <1>3, <1>4, <1>5, <1>6 DEF Next

LEMMA Inductive == Spec => []IInv
  BY InitIInv, NextKeeps, PTL DEF Spec

-----------------------------------------------------------------------------
(* Every variable of server.c and of the kernel keeps its type, and the    *)
(* backlog its bound.                                                      *)
THEOREM TypeCorrect == Spec => []TypeOK
<1>1. IInv => TypeOK
  BY DEF IInv
<1>2. QED
  BY <1>1, Inductive, PTL

(* Whatever fails, the set given to select(), the connection list and the  *)
(* descriptors of the process agree while the loop runs.                   *)
THEOREM TablesAlwaysAgree == Spec => []TablesAgree
<1>1. IInv => TablesAgree
  BY DEF IInv
<1>2. QED
  BY <1>1, Inductive, PTL

(* No block of memory is freed twice or lost by the connection list.       *)
THEOREM EntriesAlwaysOwnTheirs == Spec => []EntriesOwnTheirs
<1>1. IInv => EntriesOwnTheirs
  BY DEF IInv
<1>2. QED
  BY <1>1, Inductive, PTL

(* ctx->client_conn never names a descriptor or a block that was freed and *)
(* given to somebody else.                                                 *)
THEOREM CurrentIsAlwaysListed == Spec => []CurrentIsListed
<1>1. IInv => CurrentIsListed
  BY DEF IInv
<1>2. QED
  BY <1>1, Inductive, PTL

(* server_accept always finds what select() reported.                      *)
THEOREM SnapshotIsAlwaysUseful == Spec => []SnapshotIsUseful
<1>1. IInv => SnapshotIsUseful
  BY DEF IInv
<1>2. QED
  BY <1>1, Inductive, PTL

(* A step that is not the destroy closes and unlists nobody but the        *)
(* connection that fws_server_serve is receiving from.                     *)
THEOREM OnlyTheCurrentIsEverDropped == Spec => OnlyTheCurrentIsDropped
<1> DEFINE Drops == pc' \notin {"done", "killed"} =>
                      /\ open \ open' \subseteq {client_conn.socket}
                      /\ \/ connections' = connections
                         \/ connections' = Append(connections, client_conn')
                         \/ \E i \in DOMAIN connections :
                              /\ connections[i] = client_conn
                              /\ connections' = RemoveAt(connections, i)
<1>1. ASSUME IInv, Next PROVE Drops
  <2>1. CASE Bind
    <3>1. pc = "bind" => open = {} /\ connections = <<>>
      BY <1>1 DEF IInv, Idle, Running
    <3>2. connections' = connections /\ (open = {} \/ open' = open)
      BY <2>1, <3>1 DEF Bind, server_create, server_create_fails, server_accept_null, Goto, server, kernel
    <3>3. QED
      BY <3>2
  <2>2. CASE accept
    BY <2>2 DEF accept, Listed
  <2>3. CASE select \/ select_fails \/ accept_fails \/ pick_active
    BY <2>3 DEF select, select_fails, accept_fails, pick_active, server, kernel
  <2>4. CASE serve_nobody \/ connection_recv_size \/ server_recv_msg \/ server_send_msg
    BY <2>4 DEF serve_nobody, connection_recv_size, server_recv_msg, server_send_msg, Received, server, kernel
  <2>5. CASE server_close_connection
    <3>1. PICK k \in DOMAIN connections : connections[k] = client_conn
      BY <1>1, <2>5 DEF server_close_connection, IInv, CurrentIsListed, Running, NoConnection
    <3>2. PICK i \in FirstOf(Matching) : connections' = RemoveAt(connections, i)
      <4>1. Matching # {}
        BY <3>1 DEF Matching
      <4>2. QED
        BY <2>5, <4>1 DEF server_close_connection
    <3>3. i \in DOMAIN connections /\ connections[i].socket = client_conn.socket
      BY <3>2, FirstIsMember DEF Matching
    <3>4. i = k
      BY <1>1, <3>1, <3>3 DEF IInv, EntriesOwnTheirs
    <3>5. open \ open' \subseteq {client_conn.socket}
      BY <2>5 DEF server_close_connection
    <3>6. QED
      BY <3>1, <3>2, <3>4, <3>5
  <2>6. CASE server_destroy \/ server_send_msg_killed
    BY <2>6 DEF server_destroy, server_send_msg_killed, Goto
  <2>7. CASE Environment
    BY <2>7 DEF Environment, connect, arrive, server
  <2>8. QED
    BY <1>1, <2>1, <2>2, <2>3, <2>4, <2>5, <2>6, <2>7 DEF Next, Accept, Serve
<1>2. IInv /\ [Next]_vars => [Drops]_vars
  BY <1>1
<1>3. QED
  BY <1>2, Inductive, PTL DEF Spec, OnlyTheCurrentIsDropped

-----------------------------------------------------------------------------
(* What fws_server_serve receives from, where neither select() nor         *)
(* accept() fails for a reason of its own and descriptors are not scarce:  *)
(* there is one for the listening socket besides those of MaxConns         *)
(* connections.                                                            *)
CallsSucceed ==
  /\ {"select", "accept"} \cap MayFail = {}
  /\ IsFiniteSet(Fd) => Cardinality(Fd) > MaxConns

(* Every connection has been in the backlog, where connect put it while    *)
(* there was room.                                                         *)
WithinBound == Len(connections) + backlog <= MaxConns

LEMMA InitWithinBound == Init => WithinBound
  BY BoundAssumption DEF Init, WithinBound

(* server_accept moves a connection from the backlog to the list, and only *)
(* connect adds one.                                                       *)
LEMMA BoundKeeps == IInv /\ WithinBound /\ [Next]_vars => WithinBound'
<1> SUFFICES ASSUME IInv, WithinBound, [Next]_vars PROVE WithinBound'
  OBVIOUS
<1>1. /\ connections \in Seq(Connection) /\ Len(connections) \in Nat
      /\ backlog \in Nat /\ MaxConns \in Nat
  BY BoundAssumption DEF IInv, TypeOK
<1>2. CASE UNCHANGED <<connections, backlog>>
  BY <1>2 DEF WithinBound
<1>3. CASE accept
  <2>1. PICK conn : connections' = Append(connections, conn)
    BY <1>3 DEF accept, Listed
  <2>2. Len(connections') = Len(connections) + 1 /\ backlog' = backlog - 1
    BY <1>1, <1>3, <2>1 DEF accept
  <2>3. QED
    BY <1>1, <2>2 DEF WithinBound
<1>4. CASE accept_fails
  BY <1>1, <1>4 DEF accept_fails, WithinBound, server
<1>5. CASE server_close_connection
  <2>1. backlog' = backlog
    BY <1>5 DEF server_close_connection
  <2>2. CASE connections' = connections
    BY <2>1, <2>2 DEF WithinBound
  <2>3. CASE \E i \in FirstOf(Matching) : connections' = RemoveAt(connections, i)
    <3>1. PICK i \in DOMAIN connections : connections' = RemoveAt(connections, i)
      BY <2>3, FirstIsMember DEF Matching
    <3>2. Len(connections') = Len(connections) - 1
      BY <1>1, <3>1, RemoveAtProperties
    <3>3. QED
      BY <1>1, <2>1, <3>2 DEF WithinBound
  <2>4. QED
    BY <1>5, <2>2, <2>3 DEF server_close_connection
<1>6. CASE server_send_msg_killed \/ server_destroy
  BY <1>1, <1>6 DEF server_send_msg_killed, server_destroy, WithinBound
<1>7. CASE connect
  BY <1>1, <1>7 DEF connect, WithinBound, server
<1>8. QED
  BY <1>2, <1>3, <1>4, <1>5, <1>6, <1>7
  DEF Next, Bind, Accept, Serve, Environment, server_create, server_create_fails,
      server_accept_null, select, select_fails, pick_active, serve_nobody,
      connection_recv_size, server_recv_msg, Received, server_send_msg, arrive,
      vars, server, kernel

(* The process holds one descriptor for each entry and one for the         *)
(* listening socket: with fewer than MaxConns entries there is another.    *)
LEMMA DescriptorLeft ==
  ASSUME CallsSucceed, TypeOK, TablesAgree, Running, Len(connections) < MaxConns
  PROVE  Fd \ open # {}
<1> DEFINE n == Len(connections)
           f == [i \in 1 .. n + 1 |-> IF i <= n THEN connections[i].socket ELSE socket]
<1>1. n \in Nat /\ DOMAIN connections = 1 .. n
  BY DEF TypeOK
<1>2. open = {connections[i].socket : i \in 1 .. n} \cup {socket}
  BY <1>1 DEF TablesAgree, Sockets
<1>3. f \in Surjection(1 .. n + 1, open)
  <2>1. f \in [1 .. n + 1 -> open]
    BY <1>1, <1>2
  <2>2. \A fd \in open : \E i \in 1 .. n + 1 : f[i] = fd
    <3> SUFFICES ASSUME NEW fd \in open PROVE \E i \in 1 .. n + 1 : f[i] = fd
      OBVIOUS
    <3>1. CASE fd = socket
      BY <1>1, <3>1
    <3>2. CASE \E i \in 1 .. n : fd = connections[i].socket
      BY <1>1, <3>2
    <3>3. QED
      BY <1>2, <3>1, <3>2
  <2>3. QED
    BY <2>1, <2>2 DEF Surjection
<1> HIDE DEF f
<1>4. IsFiniteSet(1 .. n + 1) /\ Cardinality(1 .. n + 1) = n + 1
  BY <1>1, FS_Interval
<1>5. IsFiniteSet(open) /\ Cardinality(open) <= n + 1
  BY <1>3, <1>4, FS_Surjection
<1>6. ASSUME Fd \subseteq open PROVE FALSE
  <2>1. IsFiniteSet(Fd) /\ Cardinality(Fd) <= Cardinality(open)
    BY <1>5, <1>6, FS_Subset
  <2>2. Cardinality(Fd) \in Nat /\ Cardinality(open) \in Nat
    BY <1>5, <2>1, FS_CardinalityType
  <2>3. QED
    BY <1>1, <1>5, <2>1, <2>2, BoundAssumption DEF CallsSucceed
<1>7. QED
  BY <1>6

(* server_accept then always gets to accept() or to an active entry, and   *)
(* either leaves client_conn what it found; it stays that until            *)
(* fws_server_serve has received from it.                                  *)
LEMMA ServingKeeps ==
  ASSUME CallsSucceed, IInv, WithinBound, ServesWhatWasAccepted, [Next]_vars
  PROVE  ServesWhatWasAccepted'
<1> SUFFICES ASSUME pc' = "serve" PROVE ServesWhatWasAccepted'
  BY DEF ServesWhatWasAccepted
<1>1. /\ connections \in Seq(Connection)
      /\ backlog \in Nat /\ MaxConns \in Nat /\ Len(connections) \in Nat
  BY BoundAssumption DEF IInv, TypeOK
<1>2. CASE pc = "serve" /\ UNCHANGED <<client_conn, connections, active_fdset, socket>>
  BY <1>2 DEF ServesWhatWasAccepted, TakesNewcomer
<1>3. CASE select_fails
  BY <1>3 DEF select_fails, Goto, IInv, TablesAgree, Running, CallsSucceed
<1>4. CASE accept
  <2>1. /\ connections' = Append(connections, client_conn')
        /\ TakesNewcomer'
    BY <1>4 DEF accept, Listed, TakesNewcomer
  <2>2. Last(connections') = client_conn'
    BY <1>1, <2>1 DEF Last
  <2>3. QED
    BY <2>1, <2>2 DEF ServesWhatWasAccepted
<1>5. CASE accept_fails
  <2>1. Running /\ backlog > 0
    BY <1>5 DEF accept_fails, Goto, Running, IInv, SnapshotIsFresh, TakesNewcomer
  <2>2. Fd \ open # {}
    BY <1>1, <2>1, DescriptorLeft DEF WithinBound, IInv
  <2>3. QED
    BY <1>5, <2>2 DEF accept_fails, CallsSucceed
<1>6. CASE pick_active
  <2>1. ActiveEntries # {} /\ ~TakesNewcomer /\ ~TakesNewcomer'
    BY <1>6 DEF pick_active, Goto, IInv, SnapshotIsUseful, TakesNewcomer, server
  <2>2. ActiveEntries = {} \/ \E i \in ActiveEntries : client_conn' = connections[i]
    BY <1>6, FirstIsMember DEF pick_active
  <2>3. client_conn'.socket \in active_fdset /\ active_fdset' = active_fdset
    BY <1>6, <2>1, <2>2 DEF ActiveEntries, pick_active
  <2>4. QED
    BY <2>1, <2>3 DEF ServesWhatWasAccepted
<1>7. QED
  BY <1>2, <1>3, <1>4, <1>5, <1>6
  DEF Next, Bind, Accept, Serve, Environment, server_create, server_create_fails,
      server_accept_null, select, serve_nobody, connection_recv_size, server_recv_msg,
      Received, server_close_connection, server_send_msg, server_send_msg_killed,
      server_destroy, connect, arrive, Goto, vars, server, kernel

(* Where the calls succeed, fws_server_serve receives from the connection  *)
(* that fws_server_accept just accepted or found active, never from one    *)
(* that an earlier round left in client_conn.                              *)
THEOREM AcceptedIsAlwaysServed ==
  ASSUME CallsSucceed
  PROVE  Spec => []ServesWhatWasAccepted
<1>1. Init => ServesWhatWasAccepted
  BY DEF Init, ServesWhatWasAccepted
<1>2. /\ IInv /\ WithinBound /\ ServesWhatWasAccepted /\ [Next]_vars
      => ServesWhatWasAccepted'
  BY ServingKeeps
<1>3. QED
  BY <1>1, <1>2, InitWithinBound, BoundKeeps, Inductive, PTL DEF Spec
=============================================================================
