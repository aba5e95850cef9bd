------------------------------- MODULE Server -------------------------------
(***************************************************************************)
(* networking/server.c together with the connection_t that its caller      *)
(* passes in (ctx->client_conn of fws/fws.c): a single-threaded server     *)
(* that select()s over a listening socket and a list of connections,       *)
(* accepts or picks one, blocks in recv() on it, answers it, and drops it  *)
(* when recv() returns nothing.  The caller is the loop of sample/main.c,  *)
(* which ignores what fws_server_accept returns.                           *)
(*                                                                         *)
(* What travels in the messages is left to module Fws; here a connection   *)
(* is only readable (data, end of file or an error is queued) or not.      *)
(* Every step is one system call with the code that follows it up to the   *)
(* next one, so that the environment can move in between.                  *)
(***************************************************************************)
EXTENDS Integers, FiniteSets, SequencesExt

CONSTANTS
  Fd,        (* descriptors the process may be given                       *)
  Info,      (* addresses malloc may return for the address of a peer      *)
  NULL,      (* the null pointer                                           *)
  Backlog,   (* the backlog passed to listen()                             *)
  MaxConns,  (* bound: connections open or waiting at one time             *)
  MayFail    (* calls that may fail for reasons outside the model          *)

(* Descriptor 0 is taken (the sample reads its menu from it): server.c     *)
(* uses 0 for "no connection" and -1 for INVALID_SOCKET.                   *)
ASSUME FdAssumption == Fd \subseteq Nat \ {0}
ASSUME InfoAssumption == NULL \notin Info
ASSUME BoundAssumption == Backlog \in Nat /\ MaxConns \in Nat

INVALID_SOCKET == -1

Connection == [socket : Fd, info : Info]
NoConnection == [socket |-> 0, info |-> NULL]

VARIABLES
  pc,           (* where the loop of the server process stands             *)
  socket,       (* server->socket                                          *)
  connections,  (* server->connections, each entry a connection_t          *)
  read_fdset,   (* server->read_fdset                                      *)
  active_fdset, (* the local copy of it that select() reduced              *)
  client_conn,  (* ctx->client_conn                                        *)
  live,         (* addresses of Info that are allocated                    *)
  open,         (* kernel: the descriptors of this process                 *)
  readable,     (* kernel: the ones with something to recv()               *)
  backlog       (* kernel: connections waiting to be accepted              *)

server == <<socket, connections, read_fdset>>
kernel == <<open, readable, backlog>>
vars == <<pc, server, active_fdset, client_conn, live, kernel>>

(* fws_init: the context is zeroed; nothing is bound.                      *)
Init ==
  /\ pc = "bind"
  /\ socket = INVALID_SOCKET
  /\ connections = <<>>
  /\ read_fdset = {}
  /\ active_fdset = {}
  /\ client_conn = NoConnection
  /\ live = {}
  /\ open = {}
  /\ readable = {}
  /\ backlog = 0

Goto(from, to) == pc = from /\ pc' = to

Sockets == {connections[i].socket : i \in DOMAIN connections}
Infos == {connections[i].info : i \in DOMAIN connections}

-----------------------------------------------------------------------------
(* fws_server_bind *)

server_create ==
  /\ Goto("bind", "select")
  /\ \E fd \in Fd :
       /\ socket' = fd
       /\ read_fdset' = {fd}
       /\ open' = {fd}
  /\ UNCHANGED <<connections, active_fdset, client_conn, live, readable, backlog>>

(* socket(), bind() or listen() fails: server_create returns NULL, and     *)
(* after the latter two the descriptor stays open.                         *)
server_create_fails ==
  /\ "create" \in MayFail
  /\ Goto("bind", "unbound")
  /\ \E fds \in {{}} \cup {{fd} : fd \in Fd} : open' = fds
  /\ UNCHANGED <<server, active_fdset, client_conn, live, readable, backlog>>

(* The sample ignores that and server_accept reads NULL->status.           *)
server_accept_null ==
  /\ Goto("unbound", "crash")
  /\ UNCHANGED <<server, active_fdset, client_conn, live, kernel>>

-----------------------------------------------------------------------------
(* fws_server_accept: select(), then accept() or the first active entry    *)

(* select() looks only below nfds, which is one more than the largest      *)
(* descriptor of the listening socket and of the listed connections.       *)
BelowNfds(fd) == \E s \in Sockets \cup {socket} : fd <= s

AcceptReady == IF backlog > 0 THEN {socket} ELSE {}

Ready == {fd \in (readable \ {socket}) \cup AcceptReady :
            fd \in read_fdset /\ BelowNfds(fd)}

select ==
  /\ read_fdset \subseteq open
  /\ Ready # {}
  /\ active_fdset' = Ready
  /\ Goto("select", "ready")
  /\ UNCHANGED <<server, client_conn, live, kernel>>

(* A closed descriptor in the set is EBADF; other errors come from         *)
(* outside.  server_accept returns -1 and client_conn stays what it was.   *)
select_fails ==
  /\ read_fdset \subseteq open => "select" \in MayFail
  /\ Goto("select", "serve")
  /\ UNCHANGED <<server, active_fdset, client_conn, live, kernel>>

TakesNewcomer_last == active_fdset = {socket}
TakesNewcomer == socket \in active_fdset

Listed_dropped(conn) == connections
Listed(conn) == Append(connections, conn)

(* The newcomer may have sent something, or gone, while it waited.         *)
accept ==
  /\ TakesNewcomer
  /\ \E fd \in Fd \ open, info \in Info \ live :
       LET conn == [socket |-> fd, info |-> info]
       IN /\ open' = open \cup {fd}
          /\ live' = live \cup {info}
          /\ read_fdset' = read_fdset \cup {fd}
          /\ client_conn' = conn
          /\ connections' = Listed(conn)
          /\ readable' \in {readable, readable \cup {fd}}
  /\ backlog' = backlog - 1
  /\ Goto("ready", "serve")
  /\ UNCHANGED <<socket, active_fdset>>

(* accept() fails: the connection was aborted (it leaves the queue) or the *)
(* process has no descriptor left (it stays).  server_accept returns -1    *)
(* and client_conn stays what it was; the block for the address leaks.     *)
accept_fails ==
  /\ TakesNewcomer
  /\ Fd \ open # {} => "accept" \in MayFail
  /\ backlog' = IF Fd \subseteq open THEN backlog ELSE backlog - 1
  /\ Goto("ready", "serve")
  /\ UNCHANGED <<server, active_fdset, client_conn, live, open, readable>>

(* A loop over the list that stops at the first hit: the least index.      *)
FirstOf_last(S) == {i \in S : \A j \in S : i >= j}
FirstOf(S) == {i \in S : \A j \in S : i <= j}

ActiveEntries_off_by_one == {i \in 1 .. Len(connections) - 1 : connections[i].socket \in active_fdset}
ActiveEntries_untested == DOMAIN connections
ActiveEntries == {i \in DOMAIN connections : connections[i].socket \in active_fdset}

pick_active ==
  /\ ~TakesNewcomer
  /\ \/ ActiveEntries = {} /\ UNCHANGED client_conn
     \/ \E i \in FirstOf(ActiveEntries) : client_conn' = connections[i]
  /\ Goto("ready", "serve")
  /\ UNCHANGED <<server, active_fdset, live, kernel>>

-----------------------------------------------------------------------------
(* fws_server_serve: receive from client_conn, answer it *)

serve_nobody ==
  /\ client_conn.socket = 0
  /\ Goto("serve", "select")
  /\ UNCHANGED <<server, active_fdset, client_conn, live, kernel>>

(* recv() returns at once on a closed descriptor, else it waits for data,  *)
(* end of file or an error.                                                *)
RecvReturns == client_conn.socket \in open => client_conn.socket \in readable

Received ==
  /\ client_conn.socket \in open \cap readable
  /\ readable' \in {readable, readable \ {client_conn.socket}}
  /\ UNCHANGED <<server, active_fdset, client_conn, live, open, backlog>>

(* connection_recv makes two calls of recv(): the size, then the message.  *)
connection_recv_size == Goto("serve", "payload") /\ Received
server_recv_msg == Goto("payload", "reply") /\ Received

(* Every entry, as if nothing were compared.                               *)
Matching_any == DOMAIN connections
Matching == {i \in DOMAIN connections : connections[i].socket = client_conn.socket}

(* connection_destroy frees the entry and the address it points to.        *)
LiveWithout_leak(conn) == live
LiveWithout(conn) == live \ {conn.info}

SetWithoutCurrent_uncleared == read_fdset
SetWithoutCurrent == read_fdset \ {client_conn.socket}

AfterClose_kept == client_conn
AfterClose_invalid == [socket |-> INVALID_SOCKET, info |-> NULL]
AfterClose == NoConnection

(* Either recv() gives nothing: server_close_connection frees the first    *)
(* entry with this descriptor, closes it and zeroes client_conn.           *)
server_close_connection ==
  /\ pc \in {"serve", "payload"}
  /\ client_conn.socket # 0
  /\ RecvReturns
  /\ \/ Matching = {} /\ UNCHANGED <<connections, live>>
     \/ \E i \in FirstOf(Matching) :
          /\ live' = LiveWithout(connections[i])
          /\ connections' = RemoveAt(connections, i)
  /\ read_fdset' = SetWithoutCurrent
  /\ open' = open \ {client_conn.socket}
  /\ readable' = readable \ {client_conn.socket}
  /\ client_conn' = AfterClose
  /\ pc' = "select"
  /\ UNCHANGED <<socket, active_fdset, backlog>>

(* server_send_msg returns 0 whatever connection_send returned.            *)
server_send_msg ==
  /\ Goto("reply", "select")
  /\ UNCHANGED <<server, active_fdset, client_conn, live, kernel>>

(* The peer is gone and nobody handles SIGPIPE: the process ends, and the  *)
(* kernel takes back all it had.                                           *)
server_send_msg_killed ==
  /\ "send" \in MayFail
  /\ Goto("reply", "killed")
  /\ connections' = <<>>
  /\ live' = {}
  /\ open' = {}
  /\ readable' = {}
  /\ backlog' = 0
  /\ UNCHANGED <<socket, read_fdset, active_fdset, client_conn>>

-----------------------------------------------------------------------------
(* fws_done: every entry is freed, the listening socket is closed, the     *)
(* sockets of the connections are not.                                     *)
server_destroy ==
  /\ Goto("select", "done")
  /\ live' = live \ Infos
  /\ connections' = <<>>
  /\ open' = open \ {socket}
  /\ socket' = INVALID_SOCKET
  /\ read_fdset' = {}
  /\ backlog' = 0
  /\ UNCHANGED <<active_fdset, client_conn, readable>>

-----------------------------------------------------------------------------
(* The environment *)

connect ==
  /\ socket \in open
  /\ backlog < Backlog
  /\ backlog + Len(connections) < MaxConns
  /\ backlog' = backlog + 1
  /\ UNCHANGED <<pc, server, active_fdset, client_conn, live, open, readable>>

arrive(fd) ==
  /\ fd \in open \ (readable \cup {socket})
  /\ readable' = readable \cup {fd}
  /\ UNCHANGED <<pc, server, active_fdset, client_conn, live, open, backlog>>

-----------------------------------------------------------------------------
Accept == select \/ select_fails \/ accept \/ accept_fails \/ pick_active
Serve ==
  \/ serve_nobody
  \/ connection_recv_size
  \/ server_recv_msg
  \/ server_close_connection
  \/ server_send_msg
  \/ server_send_msg_killed
Bind == server_create \/ server_create_fails \/ server_accept_null
Environment == connect \/ \E fd \in Fd : arrive(fd)

Next == Bind \/ Accept \/ Serve \/ server_destroy \/ Environment

Spec == Init /\ [][Next]_vars

(* The process runs and is never told to stop, and a peer that connected   *)
(* eventually sends something or goes away.                                *)
Fairness ==
  /\ WF_vars(Bind \/ Accept \/ Serve)
  /\ \A fd \in Fd : WF_vars(arrive(fd))

FairSpec == Spec /\ Fairness
-----------------------------------------------------------------------------
(* Properties *)

Running == pc \in {"select", "ready", "serve", "payload", "reply"}

(* Every variable has its type.                                            *)
TypeOK ==
  /\ pc \in {"bind", "unbound", "crash", "select", "ready", "serve", "payload", "reply",
            "done", "killed"}
  /\ socket \in Fd \cup {INVALID_SOCKET}
  /\ connections \in Seq(Connection)
  /\ read_fdset \subseteq Fd
  /\ active_fdset \subseteq Fd
  /\ client_conn \in Connection \cup {NoConnection}
  /\ live \subseteq Info
  /\ open \subseteq Fd
  /\ readable \subseteq Fd
  /\ backlog \in 0 .. Backlog

(* Between two calls of the loop the three records of who is connected     *)
(* agree: the set given to select(), the connection list and the kernel's  *)
(* descriptors.  A descriptor too many in the set makes every select()     *)
(* fail with EBADF, one too few is a client that is never heard, one more  *)
(* in the kernel is a leak.                                                *)
TablesAgree ==
  Running => /\ read_fdset = Sockets \cup {socket}
             /\ open = read_fdset
             /\ socket \notin Sockets

(* No two entries share a descriptor (server_close_connection frees the    *)
(* first that matches) or an address block (connection_destroy frees it),  *)
(* and a block is allocated exactly as long as an entry owns it.           *)
EntriesOwnTheirs ==
  /\ \A i, j \in DOMAIN connections :
       i # j => /\ connections[i].socket # connections[j].socket
                /\ connections[i].info # connections[j].info
  /\ live = Infos

(* ctx->client_conn survives from one round of the loop to the next, while *)
(* descriptors and addresses are reused.  It is either empty or a copy of  *)
(* an entry of the list, so closing it never hits another client.          *)
CurrentIsListed ==
  Running /\ client_conn # NoConnection =>
    \E i \in DOMAIN connections : connections[i] = client_conn

(* When server_accept acts on what select() said, there is something to    *)
(* act on: it never returns 0 with client_conn left as it was.             *)
SnapshotIsUseful ==
  pc = "ready" => /\ active_fdset \subseteq read_fdset
                  /\ socket \in active_fdset \/ ActiveEntries # {}

(* fws_server_serve receives from the connection that the call of          *)
(* fws_server_accept before it accepted or found active, and not from one  *)
(* left over from an earlier round, on which recv() may block for good.    *)
ServesWhatWasAccepted ==
  pc = "serve" /\ client_conn # NoConnection =>
    IF TakesNewcomer THEN client_conn = Last(connections)
    ELSE client_conn.socket \in active_fdset

(* A step of the server drops at most the current connection, the entry    *)
(* that client_conn copies with its block; the list otherwise grows at its *)
(* end or stays, and keeps the order in which server_accept searches it.   *)
OnlyTheCurrentIsDropped ==
  [][pc' \notin {"done", "killed"} =>
       /\ open \ open' \subseteq {client_conn.socket}
       /\ \/ connections' = connections
          \/ connections' = Append(connections, client_conn')
          \/ \E i \in DOMAIN connections :
               /\ connections[i] = client_conn
               /\ connections' = RemoveAt(connections, i)]_vars

(* A connection waiting in the backlog is accepted, however busy the       *)
(* established ones are: server_accept looks at the listening socket       *)
(* first.  (A newcomer is the only one served without being active.)       *)
NewcomersAreAccepted ==
  backlog > 0 ~>
    \/ pc = "done"
    \/ pc = "serve" /\ client_conn # NoConnection /\ client_conn.socket \notin active_fdset

(* Once no more newcomers come, the first entry of the list is received    *)
(* from whenever it has something to say.  (Only the first one: the others *)
(* wait as long as entries before them keep the server busy.)              *)
FirstIsHeard ==
  <>[](backlog = 0) =>
    \A fd \in Fd :
      /\ connections # <<>>
      /\ connections[1].socket = fd
      /\ fd \in readable
      ~> \/ pc = "done"
         \/ pc \in {"serve", "payload"} /\ client_conn.socket = fd
=============================================================================
