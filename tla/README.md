# Verification of FWS

FWS is a small C library for web services without XML. A server process
owns a list of named callbacks; a client connects over TCP, sends a request with
a name and some bytes, and waits for the bytes that the callback returns or for
a fault. Messages are ASN.1 envelopes in DER, and each travels behind four bytes
of size. This directory holds TLA+ models of the library, the configurations
that check them with TLC, and proofs for TLAPS.

    networking/server.c      select() loop, connection list          Server.tla
    networking/client.c      one connection, send and receive        Fws.tla
    networking/connection.c  size and bytes over a TCP stream        Connection.tla
    networking/vector.c      growing array (the connection list)     Vector.tla
    networking/message.c     buffer with typed reads and writes      Messages.tla, Exchange.tla
    fws/fws.c                calls and how they are served           Fws.tla
    fws/Envelope.*           generated descriptors                   Envelope.tla
    asn1c/                   BER, PER and XER codecs                 Ber.tla, Uper.tla, Xer.tla, ...
    sample/                  the loop and the order of the calls     Server.tla, Fws.tla


## 1. Inventory

### Server (`networking/server.c`)

State: the listening socket, `connections` (a vector of pointers to
`connection_t`, each a descriptor and a pointer to a block with the peer's
address), `read_fdset` for select(), and, owned by the caller, one `connection_t`
by value, `ctx->client_conn`. The kernel keeps a fourth record, the descriptors
that are open.

Operations: `server_create`; `server_accept`, which select()s, then either
accepts the first newcomer or copies the first active entry of the list into
`client_conn`; `server_recv_msg`, which blocks in recv() on `client_conn` and
calls `server_close_connection` if that returns nothing; `server_send_msg`;
`server_destroy`.

What is hard: three records of the same thing, updated one after the other;
`client_conn` is a *copy* that survives a failed round (the sample ignores what
`fws_server_accept` returns), while descriptors and memory blocks are reused by
the kernel and by malloc; whatever happens between select() and recv() happens
without the server noticing; one blocking recv() stops everybody.

Correct means: the records agree between two calls, the current connection is an
entry of the list, only the current connection is ever dropped, a connection is
received from only if this very round found it, and neither newcomers nor the
first entry are passed over for ever.

### Calls (`fws/fws.c`) and clients (`networking/client.c`)

State: the context with its function list and `client_conn`; for a client, one
connection. Nothing counts messages and nothing in a response names its call.

Operations: bind, accept and serve on one side, connect, call and done on the
other. `fws_server_serve` receives a size and a message, decodes it, looks for
the callback with memcmp() over the length of the *request's* type, runs it, and
sends a body, a fault, or (if the callback succeeded without data) nothing.
`fws_client_call` sends a size and a message and receives a size and a message.

What is hard: the two sides stay in step only because they take turns, through
crashes of either at any system call; send() results are dropped everywhere;
SIGPIPE is not handled; the order of the function list matters.

Correct means: a call runs at most once and before it returns, RET_OK returns
what that run of that very call computed, a call returns, and a client that
died is noticed.

### Framing (`networking/connection.c`)

State: none but the two byte streams of TCP. `connection_send` is two send()s,
`connection_recv` two recv()s, whose results are only compared with zero.

What is hard: pieces of a send() may arrive apart; a process may end between the
two; a size that is read from the wrong place is taken for a size.

Correct means: a size is read exactly where one was written, messages arrive
whole, in order, and an end that receives NULL has lost its peer.

### Vector (`networking/vector.c`)

State: the array, how much of it is allocated, how much of it is in use.
Operations: push, insert (replaces), insert_at, unshift, pop, shift, remove,
remove_all, transpose, get, and growing in between.

What is hard: lengths of memmove() at the edges, and growing at the right
moment. Correct means: the vector is the list its calls describe, and no call
touches memory past the array.

### Message (`networking/message.c`)

State: a buffer, its size and a position. Operations: writes and reads for each C type,
which convert between host and network order; strings with their length in front; and a
stream that is set, appended, cleared or taken as it is. `fws.c` uses the last group only;
the rest is for applications that talk through `connection.c` without envelopes.

What is hard: a write goes to the position while the buffer grows at its end, and the
two are the same only if each write says so; a `long` is sent as 32 bits and read
without a sign; a read looks at the position only, and at no end. Correct means: the
fields that one end writes are those that the other reads, in a message that was sent
after any number of writes, and none is read past the end.

### Codecs (`asn1c/`) and descriptors (`fws/Envelope.*`, `sample/Test*`)

The runtime of asn1c 0.9.21: for each ASN.1 type a decoder and an encoder for
BER/DER, for XER (XML) and, for most, for unaligned PER, driven by generated
descriptors. FWS writes and reads its envelopes in DER; what an envelope carries
is the application's, which picks type and syntax.

State: of a BER or XER decoder, the context in the structure that it fills (phase,
step, what is left of the frame, a stack for strings in segments), since a decoder
that runs out of octets returns `RC_WMORE` and is called again with what it did not
consume and more. A PER decoder keeps a position in bits and starts over. An encoder
keeps nothing, but runs twice in DER: once to learn the length that goes in front.

What is hard: a decoder may be interrupted at every octet of every part of a value,
of any nesting; the peer chooses among many legal encodings (definite or indefinite
lengths, strings in segments, any order in a SET, empty elements, comments, blanks
and attributes in XML) and may know more extensions than the receiver; lengths and
counts are kept by hand next to what they count; PER has no octets at all; and the
three syntaxes have 25 types' worth of edges at 127, 128 and so on.

Correct means: a value arrives as it was sent, whatever legal form the sender
chose and wherever it was cut; no legal encoding is refused; a decoder takes its own
octets and no others, and waits only for what must still come; an encoder writes the
canonical form and as much as it says.

### How they interact

The sample's loop calls `fws_server_accept` and `fws_server_serve` for ever;
these call `server.c`, which keeps its list in a vector and talks through
`connection.c`. There are no threads: concurrency is between the server process,
the client processes, and the kernel, which delivers, accepts and closes while
none of them looks. Callbacks are called synchronously and see only bytes.


## 2. Modules

| module | models | composed of |
|---|---|---|
| `Server` | server.c with `client_conn`, over a kernel with descriptors, a backlog and readable connections | |
| `Fws` | fws.c on both sides and client.c, over a stream of frames per direction | instantiates `Server`, `Rpc` |
| `Rpc` | what `fws_client_call` promises: at most one run, the right answer | |
| `Connection` | connection.c byte by byte | instantiates `Channel` |
| `Channel` | a channel of whole messages, NULL only if the peer is gone | |
| `Messages` | message.c: the buffer, typed writes and reads | constant-level |
| `Exchange` | two applications that compose, send, receive and read messages | extends `Connection`, `Messages` |
| `Vector` | vector.c with its cells | instantiates `List` |
| `List` | the list that the calls describe | |
| `Codec` | one value crosses a connection: encoded, delivered in pieces, decoded | the codec is a parameter; extends `Tlv`, `Xml`, `Values` |
| `Syntaxes` | BER, UPER, XER and BASIC-XER as that parameter | extends all of the following |
| `Shifts` | numbers taken apart into digits and put together, without RECURSIVE | |
| `Tlv`, `Prim` | tags and lengths; contents of INTEGER, OBJECT IDENTIFIER, RELATIVE-OID | each extends `Shifts` |
| `Types`, `Envelope` | type descriptors and structures; the generated descriptors | |
| `Ber`, `Der` | the BER decoders, the DER encoders | extend `Tlv`, `Types`, `Times` |
| `Times`, `Charsets` | GeneralizedTime and UTCTime; UTF-8, alphabets and the constraint checks | extend `Prim`; `Types` |
| `Uper` | unaligned PER, both ways | extends `Types`, `Prim` |
| `Xml`, `XerText`, `Xer` | the tokenizer; the text of each type; elements, both ways | each extends the one before, `XerText` also `Charsets` |
| `Values`, `Sender`, `XmlSender` | how a structure is filled and read; what X.690, X.691 and X.693 let a sender write | |
| `Server_proofs`, `Vector_proofs`, `Connection_proofs` | theorems | extend `Server`, `Vector`, `Connection` |
| `Messages_proofs`, `Exchange_proofs` | theorems | extend `Messages`; `Exchange` and the proofs of both its parts |
| `Octets_proofs` | theorems | extends `Tlv`, `Prim` |
| `Fws_proofs`, `Fws_refinement` | theorems; those about `Server` and `Rpc` | extend `Fws` and instantiate `Server_proofs`; extend `Fws_proofs` |
| `MCServer`, `MCFws`, `MCConnection`, `MCExchange`, `MCVector`, `MCCodec` | constants and symmetry for TLC | extend the module they name |

The layers fit together as follows. `Fws` takes over the actions of `Server`
one by one (`S!accept`, `S!server_close_connection`, ...) and joins to each what
it does to the streams; `Server`'s free environment (`arrive`, `connect`) becomes
what the clients do. `ImplementsServer` checks that nothing else happens to the
server's state. `Server` keeps its connections in a sequence with `Append` and
`RemoveAt`; that `vector_push` and `vector_remove` are those is the refinement
`Vector` => `List`. `Fws` receives a size or a message as one unit; that this is
what `connection_recv` does, as long as the bytes of a send() arrive together, is
the refinement `Connection` => `Channel`, and what happens otherwise is the run
`connection_torn`. `Exchange` puts message.c on top of that, with the sending and the
receiving application joined to the actions of `Connection`; the refinement of `Channel` is
checked there, on messages that were composed field by field.

### Server

A step is one system call with the code from there to the next one, so that the
environment can move between any two. `pc` is where the loop of `sample/main.c`
stands: `select` (in `server_accept`, before select()), `ready` (after it, with
the snapshot `active_fdset`), `serve` (in the first recv() of
`fws_server_serve`), `payload` (in the second), `reply` (before the response is
sent). `unbound` and `crash` follow a `server_create` that failed, whose NULL the
sample passes on to `server_accept`; `killed` is SIGPIPE. The blocks of the
peers' addresses are tracked in `live`, as malloc may return a block that
`connection_destroy` freed. Every failure that the environment may cause is
switched on by `MayFail`; two failures follow from the state itself and need no
switch: select() with a closed descriptor (EBADF), and accept() with no
descriptor left.

Assumed: descriptor 0 is taken (`FdAssumption`), because the code uses 0 for "no
connection"; malloc does not fail. Left out: `fprintf`, the address printed after
it was freed (server.c:228), the block that leaks when accept() fails (it is
never looked at again; `live` has the blocks that the list should own).

### Fws

`c2s[c]` and `s2c[c]` are what was sent and not received yet, one unit per send():
`SIZE`, then a frame. A request carries its type and, as data, the client and
the number of the call, so that properties can tell calls apart; the code itself
never sees that number, which starts over after `CallNumbers`. A response is a body with what the callback computed
(its index in the function list, the type, the data), or a fault. Names are
short sequences of symbols, because memcmp() over a prefix is what the dispatch
does. `Outcome` is what callbacks do: return data, return an error, or return
RET_OK without data.

Clients connect once, call as often as they like, and may leave between two
calls, end anywhere inside one (with or without a reset that takes back what was
sent), or be killed by SIGPIPE. `OddFrame` adds a peer whose envelope has no body
or is not one. `Oversized` are the names that, with the tags, take more than the 1024
bytes that a request's buffer has beyond its data: for these the encoder fails,
`message_set_stream` is called with a size of -1, and the client ends there
(`fws_client_call_oversized`), between two turns of the protocol.

`status` and `value` record what became of a call at the server. No action
reads them.

### Connection

One direction of one connection. `flight` holds what each send() took and what
the network still has, `stream` what has arrived. With `Torn` the network
delivers any non-empty piece of the oldest send(), without it all of that send()
at once. recv() returns at most what it was asked for and at most what has
arrived; the tail of a size that came in short is uninitialised memory, any byte
of `Junk`. Messages keep their bytes, and sizes are four bytes in network order,
as the properties are about one being taken for the other. A blocking send() in
a process without signal handlers takes all its bytes, so it is not cut.

### Messages and Exchange

A message is its bytes and its position; a field is a kind (a C type, `string`, or
`stream` for `message_append_stream`) and a value, a number or bytes that are copied as
they are. `Written` is what all typed writes share, `message_read` what the reads do. A
read behind the end gives `Garbage`, as does what a write leaves unwritten.
`LongOctets` stands for the four octets of a `uint32_t` (TLC's own numbers have 32 bits
with the sign) and `LongIsWide` says whether a `long` has more.

In `Exchange` the sending application writes fields, clears, sends, writes on and
sends again; the receiving one gets what `connection_recv` returns and reads
the fields in the order in which it expects them, or stops in between. `fields` and
`letters` remember what was written. Streams are appended behind all other
fields only (the guard of `write`): a typed write after one would overwrite the head of the
message, which is what the code does and nothing calls.

### Vector

Cells of an array, indexed from 0, each an element or `Junk`. `Moved` is
memmove() over cells (what lies outside the array is `Junk` when read and is not
written), and `overrun` says whether the last call moved across the end.
`call` and `out` are the interface to `List`: the last call and the elements it
handed out. Left out: `vector_copy`, `vector_qsort` and `vector_cmp_all`, which
nothing in the sources calls, `vector_dispose`, after which there is no vector,
and an allocation that fails.

### Codec

`Codec` is the only one of these with variables: the value (`case`), who encodes it
(`by`), its encoding (`sent`), how much of it has come (`got`) and was consumed
(`used`), the structure (`st`) and what the decoder returned (`code`). `SendByLibrary`
encodes with the library, `SendByPeer` takes any encoding the standard permits, and
`Receive` delivers up to `Piece` more octets, or all, followed by those of whatever
comes next, and calls the decoder as `fws.c` and the comment in ber_decoder.h do.
The codec is a parameter: the constants `Encode`, `Decode`, `Check`,
`LegalForms`, `CanonicalForms` and `Valid` are operators, which MCCodec.cfg binds to those of `Syntaxes`. (TLC's
coverage does not follow an operator it gets that way and says so once for every
expression; the totals of the three actions are complete.)

Everything else is a function from octets and a structure to a structure, a count and a
code, and keeps the names of the C functions. `m = [b, at, st]` in `Ber` and `Xer` is
what a C function has at hand: the buffer, how far it got, the structure with its
context; `ADVANCE`, `LEFT`, `RETURN` and the like are the macros of the code. One
operator per phase calls the next one where the C code falls through or jumps, and
returns where it returns. What C has as locals that do not survive a return, such
as `limit_len` of `ber_check_tags`, are operator parameters here and are lost the
same way. The integer widths are `TagBits`, `LenOctets`, `LongOctets` and `ArcOctets`.

*The other side of the comparison* is written from the standards, not from the code:
`Sender` and `XmlSender` build every encoding that X.690, X.691 and X.693 allow within
a style (which lengths are indefinite, how strings are cut, how tags are
written, where blanks and comments stand, in which order members come). `Values`
turns an abstract value, say `<<-129, FALSE, Nil>>`, into a structure and back.

*Abstracted.* In XER a name is one symbol (so is `sender`, an enumerator, or a control
character element), while every other character is itself; a name is therefore
never cut in its middle. The stack of a string in segments is a sequence. Buffers
are sequences and grow as `APPEND` rounds up, which is kept, since whether a buffer was
allocated steers the decoder of BIT STRING. Left out: the limit on the stack,
the ASN_DEBUG texts, printing and freeing.

*Strings and times.* The restricted strings share the codecs of OCTET STRING; what they
add is an alphabet, checked by `asn_check_constraints` (an application calls it, the codecs
do not), and for BMPString and UniversalString a conversion from and to UTF-8 in
XER. A time is kept as it was written: `asn_GT2time_frac` understands it, and DER of
GeneralizedTime writes its canonical form. The calendar of timegm() and gmtime_r() is in
`Times`, with `LocalZone` for times that name no zone. `Read` gives a time in its canonical
form, and `Spellings` says in which others one may be sent. `IsValue` in `XmlSender`
says, from X.680, what belongs to a type.

*Left to chance.* The PER encoders of strings and of BOOLEAN never set `er.encoded`
(OCTET_STRING.c:1302, BOOLEAN.c:270): `SendByLibrary` chooses whether the value that
happens to be there is -1.


## 3. What the runs show

| run | configuration | bounds | shows |
|---|---|---|---|
| `server_faults` | MCServerFaults.cfg | 4 descriptors, 3 blocks, backlog 2, 5 connections open or waiting, every failure | the records agree, entries own their descriptor and block, `client_conn` is listed, a snapshot is useful, only the current connection is dropped |
| `server_serves` | MCServer.cfg | 4 descriptors, 3 connections, no failure, fairness | what is served was accepted or found active in this round; newcomers are accepted; the first entry is heard |
| `server_stale` | MCServerStale.cfg | 3 descriptors for 3 connections | **violated**: after a failed accept() the loop receives from the connection of an earlier round |
| `fws_calls` | MCFws.cfg | 2 clients, any number of calls, numbered 1 and 2 in turn, all outcomes and failures, crashes anywhere | `Fws` implements `Server` and `Rpc`; the sides take turns; a response goes to the one who asked; own results; served by name |
| `fws_returns` | MCFwsLive.cfg | 2 clients, any number of calls, SIGPIPE possible, fairness | calls return and dead peers are dropped: those of the first in the list always, those of any client if the others begin no more calls at some time |
| `fws_silent` | MCFwsSilent.cfg | 2 clients, any number of calls, fairness | **violated**: a callback with RET_OK and no data makes its client wait for ever |
| `fws_sigpipe` | MCFwsSigpipe.cfg | 2 clients, any number of calls | **violated**: a client that goes away before its response ends the server |
| `connection_frames` | MCExchange.cfg | a field of each of 11 kinds, 2 fields in all messages, 3 sends, 3 octets for a long, pieces arrive together, fairness | framing never slips; `Connection` implements `Channel`; all arrives; the fields that are read are those that were written |
| `connection_torn` | MCConnectionTorn.cfg | 2 messages, pieces arrive apart | **violated**: a message is returned of which a part was never received |
| `vector_list` | MCVector.cfg | 3 cells that grow to 6, 2 elements | `Vector` implements `List`; no call but `vector_remove` crosses the end |
| `asn1_transfer` | MCCodec.cfg | 97 values of 36 types, 2 octets for a long or an arc, 3 for a length, pieces of 1 to 3 octets or all | values arrive as sent, none is refused, decoders take their own octets only, encoders write the canonical form and as much as they say, constraint checks hold exactly for values of the type |
| `vector_remove` | MCVectorRemove.cfg | 2 cells that grow to 4 | **violated**: `vector_remove` crosses the end |

Why the bounds suffice:

- *Server.* Three connections are the least with a first, a middle and a last
  entry in the list. Four descriptors with five possible connections make the
  process run out of them; three blocks for three entries force reuse as soon as
  one is freed. A backlog of two has one newcomer behind another. `server_serves`
  leaves the symmetry of the blocks out, as it checks liveness.
- *Fws.* Two clients are the least where one can wait while the other is served
  and where a descriptor goes from one to the other; two numbers are the least
  that tell a call from the one before, whose answer could be taken for its own. The number of
  calls has no bound, so that one client can keep the other waiting. `fws_returns` has one
  number, as its properties look at none. Three descriptors
  are enough for both and the listening socket. The function list has a name and
  a longer one that begins with it, and clients ask for the first and for one
  that is not there.
- *Connection and Exchange.* Two fields in one message show that the second write goes
  where the first one ended, two messages of one field each that nothing is left of the
  one before; the third send sends a message again, or after a write in between. That gives
  one message in the past, one being received and one under way. Numbers are negative, or
  use all their octets with different values, so that sign and order show; one string is
  empty. Messages have 1 to 16 bytes, some shorter and some longer than a size. For
  `connection_torn`, values 1 and 2 make a message with the bytes of a plausible size.
- *Vector.* Three cells and six give a full array before and after growing;
  shifting by one is visible from two different elements on.

- *Codec.* The values put each type at its edges: integers at 127/128, -128/-129, -120 and
  the ends of a `long` (two octets here); arcs at 127, 128, 16384 and 65535; strings of
  126 octets, whose frame is the first to need a long length, and of 130 octets in PER;
  an ANY with a value in it; bit strings with 3, 5 and 7 unused bits; a tag of two
  octets; SET members out of order around a CHOICE without a tag; extensions, known
  and unknown, in definite and indefinite lengths; ranges that are empty, extended or of
  a number of bits that crosses an octet; text with entities, references, control
  characters, UTF-8 of two and three octets and an empty string. Pieces of one
  octet stop a decoder at every position; larger ones and the rest at once let it
  cross several phases in one call. Each encoding is followed by two octets that
  begin another value. Depth three (envelope, choice, body, string) has every combination
  of a constructed type within another that keeps a context of its own. Restricted
  strings have the first and the last characters of their alphabets, those just
  outside, and UTF-8 that is cut off, too long or no UTF-8 at all. The times are a leap day with
  a fraction, the first second of 2000 and the last minute of 1999, with offsets that cross
  the day, the month and the year, without minutes or seconds, and in local time; the texts that are
  no times have a thirteenth month, an hour 24, half an offset and half a minute.

`CHECK_DEADLOCK FALSE` is there because the systems really stop: a server that
was told to, or that crashed or was killed; clients that have left; a connection
whose two ends are closed; a value that has arrived. The vector is bounded by `MaxAlloc`, but its deadlock
check would show nothing, as there is always a call to make.

### What the violated runs say about the code

1. `server_stale` (server.c:162, main.c:68). `fws_server_accept` fails and leaves
   `client_conn` as it was; the sample serves it nevertheless, and recv() waits
   on a connection that nothing arrived on. The invariants of `server_faults`
   show the limit of the damage: the stale connection is still an entry of the
   list, so nobody else's is closed.
2. `fws_silent` (fws.c:175). Neither branch fills the envelope, encoding fails,
   nothing is sent.
3. `fws_sigpipe` (connection.c:103, 120). "NULL if socket is closed or error
   occured" does not get to be decided: the process is gone.
4. `connection_torn` (connection.c:71). One recv() for a message; the rest of it
   is then read as a size.
5. `vector_remove` (vector.c:142). It moves `num_elems - index + 1` cells where
   `num_elems - index - 1` follow, which crosses the end when at most one cell is
   free. `ImplementsList` shows that the list itself is never wrong because of it.

More were found while modelling and have no run; those of the codecs are in
section 6. A function list with a
longer name *before* its own prefix serves the prefix with the wrong callback
(fws.c:136, `ServedByItsName` fails with the list reversed). A message of no
bytes is taken for the end of the connection (connection.c:71); `fws.c` sends
none, since every envelope has bytes. `vector_insert_at` with an index past the
end counts an element that was not written (vector.c:70); nothing calls it so.


## 4. Fairness

- `Server.FairSpec`: weak fairness of the loop as a whole, since the process runs
  and the sample's `while(1)` does not end (`server_destroy` is not part of it),
  and of `arrive(fd)`, that a peer that connected eventually sends something or
  goes away. Without the latter `recv()` on a newcomer blocks the server for ever,
  which is what the code does.
- `Fws.FairSpec`: the same loop; the steps of a call that has begun, as the
  client's code runs through them without waiting for anything but recv(); and
  that a connected client goes on to its next call or leaves. The last one is
  about users of the library, and `CallsReturn` needs it: a client that connects
  and stays silent keeps every other one waiting (fws.c:102). `CallsReturn` and
  `DeadPeersAreDropped` except a server that was told to stop.
- `Connection.FairSpec`, and `ExchangeSpec` in the same words: `connection_send` goes on
  after the size, what TCP has taken arrives unless one end is gone, and the receiving end
  calls `connection_recv` again. Nobody has to write, to send or to read a field.

No property relies on fairness of a failure or of a crash. What starves under
these assumptions is not promised: `FirstIsHeard` is about the first entry only,
and about executions in which newcomers stop coming, because `server_accept` looks
at newcomers first and at the list from its start. `CallsReturn` and `DeadPeersAreDropped`
make the same restriction: they promise something to the client that is first in the
list, however often the others call, and to any client only if the others at some time
begin no more calls (`OthersPause`). Without that condition TLC shows a client that waits for
ever, or a dead one that is never dropped, behind one that calls again each time before the
server is back in select(). Newcomers stop by themselves in `Fws`, where
finitely many clients connect once each.


## 5. What is proved

TLAPS checks the following for all values of the constants, under the
assumptions named in the modules (`FdAssumption`, `InfoAssumption` and
`BoundAssumption` in `Server`; `JunkAssumption`, `SizeAssumption` and
`PastAssumption` in `Vector`; `WidthsAssumption` in `Tlv` and `PrimAssumption` in
`Prim`, the widths of the C types; those at the head of `Connection` and of `Fws`),
which TLC evaluates in the runs of these modules. Where a theorem needs more, it says so
as its hypothesis.

**Server_proofs.** `TypeCorrect`, `TablesAlwaysAgree`, `EntriesAlwaysOwnTheirs`,
`CurrentIsAlwaysListed`, `SnapshotIsAlwaysUseful` and
`OnlyTheCurrentIsEverDropped`, for any set of descriptors and blocks, any backlog
and any set of failing calls. The inductive invariant `IInv` is the conjunction
of the five state invariants and two more parts. `Idle` says that outside the
loop the list is empty, and that before it nothing is open and nobody current:
without it the step that binds would not establish the others. `SnapshotIsFresh`
says that a snapshot that shows the listening socket has a newcomer behind it,
which keeps the backlog from falling below zero. The invariants need each other:
that closing
`client_conn` keeps `TablesAgree` needs `CurrentIsListed` (else the descriptor
would leave the set and not the list) and `EntriesOwnTheirs` (else the first
match would be another entry), and `CurrentIsListed` is kept by closing
because the copy is emptied at the same time. There is one lemma per action; the
two that change the list rest on a lemma about `RemoveAt` (`vector_remove`).

`AcceptedIsAlwaysServed` is `ServesWhatWasAccepted`, which is false where a call
fails (run `server_stale`), under `CallsSucceed`: neither select() nor accept()
fails of itself, and there is a descriptor for the listening socket besides those
of `MaxConns` connections, which the configuration of `server_serves` satisfies.
The step that matters is accept() with no descriptor left. That it cannot happen takes
`WithinBound` (entries and backlog together stay within `MaxConns`; also
inductive) and a count: `TablesAgree` maps the entries and the listening socket
onto the open descriptors, so there are fewer of these than of descriptors.

**Vector_proofs.** `TypeCorrect` (the array has room for what is in use),
`OnlyRemoveEverOverruns`, and `ImplementsTheList`, the refinement `Vector` =>
`List`, for any elements and any initial size. The type invariant is inductive by
itself. For each call there is a lemma that gives, from the cells, the list
before and after it (`PushAppends`, `InsertAtInserts`, `ShiftTakesTheFirst`,
`RemoveDeletes`, ...); they rest on what `Moved` and `Realloc` do to a cell and
on what `InsertAt` and `RemoveAt` of the community modules do to an index, and are
put together by `AfterCall`: an array whose cells are those of a sequence *is*
that sequence. `ImplementsTheList` assumes `InsertPast = {}`; the other two hold
for any index.

**Connection_proofs.** `TypeCorrect`, `FramesAlwaysAligned`, `MessagesAlwaysWhole` and
`ImplementsTheChannel` (the refinement `Connection` => `Channel`), for any messages,
any number of sends and any contents of uninitialised memory. The hypothesis
`ArrivesWhole` is what connection.c takes for granted: `Torn` is FALSE (the bytes of a
send() arrive together; otherwise `WholeMessages` is false, run
`connection_torn`), no message is empty, and each is shorter than 2^32 bytes, so that
its size fits into `network_size`. The configuration of `connection_frames` satisfies it.

`FramesAligned` says nothing about what arrives later, so it is not inductive. The
strengthening `UnitsInOrder` numbers the send()s, two per message, and says that
the bytes in `stream` can be cut into the units that follow the `Taken` ones, up
to some last one, and that `flight` holds the units after it, all that was sent. The
places of the cuts are a function whose existence the invariant states, since a
stream that is a concatenation would have to be taken apart by induction at every step. A step
of the network adds a cut at the end, a recv() takes one off at the front.
`EndsKnow` says which message each end is busy with, and `NeverAhead` and
`ReceivedAsSent` relate what came out to what went in. That
`Ntohl` undoes `Htonl` up to 2^32 is the lemma on which the turn from size to bytes rests.

**Messages_proofs.** `ReadUndoesWrite`: if the bytes of a field (`Wire`) lie at the position of a
message, `message_read` gives its value (`Received`: of a long that is wider than what
is sent, what is left of it) and moves on by as many bytes, whatever lies before and
behind. Its counterpart `WriteAppends` says that `message_write`, at the end of a message,
appends just these bytes, although it enlarges the buffer first and writes to `position`
then. Both are for `LongOctets` from 1 to 4 and for values that their C type holds
(`Fits`). They rest on what the octets of a number add up to (`NetworkOrderOctets`), which is
worked out for one, two, three and four octets, as `message.c` has no others.

**Exchange_proofs.** `FieldsAlwaysArrive` is `FieldsArrive` for any fields and any messages made
of them; `UsesTheConnection` says that `Exchange` implements `Connection`, and
`ExchangeIsAChannel`, with `ImplementsTheChannel`, that it is a channel too. The
hypotheses are `ArrivesWhole` and `FieldsFit`: fields hold what their types can, and what is
composed of at most `MaxFields` of them may be sent (`Message`). The configuration of
`connection_frames` satisfies both. `FieldsArrive` looks only at the message received last; the
invariant `ExchangeInv` follows the fields from the start: the message being composed
consists of the fields written (`OutgoingComposed`), so does every message sent, with
the history `letters` (`SentComposed`), and the fields read are the first ones of the
message received last, with `position` where the next one begins (`ReadInOrder`). That
the message received is the one sent comes from `IInv` of `Connection_proofs`, which holds
here because every step is one of the connection (`ConnectionSteps`). A typed write goes to
the end because a stream, the only thing that leaves `position` elsewhere, is not empty
and comes last. As in `UnitsInOrder`, where the fields end is a function whose
existence `Composed` states.

**Octets_proofs** is about what every encoding in BER and DER begins with, and about the
contents of INTEGER and of OBJECT IDENTIFIER, for words, arcs and octets of any number.

- *Headers.* `HeaderIsFetched`: the tag and the length that `der_write_TL` writes are as
  long as `TLSize` says, and `ber_fetch_tag`, the constructed bit and `ber_fetch_length`
  find them again in front of any contents. (`LengthIsFetched` is the half about lengths.)
  The hypotheses `IsTag` and `IsLength` are what fits the word of a tag, and
  a length that 1024 can be added to, which is what the decoder tests.
- *Any octets*, whoever wrote them. `LengthStaysDecided` and `TagStaysDecided`: a decoder
  that is called again with more octets finds the tag and the length that it found before,
  never takes an octet that is not there, and asks for more only if those it has do not
  decide. `LengthIsShortest` and `TagIsShortest`: what is found fits (an overrun of the word
  is refused, not wrapped round), and has no longer way when it is written again.
- *INTEGER.* `IntegerIsRead`: `asn_INTEGER2long` gives the number of the octets if a
  long holds it and fails if not, with any number of superfluous octets in front.
  `IntegerArrives`: a long comes back from `asn_long2INTEGER`, in the fewest octets.
- *Arcs.* `ArcArrives`: an arc comes back from `set_single_arc`, in groups of which only the
  last lacks the high bit. It also says exactly when the first group is an empty one
  (see section 6, 6). `ArcFits`: from any octets `get_single_arc` gives their number or
  fails, and what it gives fits an arc.
- *Lists of arcs.* `RelativeOidArrives`: any number of arcs comes back from the set and get
  functions of RELATIVE-OID. `ObjectIdentifierArrives`: the same of OBJECT IDENTIFIER, whose
  first two arcs go in one number. Its hypotheses are the limits of the code: one of
  three roots, under the first two a second arc below 39, a combined number that fits
  an arc, and arcs of more than one octet.
  The loop that cuts the octets at those without the high bit
  (`ArcLoop`) stays the same for the octets it has seen (`ArcLoopStays`), so one arc more
  at the end is one arc more in the result (`ArcAppended`, `ArcsOfFlattened`).

These rest on an induction. The library's theorems about it take an operator, which the provers
cannot instantiate; but that < is well-founded on the naturals is a fact about sets
(`WFMin`), and gives each set of them a least element (`LeastNatural`) and hence
`Induction` for a *set* of naturals. With it, `FunctionExists` and `FunctionsAgree` say
that the function that a recursive definition chooses does what the definition says,
whatever set its values are in. `ArcLoop` and `FlattenSeq` are two such functions, and
`Shifts` has the other two, a shift to the right and an accumulator; their laws (`ShiftRightTwice`, `ShiftRightMonotonic`, `DigitsMakeNumber`,
`NumberLosesDigits`) are all that the rest knows of them. That an overrun is recognised
(`LongLengthIsExact`, `LongTagIsExact`) is the core of the first two groups: the code looks at
the high bits of the accumulator before every shift, and nothing is lost exactly if none
of them was ever set. For INTEGER it is `SignedFits` and `CanonicalIsSame`: octets that
repeat the sign do not change the number, and without them there is one octet string for each.

**Fws_proofs** has the six invariants that `fws_calls` checks, for any finite number of
clients, any calls, names, outcomes of callbacks, odd envelopes, failures and
descriptors: `TypeCorrect`, `EveryPeerIsAlwaysListed`, `TurnsAlwaysAlternate`,
`AnswersAlwaysGoToWhoAsked`, `RepliesAreAlwaysOwn` and `ServedAlwaysByItsName`. **Fws_refinement** has the
two refinements, `FwsImplementsServer` and `FwsImplementsRpc`. The first five and the
refinements follow from one inductive invariant `IInv`:

- `SP!IInv`, the inductive invariant of `Server_proofs` for the server as `Fws` sees it. It
  need not be proved again: `StepsAreServers` shows that each step of `Fws` is a step of
  `Server` or leaves its variables alone, and the lemma of `Server_proofs` does the rest.
  The step lemma is also the core of `FwsImplementsServer`. It needs the
  tables: a client may connect only while entries and backlog leave room
  (`RoomForOne`, by counting clients), and a send of a client makes a descriptor
  readable that the server has open (`Descriptors`).
- `EveryPeerIsListed`, with `Links` (a connection is in the backlog, then
  accepted, then cut, and nobody waits twice) and `Descriptors` (accepted connections are
  open descriptors other than the listening one).
- `Consistent(c)` for every client: `Turn` lists, for each place where the client stands,
  which contents the two streams can have and where the server stands with it;
  `Open` says that the call whose request is on its way has neither been run nor
  returned; `Own` is `OwnReply` for that client.
- `ResponseIsDue`: what is being sent answers the present call of the peer.

`TurnsAlternate` by itself is not inductive: it knows the heads of the streams, and a
step uncovers what is behind them. `Turn` is needed for `Own`, as a client that
receives must find the answer to its own call there; `Own` and `Open` are needed for `Rpc`,
where a run is allowed only for a call that is pending and a return only with
the value of its run. There is a lemma per step for each of three groups of
conjuncts, `OwnTypes`, `Tables` and `Turns`; the steps that are nobody's turn share
`QuietTurns` and `ClientFrame`.

`ServedAlwaysByItsName` has the hypothesis `NamesComeFirst`: in the list of functions a name
comes before those that begin with it, and a name that is asked for and not listed is the
beginning of none that is. Without it memcmp() over the shorter length finds another
function. The list and the names of `MCFws` satisfy it.
`FwsImplementsRpc` maps the state of a client to the phase of its call, and
has one step of `Rpc` per step of `Fws` that runs, refuses or returns; all others stutter.

The invariant was checked with TLC, on the bounds of `fws_calls`, before it was proved.

**Only model-checked.** All liveness (`NewcomersAreAccepted`, `FirstIsHeard`,
`CallsReturn`, `DeadPeersAreDropped`, `EverythingArrives`), as fairness needs
ENABLED, which is beyond the prover. The properties of `Codec`: the decoders of nested
types are recursive operators, and so are the models' values, so `Octets_proofs` stops at
the octets that they are made of, without the chains of tags. Of the properties that the code
violates, `AcceptedIsAlwaysServed` and `MessagesAlwaysWhole` say under which hypotheses
those of `server_stale` and `connection_torn` hold; the others have no theorem.


## 6. What is not modelled

- **message.c**: `message_destroy` and `message_free_string` (memory only), and typed
  writes behind `message_append_stream` or `message_set_stream`, which overwrite the head.
- **Decoding in part** (fws.c:119 only takes `consumed <= 0` for an error), and **a
  response that does not decode** (fws.c:297 reads `env_resp` regardless). `Codec` shows
  what the decoder answers to a part, `WMORE`, and that none of these happens between two
  ends that use the library; `Fws` sends whole envelopes.
- **REAL and NativeReal**: floating-point arithmetic, which TLC has not. **Printing and
  freeing** of structures.
- **Times** written in another zone than GMT (`force_gmt` = 0), which no codec asks for.
- **PER**: fragments of 16384 units and more, additions behind an extension marker.
  SET has no PER codec in the code, and SET OF no encoder.

What the code gets wrong in the codecs, as far as the models' values stay clear of it
(the ones that matter most are hazards in `PROJECT.json`):

1. A chain of several tags with *indefinite* lengths that is cut between two tags
   (ber_decoder.c:74): the peer writes chains in definite lengths.
2. VisibleString and UTF8String *in segments* (OCTET_STRING.c:345) are refused, because
   the segments are expected to have the string's own tag: the peer writes them whole.
3. Unknown elements *in front of optional ones* (constr_SEQUENCE.c:349): they come last.
4. An unknown alternative of an extensible CHOICE in BER (constr_CHOICE.c:222), and in XER
   an unknown element whose insides are named like the element around it
   (constr_SEQUENCE.c:722).
5. PER: encodings beyond the scratch buffer (`TmpSpace`) and fields of more than 31 bits
   (per_support.c:211, 253), numbers not small (178), the element behind the root of an extensible
   SEQUENCE and its DEFAULTs (constr_SEQUENCE.c:1076, 1130), CHOICE in canonical order
   (constr_CHOICE.c:933: sent by the peer only), negative bounds of half-open ranges
   (INTEGER.c:704: likewise), an extended ENUMERATED (NativeEnumerated.c:180: likewise).
6. Arcs: 39 is refused under the roots 0 and 1 (OBJECT_IDENTIFIER.c:553). "If more
   significant bytes are present, make them > 255 quick" (528) is undone by the assignments
   at 533, so the tests of the first two arcs see them modulo 256 when they are wider than
   int, as those of the XER decoder are (274): 256.0 is written as 0.0, and 0.256 is read
   back as 2.176. Under the root 2 a second arc that is too wide once 80 is added to it is
   written, but not read back (98, which calls that a possible bug). An arc of seven or fourteen
   significant octets whose seven highest bits are zero begins with an empty group, 0x80
   (OBJECT_IDENTIFIER.c:465), which X.690 8.19.2 forbids. No run can show the last, as TLC's integers
   have 32 bits; `ArcArrives` says so of arcs of any size, and that they still come back.
7. Elements with a tag of their own in SET OF and SEQUENCE OF (constr_SET_OF.c:209).
8. XER: lists of NULL are counted wrongly, and the canonical SET OF of them trips its
   assertion (constr_SEQUENCE_OF.c:121): sent by the peer only. A comment between the two
   digits of an octet, inside a number or before the text of an OBJECT IDENTIFIER;
   `<nul></nul>` for `<nul/>`; numbers as hexadecimal octets that begin with a letter
   (INTEGER.c:470).
9. Times: 30 February and 99 minutes are times (GeneralizedTime.c:502), one second before
   1970 is none (530), whatever follows a Z is not looked at (393), and fractions of an hour
   or a minute are refused. CANONICAL-XER of a GeneralizedTime writes it as it came
   (248), of a UTCTime always fails (UTCTime.c:90). UTCTime in DER is written as
   it came, and its years 50 to 59 are those of the next century (UTCTime.c:147). An
   offset of half an hour would be written in seconds (GeneralizedTime.c:659).
10. BMPString and UniversalString in XER: `<` and `&` are written as they are, which no
   reader takes for text (BMPString.c:62); text that is no UTF-8 becomes an empty string
   (100); the terminator is written behind the end of its buffer (134).
11. A BIT STRING of one to seven bits is refused by its check (BIT_STRING.c:53), although it is
   one: `IsValue` says so, `ChecksAreRight` would be violated, and no such value is sent.

The rest:

- Allocation failures: the code does not test for them anywhere.
- A short send(), and EINTR: there are no signal handlers, and sockets block.
- Winsock: `platform.h` maps names; the models are of the POSIX side.
- Two contexts in one process, a second `fws_done` or any use after it: the sample
  does neither.


## 7. Plan

In this order, the next modules and theorems are:

1. *Proofs about chains.* The tags that `der_write_tags` writes one after the other and
   `ber_check_tags` takes off again, on top of `Octets_proofs`.
2. *Fws over Connection.* `Fws` takes its streams of whole frames for granted where
   `Channel` provides them; a theorem would join the two.
3. *Codec, larger.* REAL, if a form is found that TLC evaluates; values of depth four and pieces of up to five octets; extension
   additions in PER once there is code for them.


## 8. Running it

    tlc -workers 2 -config MCServerFaults.cfg MCServer
    tlc -workers 2 -config MCServer.cfg MCServer
    tlc -workers 2 -config MCFws.cfg MCFws
    tlc -workers 2 -config MCFwsLive.cfg MCFws
    tlc -workers 2 -config MCExchange.cfg MCExchange
    tlc -workers 2 -config MCVector.cfg MCVector
    tlc -workers 2 -config MCCodec.cfg MCCodec
    tlapm Server_proofs.tla
    tlapm Vector_proofs.tla
    tlapm Connection_proofs.tla
    tlapm Messages_proofs.tla
    tlapm Exchange_proofs.tla
    tlapm Octets_proofs.tla
    tlapm Fws_proofs.tla
    tlapm Fws_refinement.tla

The longest run takes two minutes. `Fws_proofs` and `Octets_proofs` take four minutes each,
`Connection_proofs` one and a half, the others half a minute each. `PROJECT.json`
lists the components, the runs, the source lines of every definition, for every
property a mutation of the code that violates it, and the hazards of the code
with the properties that watch them.
