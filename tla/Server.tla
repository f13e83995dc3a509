------------------------------- MODULE Server -------------------------------
(***************************************************************************)
(* All connections of a server, from accept to the end of the play phase:  *)
(* the accept loop and the task of each connection (src/server.rs), the    *)
(* handshake and the status exchange (src/phase.rs, src/phase/status.rs)   *)
(* packet by packet, the login (src/phase/login.rs) with its call of the   *)
(* session server, bootstrap_client and keep_alive (src/client.rs).        *)
(*                                                                         *)
(* The tasks share two counters.  client_count is raised by the task of    *)
(* the connection and lowered by the read task that keep_alive spawns      *)
(* (module Session has the life of that task; here it just runs until it   *)
(* stops).  entity_count_locker hands out entity ids.                      *)
(*                                                                         *)
(* A task ends early in four ways: it reads something it does not expect,  *)
(* it reads the end of the stream, a write fails, or what it waits for     *)
(* elsewhere fails (and in a fifth: with compression, every bootstrap      *)
(* panics).  Nothing that was counted is counted back.                     *)
(*                                                                         *)
(* The clients, the session server and the user's status builder and       *)
(* acceptor are the environment.  leaked is history.                       *)
(***************************************************************************)
EXTENDS Integers, FiniteSets

CONSTANTS
    Conns,            \* bound: connections that are ever made
    proxy_protocol    \* the configuration asks for a proxy header

ASSUME ServerAssumption ==
    /\ IsFiniteSet(Conns)
    /\ proxy_protocol \in BOOLEAN

VARIABLES
    listening,            \* the accept loop runs
    compresses,           \* a compression_threshold is configured
    stage,                \* connection -> where its task is
    reading,              \* connections whose read task runs
    client_count,
    entity_count_locker,
    entity_id,            \* connection -> its player's id, or NoId
    hungup,               \* connections from which nothing more can be read
    leaked                \* history: counted, and ended before keep_alive()

server == <<listening, compresses>>
counters == <<client_count, entity_count_locker, entity_id>>
vars == <<server, stage, reading, counters, hungup, leaked>>

NoId == -1

\* The stages at which a task waits for its client to send something, those at
\* which it writes (the status response, the pong, the login's Hello, and the
\* end of the login) ...
Listens == {"proxy", "handshake", "request", "ping", "hello", "key"}
Answers == {"response", "pong", "challenge", "bootstrap"}

\* ... those at which it waits for somebody else (the status builder, the
\* session server, or the acceptor, before keep_alive and after it) ...
Elsewhere == {"building", "auth", "acceptor", "playing"}

\* ... and all of them.  A task is "named" between counting the player and
\* taking an id for it.
Stages == {"none", "named", "gone"} \cup Listens \cup Answers \cup Elsewhere

TypeOK ==
    /\ listening \in BOOLEAN /\ compresses \in BOOLEAN
    /\ stage \in [Conns -> Stages]
    /\ reading \subseteq Conns
    /\ client_count \in Nat
    /\ entity_count_locker \in Nat
    /\ entity_id \in [Conns -> Nat \cup {NoId}]
    /\ hungup \subseteq Conns
    /\ leaked \subseteq Conns

Init ==
    /\ listening = TRUE /\ compresses \in BOOLEAN
    /\ stage = [c \in Conns |-> "none"]
    /\ reading = {}
    /\ client_count = 0 /\ entity_count_locker = 0
    /\ entity_id = [c \in Conns |-> NoId]
    /\ hungup = {} /\ leaked = {}

\* The task of c goes on to another stage.
Goto(c, to) == stage' = [stage EXCEPT ![c] = to]

-----------------------------------------------------------------------------
(* The accept loop.                                                        *)

\* A connection is accepted; with the proxy protocol its header comes first.
Accept(c) ==
    /\ listening /\ stage[c] = "none"
    /\ Goto(c, IF proxy_protocol THEN "proxy" ELSE "handshake")
    /\ UNCHANGED <<server, reading, counters, hungup, leaked>>

\* An error of accept ends the loop, and no task.
AcceptError ==
    /\ listening
    /\ listening' = FALSE
    /\ UNCHANGED <<compresses, stage, reading, counters, hungup, leaked>>

-----------------------------------------------------------------------------
(* The task of a connection.                                               *)

\* What a client may send next, and where that leads: the proxy header, the
\* intention, the two packets of a status and the two of the login.
Received ==
    [proxy |-> {"handshake"}, handshake |-> {"request", "hello"},
     request |-> {"building"}, ping |-> {"pong"},
     hello |-> {"challenge"}, key |-> {"auth"}]

Receive(c) ==
    /\ c \notin hungup /\ stage[c] \in Listens
    /\ \E to \in Received[stage[c]] : Goto(c, to)
    /\ UNCHANGED <<server, reading, counters, hungup, leaked>>

\* A header that is refused, a packet that does not decode or that is not the
\* next one, an outdated client or a failed challenge: the client may be told.
Reject(c) ==
    /\ c \notin hungup /\ stage[c] \in Listens
    /\ Goto(c, "gone")
    /\ UNCHANGED <<server, reading, counters, hungup, leaked>>

\* A read finds the end of the stream, or an error of the socket.
EndOfStream(c) ==
    /\ c \in hungup /\ stage[c] \in Listens
    /\ Goto(c, "gone")
    /\ UNCHANGED <<server, reading, counters, hungup, leaked>>

\* What comes after a write; the end of a status is Ok(None).  A write may
\* succeed even if the client has gone.
Written ==
    [response |-> "ping", pong |-> "gone", challenge |-> "key", bootstrap |-> "acceptor"]

\* The last is complete_login: compress_and_complete_login never gets there.
Write(c) ==
    /\ stage[c] \in Answers
    /\ stage[c] = "bootstrap" => ~compresses
    /\ Goto(c, Written[stage[c]])
    /\ UNCHANGED <<server, reading, counters, hungup, leaked>>

\* A task that was counted ends, and nothing counts it back.
Leak(c) ==
    /\ leaked' = leaked \cup {c}
    /\ Goto(c, "gone")
    /\ UNCHANGED <<server, reading, counters, hungup>>

\* The socket is closed, or the packet cannot be encoded.
WriteFails(c) ==
    /\ stage[c] \in Answers
    /\ \/ stage[c] = "bootstrap" /\ Leak(c)
       \/ /\ stage[c] # "bootstrap"
          /\ Goto(c, "gone")
          /\ UNCHANGED <<server, reading, counters, hungup, leaked>>

\* With compression, bootstrap_client panics: the first compressed packet is
\* a todo!().
BootstrapPanics(c) ==
    /\ stage[c] = "bootstrap" /\ compresses
    /\ Leak(c)

\* The user's status builder, which may read client_count, is done or fails.
Built(c) ==
    /\ stage[c] = "building"
    /\ \E to \in {"response", "gone"} : Goto(c, to)
    /\ UNCHANGED <<server, reading, counters, hungup, leaked>>

\* The session server confirms the player, and the player is counted.
Authenticated(c) ==
    /\ stage[c] = "auth"
    /\ client_count' = client_count + 1
    /\ Goto(c, "named")
    /\ UNCHANGED <<server, reading, entity_count_locker, entity_id, hungup, leaked>>

\* The session server, or the comparison with its answer, refuses the player,
\* or its secret is no key.
Refused(c) ==
    /\ stage[c] = "auth"
    /\ Goto(c, "gone")
    /\ UNCHANGED <<server, reading, counters, hungup, leaked>>

TakeIdByCount(c) ==                                 \* faulty: the count for an id
    /\ stage[c] = "named"
    /\ entity_id' = [entity_id EXCEPT ![c] = client_count]
    /\ Goto(c, "bootstrap")
    /\ UNCHANGED <<server, reading, client_count, entity_count_locker, hungup, leaked>>

\* bootstrap_client is called with the next entity id.
TakeId(c) ==
    /\ stage[c] = "named"
    /\ entity_id' = [entity_id EXCEPT ![c] = entity_count_locker]
    /\ entity_count_locker' = entity_count_locker + 1
    /\ Goto(c, "bootstrap")
    /\ UNCHANGED <<server, reading, client_count, hungup, leaked>>

-----------------------------------------------------------------------------
(* The acceptor, and the read task of the play phase.                      *)

\* send_client_login, if the acceptor calls it, and keep_alive.
KeepAlive(c) ==
    /\ stage[c] = "acceptor"
    /\ reading' = reading \cup {c}
    /\ Goto(c, "playing")
    /\ UNCHANGED <<server, counters, hungup, leaked>>

\* The acceptor ends without having called keep_alive.
AcceptorQuits(c) ==
    /\ stage[c] = "acceptor"
    /\ Leak(c)

\* The acceptor ends; its player may be with somebody else and go on.
AcceptorEnds(c) ==
    /\ stage[c] = "playing"
    /\ Goto(c, "gone")
    /\ UNCHANGED <<server, reading, counters, hungup, leaked>>

ReaderStopsCounted(c) ==                            \* faulty: the count is kept
    /\ c \in reading
    /\ reading' = reading \ {c}
    /\ UNCHANGED <<server, stage, counters, hungup, leaked>>

\* The read task leaves its loop (module Session says when).
ReaderStops(c) ==
    /\ c \in reading
    /\ reading' = reading \ {c}
    /\ client_count' = client_count - 1
    /\ UNCHANGED <<server, stage, entity_count_locker, entity_id, hungup, leaked>>

HangUp(c) ==
    /\ stage[c] # "none" /\ c \notin hungup
    /\ hungup' = hungup \cup {c}
    /\ UNCHANGED <<server, stage, reading, counters, leaked>>

-----------------------------------------------------------------------------
Next ==
    \/ AcceptError
    \/ \E c \in Conns :
          \/ Accept(c)
          \/ Receive(c) \/ Reject(c) \/ EndOfStream(c)
          \/ Write(c) \/ WriteFails(c) \/ BootstrapPanics(c) \/ Built(c)
          \/ Authenticated(c) \/ Refused(c) \/ TakeId(c)
          \/ KeepAlive(c) \/ AcceptorQuits(c) \/ AcceptorEnds(c)
          \/ ReaderStops(c) \/ HangUp(c)

Spec == Init /\ [][Next]_vars

-----------------------------------------------------------------------------
(* Properties.                                                             *)

\* Counted, and keep_alive() not called yet.
Entering == {c \in Conns : stage[c] \in {"named", "bootstrap", "acceptor"}}

\* The count is that of the players whose read task runs, of those on their
\* way into the play phase, and of those that ended on the way and that
\* nothing will ever take off the count again.
CountExact ==
    client_count = Cardinality(reading) + Cardinality(Entering) + Cardinality(leaked)

\* No two players have the same entity id, whatever order their tasks run in.
DistinctIds ==
    \A c, d \in Conns : (c # d /\ entity_id[c] # NoId) => entity_id[c] # entity_id[d]

\* None is counted twice.
Apart ==
    /\ reading \cap leaked = {}
    /\ \A c \in leaked : stage[c] = "gone"
    /\ \A c \in reading : stage[c] \in {"playing", "gone"}

\* An id that was handed out is below the next one, and is had since.
IdsBelow ==
    \A c \in Conns :
        /\ entity_id[c] < entity_count_locker
        /\ entity_id[c] # NoId => stage[c] \in {"bootstrap", "acceptor", "playing", "gone"}

\* The inductive invariant behind the invariants above.
ServerInv == TypeOK /\ CountExact /\ Apart /\ DistinctIds /\ IdsBelow
=============================================================================
