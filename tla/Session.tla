------------------------------ MODULE Session ------------------------------
(***************************************************************************)
(* One connection in the play phase, from the moment keep_alive() has      *)
(* spawned its tasks (src/client.rs) until both tasks are gone:            *)
(*                                                                         *)
(*   client --up--> read task --inbound--> owner of the ConnectedPlayer    *)
(*   client <-down-- write task <-outbound-- owner, timers, cloned writers *)
(*                                                                         *)
(* The read task answers a correct keep-alive by spawning a task that      *)
(* sleeps and then queues the next one (a timer here).  A channel dies     *)
(* when its receiver is dropped, and is drained when its last sender is.   *)
(* Tasks end when a channel or the socket tells them to; nothing aborts    *)
(* them.  The client and the owner of the player are the environment.      *)
(***************************************************************************)
EXTENDS Integers, Sequences

CONSTANTS
    SeqMod,      \* keep-alive numbers wrap here (two to the width of seq)
    Window,      \* bound: packets one direction of the socket holds
    MaxQueue,    \* bound: packets an (unbounded) channel holds in the model
    MaxClones    \* bound: live results of clone_writer

ASSUME SessionAssumption ==
    /\ SeqMod \in Nat /\ SeqMod > 1
    /\ Window \in Nat \ {0}
    /\ MaxQueue \in Nat \ {0}
    /\ MaxClones \in Nat

VARIABLES
    reader,       \* "reading", or why the read task broke out of its loop
    seq,          \* the read task's local: the keep-alive number it expects
    timers,       \* keep-alive numbers of the spawned tasks that still sleep
    client_count, \* this connection's share of the server's client_count
    writer,       \* "running", "drained" or "broken": the write task
    outbound,     \* channel into the write task
    inbound,      \* number of packets in the channel into the owner
    player,       \* "held" or "dropped": the ConnectedPlayer
    active,       \* PacketLocker.active
    clones,       \* live senders obtained with clone_writer
    client,       \* "open" or "closed"
    faithful,     \* the client has answered every keep-alive with its number
    down,         \* written to the socket, not yet read by the client
    up            \* written by the client, not yet read by the read task

readVars   == <<reader, seq, client_count>>
writeVars  == <<writer, outbound>>
ownerVars  == <<player, active, clones>>
clientVars == <<client, faithful>>
vars == <<readVars, timers, writeVars, inbound, ownerVars, clientVars, down, up>>

Id == 0 .. SeqMod - 1

\* Clientbound packets; the number matters for keep-alives only.
KeepAlive(id) == [kind |-> "KeepAlive", id |-> id]
Data          == [kind |-> "Data", id |-> 0]        \* written by the owner
Shared        == [kind |-> "Shared", id |-> 0]      \* written through a clone
Goodbye       == [kind |-> "Disconnect", id |-> 0]

\* Serverbound packets: Absorbed ones (movement, teleport answers) end in the
\* read task, Forwarded ones go to the owner, Bad ones do not decode.
Absorbed  == [kind |-> "Absorbed", id |-> 0]
Forwarded == [kind |-> "Forwarded", id |-> 0]
Bad       == [kind |-> "Bad", id |-> 0]

Clientbound == [kind : {"KeepAlive", "Data", "Shared", "Disconnect"}, id : Id]
Serverbound == [kind : {"KeepAlive", "Absorbed", "Forwarded", "Bad"}, id : Id]

TypeOK ==
    /\ reader \in {"reading", "ended", "mismatch", "unheard"}
    /\ seq \in Id
    /\ timers \subseteq Id
    /\ client_count \in {0, 1}
    /\ writer \in {"running", "drained", "broken"}
    /\ outbound \in Seq(Clientbound)
    /\ inbound \in 0 .. MaxQueue
    /\ player \in {"held", "dropped"}
    /\ active \in BOOLEAN
    /\ clones \in 0 .. MaxClones
    /\ client \in {"open", "closed"}
    /\ faithful \in BOOLEAN
    /\ down \in Seq(Clientbound)
    /\ up \in Seq(Serverbound)

\* What send_client_login has written before the tasks exist.
Written == <<KeepAlive(0)>>

Init ==
    /\ reader = "reading" /\ seq = 0 /\ client_count = 1
    /\ timers = {}
    /\ writer = "running" /\ outbound = <<>>
    /\ inbound = 0
    /\ player = "held" /\ active = TRUE /\ clones = 0
    /\ client = "open" /\ faithful = TRUE
    /\ down = Written
    /\ up = <<>>

-----------------------------------------------------------------------------
(* The read task.                                                          *)

\* Leaving the loop: the count is released and the task's halves dropped.
StopReader(why) ==
    /\ reader' = why
    /\ client_count' = client_count - 1
    /\ up' = <<>>

\* tx.send(packet) to the owner, who still holds the receiver.
Forward ==
    /\ player = "held"
    /\ inbound < MaxQueue
    /\ inbound' = inbound + 1

NextSeq == (seq + 1) % SeqMod

\* The spawned task captures the number it will send.
SpawnStale(id) == timers' = timers \cup {seq}       \* faulty: captured too early
Spawn(id) == timers' = timers \cup {id}

ReadKeepAliveUnheard ==                             \* faulty: tx.send unchecked
    /\ reader = "reading" /\ up # <<>> /\ Head(up).kind = "KeepAlive"
    /\ IF Head(up).id = seq
       THEN /\ Forward \/ (player = "dropped" /\ UNCHANGED inbound)
            /\ seq' = NextSeq
            /\ Spawn(NextSeq)
            /\ up' = Tail(up)
            /\ UNCHANGED <<reader, client_count>>
       ELSE StopReader("mismatch") /\ UNCHANGED <<seq, timers, inbound>>
    /\ UNCHANGED <<writeVars, ownerVars, clientVars, down>>

ReadKeepAliveLoose ==                               \* faulty: any number will do
    /\ reader = "reading" /\ up # <<>> /\ Head(up).kind = "KeepAlive"
    /\ \/ /\ Forward
          /\ seq' = NextSeq
          /\ Spawn(NextSeq)
          /\ up' = Tail(up)
          /\ UNCHANGED <<reader, client_count>>
       \/ /\ player = "dropped"
          /\ StopReader("unheard")
          /\ UNCHANGED <<seq, timers, inbound>>
    /\ UNCHANGED <<writeVars, ownerVars, clientVars, down>>

ReadKeepAlive ==
    /\ reader = "reading" /\ up # <<>> /\ Head(up).kind = "KeepAlive"
    /\ \/ /\ Head(up).id = seq
          /\ Forward
          /\ seq' = NextSeq
          /\ Spawn(NextSeq)
          /\ up' = Tail(up)
          /\ UNCHANGED <<reader, client_count>>
       \/ /\ Head(up).id = seq
          /\ player = "dropped"
          /\ StopReader("unheard")
          /\ UNCHANGED <<seq, timers, inbound>>
       \/ /\ Head(up).id # seq
          /\ StopReader("mismatch")
          /\ UNCHANGED <<seq, timers, inbound>>
    /\ UNCHANGED <<writeVars, ownerVars, clientVars, down>>

\* Movement and teleport answers change the shared position only (module
\* PlayerPosition): the owner's channel is not touched.
ReadAbsorbed ==
    /\ reader = "reading" /\ up # <<>> /\ Head(up).kind = "Absorbed"
    /\ up' = Tail(up)
    /\ UNCHANGED <<readVars, timers, writeVars, inbound, ownerVars, clientVars, down>>

ReadForwarded ==
    /\ reader = "reading" /\ up # <<>> /\ Head(up).kind = "Forwarded"
    /\ \/ Forward /\ up' = Tail(up) /\ UNCHANGED <<reader, client_count>>
       \/ player = "dropped" /\ StopReader("unheard") /\ UNCHANGED inbound
    /\ UNCHANGED <<seq, timers, writeVars, ownerVars, clientVars, down>>

\* A packet that does not decode, or the end of the stream.
ReadError ==
    /\ reader = "reading"
    /\ \/ up # <<>> /\ Head(up).kind = "Bad"
       \/ up = <<>> /\ client = "closed"
    /\ StopReader("ended")
    /\ UNCHANGED <<seq, timers, writeVars, inbound, ownerVars, clientVars, down>>

ReadTask == ReadKeepAlive \/ ReadAbsorbed \/ ReadForwarded \/ ReadError

-----------------------------------------------------------------------------
(* The spawned keep-alive senders and the write task.                      *)

\* send() on the write task's channel: it fails once the task has ended.
Enqueue(packet) ==
    outbound' = IF writer = "running" THEN Append(outbound, packet) ELSE outbound

SendKeepAliveForever(id) ==                         \* faulty: an interval
    /\ id \in timers
    /\ Len(outbound) < MaxQueue
    /\ Enqueue(KeepAlive(id))
    /\ UNCHANGED <<readVars, timers, writer, inbound, ownerVars, clientVars, down, up>>

SendKeepAliveNever(id) ==                           \* faulty: the send is forgotten
    /\ id \in timers
    /\ timers' = timers \ {id}
    /\ UNCHANGED <<readVars, writeVars, inbound, ownerVars, clientVars, down, up>>

\* One second is over: a failed send is only logged.
SendKeepAlive(id) ==
    /\ id \in timers
    /\ timers' = timers \ {id}
    /\ Enqueue(KeepAlive(id))
    /\ UNCHANGED <<readVars, writer, inbound, ownerVars, clientVars, down, up>>

\* A write into a socket whose peer has gone may still succeed.
WritePacketOut ==
    /\ writer = "running" /\ outbound # <<>>
    /\ \/ /\ client = "open"
          /\ Len(down) < Window
          /\ down' = Append(down, Head(outbound))
       \/ /\ client = "closed"
          /\ UNCHANGED down
    /\ outbound' = Tail(outbound)
    /\ UNCHANGED <<readVars, timers, writer, inbound, ownerVars, clientVars, up>>

\* A packet whose size or bytes cannot be made, while the client is there, or
\* a socket that is closed: the rest of the channel is dropped, too.
WriteError ==
    /\ writer = "running" /\ outbound # <<>>
    /\ writer' = "broken"
    /\ outbound' = <<>>
    /\ UNCHANGED <<readVars, timers, inbound, ownerVars, clientVars, down, up>>

\* Every sender of the write task's channel is gone.
NoSenders ==
    player = "dropped" /\ reader # "reading" /\ timers = {} /\ clones = 0

WriterDrained ==
    /\ writer = "running" /\ outbound = <<>>
    /\ NoSenders
    /\ writer' = "drained"
    /\ UNCHANGED <<readVars, timers, outbound, inbound, ownerVars, clientVars, down, up>>

WriteTask == WritePacketOut \/ WriteError \/ WriterDrained

-----------------------------------------------------------------------------
(* The owner of the ConnectedPlayer, through its PacketLocker.             *)

\* write_packet: a failed send makes the locker inactive.
WritePacket ==
    /\ player = "held" /\ active
    /\ Len(outbound) < MaxQueue
    /\ Enqueue(Data)
    /\ active' = (writer = "running")
    /\ UNCHANGED <<readVars, timers, writer, inbound, player, clones, clientVars, down, up>>

DisconnectSilently ==                               \* faulty: no packet
    /\ player = "held" /\ active
    /\ active' = FALSE
    /\ UNCHANGED <<readVars, timers, writeVars, inbound, player, clones, clientVars, down, up>>

\* disconnect: the packet, if it can still be sent, and then inactive.
Disconnect ==
    /\ player = "held" /\ active
    /\ Enqueue(Goodbye)
    /\ active' = FALSE
    /\ UNCHANGED <<readVars, timers, writer, inbound, player, clones, clientVars, down, up>>

NextPacketEager ==                                  \* faulty: end seen too early
    /\ player = "held" /\ active
    /\ \/ inbound > 0 /\ inbound' = inbound - 1 /\ UNCHANGED active
       \/ reader # "reading" /\ active' = FALSE /\ UNCHANGED inbound
    /\ UNCHANGED <<readVars, timers, writeVars, player, clones, clientVars, down, up>>

NextPacketDeaf ==                                   \* faulty: end never seen
    /\ player = "held" /\ active
    /\ inbound > 0 /\ inbound' = inbound - 1
    /\ UNCHANGED <<readVars, timers, writeVars, ownerVars, clientVars, down, up>>

\* next_packet: the end of the channel is seen only when it is empty.
NextPacket ==
    /\ player = "held" /\ active
    /\ \/ /\ inbound > 0
          /\ inbound' = inbound - 1
          /\ UNCHANGED active
       \/ /\ inbound = 0 /\ reader # "reading"
          /\ active' = FALSE
          /\ UNCHANGED inbound
    /\ UNCHANGED <<readVars, timers, writeVars, player, clones, clientVars, down, up>>

CloneWriter ==
    /\ player = "held" /\ clones < MaxClones
    /\ clones' = clones + 1
    /\ UNCHANGED <<readVars, timers, writeVars, inbound, player, active, clientVars, down, up>>

\* A holder of a clone (the entity tracker) ignores a failed send.
WriteShared ==
    /\ clones > 0
    /\ Len(outbound) < MaxQueue
    /\ Enqueue(Shared)
    /\ UNCHANGED <<readVars, timers, writer, inbound, ownerVars, clientVars, down, up>>

DropClone ==
    /\ clones > 0
    /\ clones' = clones - 1
    /\ UNCHANGED <<readVars, timers, writeVars, inbound, player, active, clientVars, down, up>>

\* The owner lets the ConnectedPlayer go, and with it the inbound receiver.
DropPlayer ==
    /\ player = "held"
    /\ player' = "dropped"
    /\ inbound' = 0
    /\ UNCHANGED <<readVars, timers, writeVars, active, clones, clientVars, down, up>>

DropInactive == ~active /\ DropPlayer

Owner ==
    \/ WritePacket \/ Disconnect \/ NextPacket
    \/ CloneWriter \/ WriteShared \/ DropClone \/ DropPlayer

-----------------------------------------------------------------------------
(* The client.                                                             *)

Close ==
    /\ client' = "closed"
    /\ down' = <<>>

\* A keep-alive is answered with its number; a faulty client answers with
\* another one or not at all.
ClientAnswer ==
    /\ client = "open" /\ down # <<>> /\ Head(down).kind = "KeepAlive"
    /\ down' = Tail(down)
    /\ \/ \E id \in Id :
            /\ up' = IF reader = "reading" THEN Append(up, KeepAlive(id)) ELSE up
            /\ faithful' = (faithful /\ id = Head(down).id)
       \/ UNCHANGED up /\ faithful' = FALSE
    /\ UNCHANGED <<readVars, timers, writeVars, inbound, ownerVars, client>>

ClientRead ==
    /\ client = "open" /\ down # <<>> /\ Head(down).kind \in {"Data", "Shared"}
    /\ down' = Tail(down)
    /\ UNCHANGED <<readVars, timers, writeVars, inbound, ownerVars, clientVars, up>>

\* The client hangs up when told to, or when the server's half is closed.
ClientLeave ==
    /\ client = "open"
    /\ \/ down # <<>> /\ Head(down).kind = "Disconnect"
       \/ down = <<>> /\ writer # "running"
    /\ Close
    /\ UNCHANGED <<readVars, timers, writeVars, inbound, ownerVars, faithful, up>>

ClientSend ==
    /\ client = "open" /\ reader = "reading"
    /\ Len(up) < Window
    /\ \E packet \in {Absorbed, Forwarded, Bad} : up' = Append(up, packet)
    /\ UNCHANGED <<readVars, timers, writeVars, inbound, ownerVars, clientVars, down>>

\* The connection breaks, or the client quits, at any time.
ClientCrash ==
    /\ client = "open"
    /\ Close
    /\ UNCHANGED <<readVars, timers, writeVars, inbound, ownerVars, faithful, up>>

ClientReads == ClientAnswer \/ ClientRead \/ ClientLeave
Client == ClientReads \/ ClientSend \/ ClientCrash

-----------------------------------------------------------------------------
Next ==
    \/ ReadTask
    \/ \E id \in timers : SendKeepAlive(id)
    \/ WriteTask
    \/ Owner
    \/ Client

\* The runtime polls every task that is ready and every sleep ends; a client
\* reads its socket; the owner polls the locker, drops a player that became
\* inactive, and the holders of cloned writers drop them.
Fairness ==
    /\ WF_vars(ReadTask)
    /\ \A id \in Id : WF_vars(SendKeepAlive(id))
    /\ WF_vars(WriteTask)
    /\ WF_vars(ClientReads)
    /\ WF_vars(NextPacket)
    /\ WF_vars(DropInactive)
    /\ WF_vars(player = "dropped" /\ DropClone)

Spec == Init /\ [][Next]_vars /\ Fairness

-----------------------------------------------------------------------------
(* Properties.                                                             *)

Pings(q) == {i \in DOMAIN q : q[i].kind = "KeepAlive"}

AtMostOne(S) == \A x, y \in S : x = y

\* The places a keep-alive can be in.
Places == {"timer", "queued", "sent", "answered"}
At == [timer |-> timers, queued |-> Pings(outbound),
       sent |-> Pings(down), answered |-> Pings(up)]

\* There is never more than one keep-alive under way between the spawned
\* tasks, the write task's channel and the two directions of the socket: the
\* read task spawns a sender only for an answer (client.rs, KeepAlive arm).
OneKeepAlive ==
    \A p, q \in Places : AtMostOne(At[p]) /\ (p = q \/ At[p] = {} \/ At[q] = {})

\* Every keep-alive still on its way to the client has the number the read
\* task expects back, and so has the answer of a client that answers right.
InStep ==
    /\ timers \subseteq {seq}
    /\ \A i \in Pings(outbound) : outbound[i].id = seq
    /\ \A i \in Pings(down) : down[i].id = seq
    /\ faithful => \A i \in Pings(up) : up[i].id = seq

\* A client that answers every keep-alive with its number is never dropped
\* for a wrong number, whatever order tasks and packets run in.
NoFalseKick == reader = "mismatch" => ~faithful

\* While both tasks run and the client is there and answers, the keep-alive
\* chain does not break: one is sleeping, queued, sent or being answered.
ChainUnbroken ==
    (reader = "reading" /\ writer = "running" /\ client = "open" /\ faithful)
        => \E p \in Places : At[p] # {}

\* The connection is counted exactly as long as its read task runs.
CountedOnce == client_count = IF reader = "reading" THEN 1 ELSE 0

\* The inductive invariant behind the invariants above.
KeepAliveInv ==
    TypeOK /\ CountedOnce /\ OneKeepAlive /\ InStep /\ NoFalseKick /\ ChainUnbroken

\* The owner stops seeing packets that the read task has already forwarded
\* only because it disconnected the player itself or a send failed: that the
\* read task has ended is noticed after the last packet.
NothingStranded ==
    [][(active /\ ~active' /\ inbound > 0)
          => (writer # "running" \/ outbound' = Append(outbound, Goodbye))]_vars

\* Once the read task has ended, the write task ends too and the socket is
\* closed: the owner notices, and no spawned task keeps a sender for ever.
HangupCloses == (reader # "reading") ~> (writer # "running")

\* A player that was disconnected, or that became inactive for any reason,
\* stops being read (and counted) even if its client answers nothing.
KickEnds == ~active ~> (reader # "reading")

\* When the owner just drops the player, the keep-alives find out: an answer
\* that cannot be forwarded ends the read task of a client that answers.
DroppedEnds == (player = "dropped") ~> (reader # "reading" \/ ~faithful)

\* The session is the keep-alive loop of module KeepAliveLoop.
Ball ==
    IF At["timer"] # {} \/ At["queued"] # {} \/ At["sent"] # {} THEN "out"
    ELSE IF At["answered"] = {} THEN "gone"
    ELSE IF \A i \in Pings(up) : up[i].id = seq THEN "back" ELSE "wrong"

Loop == INSTANCE KeepAliveLoop WITH round <- seq, ball <- Ball

ImplementsLoop == Loop!Spec
=============================================================================
