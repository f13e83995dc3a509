--------------------------- MODULE PlayerPosition ---------------------------
(***************************************************************************)
(* Where a player is, seen from three places that disagree for a while:    *)
(*                                                                         *)
(*   the client        moves by itself and applies teleports               *)
(*   the read task     writes what the client reports into the shared      *)
(*                     PendingPosition (src/client.rs)                     *)
(*   the owner         teleports the player, and copies the shared         *)
(*                     position into its ConnectedPlayer when it renders   *)
(*                     the level (src/phase/play.rs)                       *)
(*                                                                         *)
(* PendingPosition is behind a lock: every section of code that holds it   *)
(* is one step here.  teleport() is two, for it releases the lock before   *)
(* it assigns the player's own fields and sends the packet.                *)
(*                                                                         *)
(* A location carries the number of teleports its writer knew of (era);    *)
(* no action reads it, only the properties do.  view, paused and trail are *)
(* history, too.                                                           *)
(***************************************************************************)
EXTENDS Integers, Sequences

CONSTANTS
    Places,         \* bound: the coordinates in use, natural numbers here
    Turns,          \* bound: the directions in use
    Spawn,          \* the initial position of the server's builder
    MaxTeleports,   \* bound: calls of teleport
    MaxMoves,       \* bound: packets the client sends of its own accord
    Window          \* bound: packets one direction of the socket holds

ASSUME PositionAssumption ==
    /\ Places \subseteq Nat
    /\ Spawn \in [place : Places, turn : Turns, era : {0}]
    /\ MaxTeleports \in Nat /\ MaxMoves \in Nat
    /\ Window \in Nat /\ Window > 1

VARIABLES
    pending,          \* the shared PendingPosition
    position,         \* ConnectedPlayer.position
    is_position_loaded,
    chunk_poller_broke_early,
    teleport_id_incr,
    issuing,          \* the teleport whose packet is still to be sent
    centre,           \* chunk around which poll_radius last sent chunks
    view,             \* history: how `centre' relates to the position
    paused,           \* history: the latest teleport paused the position
    body,             \* where the client is
    trail,            \* history: and was since it applied the last teleport
    moves,            \* packets the client has sent of its own accord
    down,             \* PlayerPosition packets on their way to the client
    up                \* teleport answers and movement on their way back

ownerVars  == <<position, is_position_loaded, chunk_poller_broke_early,
                teleport_id_incr, issuing, centre>>
clientVars == <<body, trail, moves>>
histVars   == <<view, paused>>
vars == <<pending, ownerVars, histVars, clientVars, down, up>>

Locations == [place : Places, turn : Turns, era : 0 .. MaxTeleports]
Teleports == [to : Locations, id : 0 .. MaxTeleports]
NoTeleport == [id |-> -1]

\* Two places make a chunk.
ChunkOf(location) == location.place \div 2
Chunks == {p \div 2 : p \in Places}
NoChunk == -1

Accept(id) == [kind |-> "Accept", id |-> id]
Move(kind, at) == [kind |-> kind, at |-> at]
MoveKinds == {"Pos", "PosRot", "Rot", "Status"}
Serverbound == [kind : {"Accept"}, id : 0 .. MaxTeleports] \cup [kind : MoveKinds, at : Locations]

TypeOK ==
    /\ pending \in [location : Locations, teleport : Teleports \cup {NoTeleport}, loaded : BOOLEAN]
    /\ position \in Locations
    /\ is_position_loaded \in BOOLEAN
    /\ chunk_poller_broke_early \in BOOLEAN
    /\ teleport_id_incr \in 0 .. MaxTeleports
    /\ issuing \in [to : Locations, id : 0 .. MaxTeleports, pause : BOOLEAN] \cup {NoTeleport}
    /\ centre \in Chunks \cup {NoChunk}
    /\ view \in {"follows", "due", "missed"}
    /\ paused \in BOOLEAN
    /\ body \in Locations
    /\ trail \in Seq(Locations)
    /\ moves \in 0 .. MaxMoves
    /\ down \in Seq(Teleports)
    /\ up \in Seq(Serverbound)

\* bootstrap_client leaves a teleport pending that no packet announces.
Init ==
    /\ pending = [location |-> Spawn, teleport |-> [to |-> Spawn, id |-> 0], loaded |-> FALSE]
    /\ position = Spawn
    /\ is_position_loaded = FALSE
    /\ chunk_poller_broke_early = FALSE
    /\ teleport_id_incr = 0
    /\ issuing = NoTeleport
    /\ centre = NoChunk /\ view = "due" /\ paused = FALSE
    /\ body = Spawn /\ trail = <<Spawn>> /\ moves = 0
    /\ down = <<>> /\ up = <<>>

-----------------------------------------------------------------------------
(* The read task.                                                          *)

ReadAcceptAny ==                                    \* faulty: the id is not compared
    /\ up # <<>> /\ Head(up).kind = "Accept"
    /\ up' = Tail(up)
    /\ IF pending.teleport # NoTeleport
       THEN pending' = [pending EXCEPT !.location = pending.teleport.to,
                                       !.teleport = NoTeleport]
       ELSE UNCHANGED pending
    /\ UNCHANGED <<ownerVars, histVars, clientVars, down>>

ReadAcceptKept ==                                   \* faulty: the teleport stays pending
    /\ up # <<>> /\ Head(up).kind = "Accept"
    /\ up' = Tail(up)
    /\ IF pending.teleport.id = Head(up).id
       THEN pending' = [pending EXCEPT !.location = pending.teleport.to]
       ELSE UNCHANGED pending
    /\ UNCHANGED <<ownerVars, histVars, clientVars, down>>

\* AcceptTeleportation: only the id of the latest teleport ends it.
ReadAccept ==
    /\ up # <<>> /\ Head(up).kind = "Accept"
    /\ up' = Tail(up)
    /\ IF pending.teleport.id = Head(up).id
       THEN pending' = [pending EXCEPT !.location = pending.teleport.to,
                                       !.teleport = NoTeleport]
       ELSE UNCHANGED pending
    /\ UNCHANGED <<ownerVars, histVars, clientVars, down>>

MovedApart(location, move) ==                       \* faulty: only Rot turns the player
    [place |-> IF move.kind \in {"Pos", "PosRot"} THEN move.at.place ELSE location.place,
     turn  |-> IF move.kind = "Rot" THEN move.at.turn ELSE location.turn,
     era   |-> move.at.era]

\* What a movement packet makes of the shared location.
Moved(location, move) ==
    [place |-> IF move.kind \in {"Pos", "PosRot"} THEN move.at.place ELSE location.place,
     turn  |-> IF move.kind \in {"Rot", "PosRot"} THEN move.at.turn ELSE location.turn,
     era   |-> move.at.era]

ReadMoveEager ==                                    \* faulty: a pending teleport is no obstacle
    /\ up # <<>> /\ Head(up).kind \in MoveKinds
    /\ up' = Tail(up)
    /\ pending' = [pending EXCEPT !.location = Moved(pending.location, Head(up)),
                                  !.loaded = TRUE]
    /\ UNCHANGED <<ownerVars, histVars, clientVars, down>>

\* MovePlayer*: ignored as long as a teleport is pending.
ReadMove ==
    /\ up # <<>> /\ Head(up).kind \in MoveKinds
    /\ up' = Tail(up)
    /\ IF pending.teleport = NoTeleport
       THEN pending' = [pending EXCEPT !.location = Moved(pending.location, Head(up)),
                                       !.loaded = TRUE]
       ELSE UNCHANGED pending
    /\ UNCHANGED <<ownerVars, histVars, clientVars, down>>

ReadTask == ReadAccept \/ ReadMove

-----------------------------------------------------------------------------
(* The owner.                                                              *)

TeleportPendUnpaused(to, pause) ==                  \* faulty: is_loaded is not reset
    /\ issuing = NoTeleport
    /\ teleport_id_incr < MaxTeleports
    /\ LET teleport == [to |-> [to EXCEPT !.era = teleport_id_incr + 1], id |-> teleport_id_incr]
       IN  /\ pending' = [pending EXCEPT !.teleport = teleport]
           /\ issuing' = [to |-> teleport.to, id |-> teleport.id, pause |-> pause]
    /\ teleport_id_incr' = teleport_id_incr + 1
    /\ paused' = pause
    /\ UNCHANGED <<position, is_position_loaded, chunk_poller_broke_early, centre, view,
                   clientVars, down, up>>

\* teleport, up to the release of the lock.
TeleportPend(to, pause) ==
    /\ issuing = NoTeleport
    /\ teleport_id_incr < MaxTeleports
    /\ LET teleport == [to |-> [to EXCEPT !.era = teleport_id_incr + 1], id |-> teleport_id_incr]
       IN  /\ pending' = [pending EXCEPT !.teleport = teleport,
                                         !.loaded = pending.loaded /\ ~pause]
           /\ issuing' = [to |-> teleport.to, id |-> teleport.id, pause |-> pause]
    /\ teleport_id_incr' = teleport_id_incr + 1
    /\ paused' = pause
    /\ UNCHANGED <<position, is_position_loaded, chunk_poller_broke_early, centre, view,
                   clientVars, down, up>>

\* teleport, from there on.
TeleportSend ==
    /\ issuing # NoTeleport
    /\ Len(down) < Window
    /\ position' = issuing.to
    /\ down' = Append(down, [to |-> issuing.to, id |-> issuing.id])
    /\ is_position_loaded' = (is_position_loaded /\ ~issuing.pause)
    /\ issuing' = NoTeleport
    /\ view' = IF view = "follows" THEN "due" ELSE view
    /\ UNCHANGED <<pending, chunk_poller_broke_early, teleport_id_incr, centre, paused,
                   clientVars, up>>

UpdateLocationLate(changed) ==                      \* faulty: compared after the assignment
    \/ /\ ~pending.loaded
       /\ changed = TRUE
       /\ UNCHANGED <<position, is_position_loaded>>
    \/ /\ pending.loaded
       /\ position' = pending.location
       /\ changed = (ChunkOf(position') # ChunkOf(pending.location))
       /\ is_position_loaded' = TRUE

\* update_location and its result: has the player changed chunk?
UpdateLocation(changed) ==
    \/ /\ ~pending.loaded
       /\ changed = TRUE
       /\ UNCHANGED <<position, is_position_loaded>>
    \/ /\ pending.loaded
       /\ changed = (ChunkOf(position) # ChunkOf(pending.location))
       /\ position' = pending.location
       /\ is_position_loaded' = TRUE

\* poll_radius sends the chunks around a location, or stops before it has
\* sent them all.
PollRadius(location) ==
    /\ centre' = ChunkOf(location)
    /\ chunk_poller_broke_early' \in BOOLEAN

\* History of a render that sends nothing: a teleport into the chunk that the
\* shared position is in already is no change of chunk.
ViewKept ==
    IF pending.loaded /\ centre # ChunkOf(position') THEN "missed" ELSE "follows"

RenderLevel ==
    /\ issuing = NoTeleport
    /\ \E changed \in BOOLEAN :
          /\ UpdateLocation(changed)
          /\ IF changed \/ chunk_poller_broke_early
             THEN PollRadius(position') /\ view' = "follows"
             ELSE /\ view' = IF view = "due" THEN ViewKept ELSE view
                  /\ UNCHANGED <<centre, chunk_poller_broke_early>>
    /\ UNCHANGED <<pending, teleport_id_incr, issuing, paused, clientVars, down, up>>

\* The level is rendered around another place; the player's own is due then.
RenderProxyLevel(proxy) ==
    /\ issuing = NoTeleport
    /\ \E changed \in BOOLEAN : UpdateLocation(changed)
    /\ PollRadius(proxy)
    /\ view' = IF ChunkOf(proxy) = ChunkOf(position') THEN "follows" ELSE "missed"
    /\ UNCHANGED <<pending, teleport_id_incr, issuing, paused, clientVars, down, up>>

-----------------------------------------------------------------------------
(* The client, which answers every teleport and reports where it is.       *)

ClientTeleport ==
    /\ down # <<>>
    /\ Len(up) < Window
    /\ body' = Head(down).to
    /\ trail' = <<body'>>
    /\ up' = up \o <<Accept(Head(down).id), Move("PosRot", Head(down).to)>>
    /\ down' = Tail(down)
    /\ UNCHANGED <<pending, ownerVars, histVars, moves>>

ClientMove ==
    /\ moves < MaxMoves
    /\ Len(up) < Window
    /\ \E kind \in MoveKinds, to \in Locations :
          /\ to.era = body.era
          /\ kind \in {"Rot", "Status"} => to.place = body.place
          /\ kind \in {"Pos", "Status"} => to.turn = body.turn
          /\ body' = to
          /\ trail' = Append(trail, to)
          /\ up' = Append(up, Move(kind, to))
    /\ moves' = moves + 1
    /\ UNCHANGED <<pending, ownerVars, histVars, down>>

-----------------------------------------------------------------------------
Next ==
    \/ ReadTask
    \/ \E to \in Locations, pause \in BOOLEAN : to.era = 0 /\ TeleportPend(to, pause)
    \/ TeleportSend
    \/ RenderLevel
    \/ \E proxy \in Locations : proxy.era = 0 /\ RenderProxyLevel(proxy)
    \/ ClientTeleport
    \/ ClientMove

\* The read task runs, the owner finishes a teleport it began and renders the
\* level tick after tick, and the client reads its socket.
Fairness ==
    /\ WF_vars(ReadTask)
    /\ WF_vars(TeleportSend)
    /\ WF_vars(RenderLevel)
    /\ WF_vars(ClientTeleport)

Spec == Init /\ [][Next]_vars /\ Fairness

-----------------------------------------------------------------------------
(* Properties.                                                             *)

\* A teleport counts as confirmed only when the client has really applied the
\* latest one; from then on the shared location is the target or a place the
\* client went to afterwards, never one it reported before the teleport.
Confirmed ==
    pending.teleport = NoTeleport
        => body.era = teleport_id_incr /\ pending.location.era = teleport_id_incr

\* A position counts as loaded only after the client has confirmed a
\* teleport: the position the player was bootstrapped with never does.
LoadedIsConfirmed == is_position_loaded => pending.location.era > 0

\* Once a paused teleport has moved the player, its position is not taken
\* back to one from before the teleport.  (An unpaused one is taken back if
\* the owner renders before the client has answered.)
NoRollback ==
    [][position'.era < position.era => ~paused /\ pending.teleport # NoTeleport]_vars

\* Once the owner has rendered the level, the chunks that were sent are those
\* around the player's position.  The exception is a teleport that a render
\* cannot tell from staying: the client's reports, or its answer, had already
\* put the shared position into the chunk teleported to, and then nothing is
\* sent until the player changes chunk or another place has been rendered.
ViewFollows == view = "follows" => centre = ChunkOf(position)

\* When the client and the owner stop moving the player about, they agree on
\* where it is, once it was teleported at all.
Converges == <>[](teleport_id_incr > 0 => position = body)

-----------------------------------------------------------------------------
(* The refinement of PositionAuthority.                                    *)

\* Teleports whose packets the client has not applied.
Orders ==
    [i \in 1 .. Len(down) + (IF issuing = NoTeleport THEN 0 ELSE 1) |->
        IF i <= Len(down) THEN down[i].to ELSE issuing.to]

\* The rest of the trail is in the packets on their way, all of them from
\* after the latest teleport once that is confirmed.  The first of them may
\* be the report that follows every answer, with nothing new.
Known ==
    IF pending.teleport # NoTeleport THEN 0
    ELSE IF Len(up) < Len(trail) THEN Len(trail) - Len(up) ELSE 1

Authority == INSTANCE PositionAuthority WITH
    Location   <- Locations,
    orders     <- Orders,
    teleported <- (teleport_id_incr > 0),
    path       <- trail,
    known      <- Known,
    believed   <- pending.location

\* The shared location goes along the client's own way, packet by packet
\* though most packets tell only a part of a location, from the target of
\* the latest teleport on: never to a place the client was not at since
\* then, in an order it did not go, or before it has applied that teleport.
ImplementsAuthority == Authority!Spec

-----------------------------------------------------------------------------
(* The inductive invariant behind Confirmed, LoadedIsConfirmed, NoRollback. *)

\* Teleports reach the client in the order of their ids, none is skipped.
DownInOrder ==
    /\ \A i \in 1 .. Len(down) : down[i].id = body.era + i - 1 /\ down[i].to.era = body.era + i
    /\ body.era + Len(down) + (IF issuing = NoTeleport THEN 0 ELSE 1) = teleport_id_incr
    /\ issuing # NoTeleport =>
          issuing.id = teleport_id_incr - 1 /\ issuing.to.era = teleport_id_incr

\* What the client sends after it answered a teleport is from after it, and
\* once the latest teleport is confirmed nothing older is on its way.
UpInOrder ==
    /\ \A i \in 1 .. Len(up) : up[i].kind = "Accept" => up[i].id < body.era
    /\ \A i \in 1 .. Len(up) : up[i].kind \in MoveKinds =>
          /\ up[i].at.era <= body.era
          /\ pending.teleport = NoTeleport => up[i].at.era = teleport_id_incr
    /\ \A i, j \in 1 .. Len(up) :
          (i < j /\ up[i].kind = "Accept" /\ up[j].kind \in MoveKinds) => up[i].id < up[j].at.era

\* A pending teleport is the bootstrap's or the latest, and keeps the
\* position from being loaded when it paused it.
PendingLatest ==
    /\ pending.teleport # NoTeleport =>
          /\ \/ teleport_id_incr = 0 /\ pending.teleport.id = 0 /\ pending.teleport.to.era = 0
             \/ /\ teleport_id_incr > 0
                /\ pending.teleport.id = teleport_id_incr - 1
                /\ pending.teleport.to.era = teleport_id_incr
          /\ paused => ~pending.loaded
    /\ pending.teleport = NoTeleport => teleport_id_incr > 0
    /\ issuing # NoTeleport => pending.teleport # NoTeleport
    /\ pending.loaded => pending.location.era > 0
    /\ position.era <= teleport_id_incr /\ pending.location.era <= teleport_id_incr

PositionInv ==
    TypeOK /\ DownInOrder /\ UpInOrder /\ PendingLatest /\ Confirmed /\ LoadedIsConfirmed

(* What has to be added for ImplementsAuthority.                           *)

\* A report that makes the k-th place of a way of the one before; the first
\* one is told whole.
Reports(report, way, k) ==
    /\ report.kind \in MoveKinds /\ report.at = way[k]
    /\ k = 1 => report.kind = "PosRot"
    /\ k > 1 => Moved(way[k - 1], report) = way[k]

\* The packets on their way to the server end with reports of the trail,
\* behind the answer to the teleport that the trail began with.
ReportsTrail ==
    /\ Len(trail) > 0 /\ trail[Len(trail)] = body
    /\ \A i \in 1 .. Len(up) :
          /\ Len(up) - i < Len(trail) => Reports(up[i], trail, Len(trail) - (Len(up) - i))
          /\ up[i].kind = "Accept" /\ up[i].id = body.era - 1 => Len(up) - i = Len(trail)

\* The pending teleport has the target that was ordered last.
LastOrder ==
    pending.teleport # NoTeleport /\ teleport_id_incr > 0 =>
        /\ issuing # NoTeleport => issuing.to = pending.teleport.to
        /\ issuing = NoTeleport =>
              /\ down # <<>> => down[Len(down)].to = pending.teleport.to
              /\ down = <<>> => trail[1] = pending.teleport.to

OnTrail ==
    pending.teleport = NoTeleport => Len(up) <= Len(trail) /\ pending.location = trail[Known]

AuthorityInv == PositionInv /\ ReportsTrail /\ LastOrder /\ OnTrail
=============================================================================
