--------------------------- MODULE PositionTracker ---------------------------
(***************************************************************************)
(* How the movement of one tracked entity reaches the clients:             *)
(* EntityPositionTracker::poll_location (src/entity/tracking.rs) with the  *)
(* encoding of positions (src/math.rs), and the part of EntityTracker's    *)
(* tick that hands its packets to viewers (module EntityTracker has the    *)
(* other part: several entities, and which of them a client sees).         *)
(*                                                                         *)
(* A coordinate is a number of units so small that Sub of them are one     *)
(* step of the encoding (1/4096 of a block), an angle one of which         *)
(* AngleUnit are one bit of a rotation (1/256 of a turn).  tick is kept as *)
(* zero, or as a multiple of SyncPeriod or not: it is 1 .. SyncPeriod      *)
(* after the first poll.  on_ground, unsent and turned are history.        *)
(***************************************************************************)
EXTENDS Integers, FiniteSetsExt

CONSTANTS
    Axes,          \* the coordinates
    Locations,     \* where the entity may be: pos, yaw and pitch
    Viewers,       \* the clients that may track it
    Sub, AngleUnit,
    Turn,          \* bits in a turn: 256
    MaxDelta,      \* the largest i16: 32767
    Threshold,     \* squared distance from which a movement counts
    SyncPeriod,    \* 20
    MaxUnsent,     \* bound: how far unsent movement adds up, in steps
    None, Untold   \* no view; a flag or an angle the client was not told yet

ASSUME TrackerAssumption ==
    /\ \A l \in Locations : l.pos \in [Axes -> Int] /\ l.yaw \in Int /\ l.pitch \in Int
    /\ Sub \in Nat \ {0} /\ AngleUnit \in Nat \ {0} /\ Turn \in Nat \ {0}
    /\ MaxDelta \in Nat /\ Threshold \in Nat
    /\ SyncPeriod \in Nat \ {0} /\ MaxUnsent \in Nat
    /\ Untold \notin BOOLEAN

VARIABLES
    last_tracked_location,
    tick,
    rot_cache,     \* the rotation last sent: y, x and that of the head
    was_on_ground,
    create_entity_fn, \* "AddPlayer" for a player, "AddEntity" for any other entity
    isNew,         \* its state is WaitingForPlayers or UnknownNonPlayerEntity
    tracking,      \* viewer -> "away", "waiting" or "active"
    view,          \* viewer -> the entity as its client shows it, or None
    on_ground,     \* history: what the last poll was told
    unsent,        \* history: viewer -> movement it was never sent, per axis
    turned         \* history: the viewers for whom it has turned since they met it

entity ==
    <<last_tracked_location, tick, rot_cache, was_on_ground, on_ground, create_entity_fn>>
vars == <<entity, isNew, tracking, view, unsent, turned>>

\* v * 4096.0, rounded half away from zero.
Encode(v) ==
    IF v >= 0 THEN (2 * v + Sub) \div (2 * Sub) ELSE -((Sub - 2 * v) \div (2 * Sub))

EncodeDifference(from, to) ==                       \* faulty: rounds the difference
    [a \in Axes |-> Encode(to[a] - from[a])]

EncodePosition(from, to) == [a \in Axes |-> Encode(to[a]) - Encode(from[a])]

\* floor(angle * 256 / 360), and the conversions to i16 and to u8.
Bits(angle) == angle \div AngleUnit
AsI16(e) == ((e + MaxDelta + 1) % (2 * MaxDelta + 2)) - (MaxDelta + 1)
AsU8(bits) == bits % Turn

Zero == [a \in Axes |-> 0]

Shown ==
    [pos : [Axes -> Int], y : Int, x : Int, head : Int \cup {Untold},
     ground : BOOLEAN \cup {Untold}]

TypeOK ==
    /\ last_tracked_location \in Locations
    /\ tick \in 0..SyncPeriod
    /\ rot_cache \in [y : Int, x : Int, head : Int]
    /\ was_on_ground \in BOOLEAN /\ on_ground \in BOOLEAN /\ isNew \in BOOLEAN
    /\ create_entity_fn \in {"AddPlayer", "AddEntity"}
    /\ tracking \in [Viewers -> {"away", "waiting", "active"}]
    /\ view \in [Viewers -> Shown \cup {None}]
    /\ unsent \in [Viewers -> [Axes -> Int]]
    /\ turned \subseteq Viewers

Rotation(l) == [y |-> Bits(l.yaw), x |-> Bits(l.pitch), head |-> Bits(l.yaw)]

Init ==
    /\ last_tracked_location \in Locations
    /\ tick = 0
    /\ rot_cache = Rotation(last_tracked_location)
    /\ was_on_ground \in BOOLEAN /\ on_ground = was_on_ground
    /\ create_entity_fn \in {"AddPlayer", "AddEntity"}
    /\ isNew = TRUE
    /\ tracking \in [Viewers -> {"away", "waiting"}]
    /\ view = [v \in Viewers |-> None]
    /\ unsent = [v \in Viewers |-> Zero] /\ turned = {}

-----------------------------------------------------------------------------
(* poll_location, for an entity that is now at l.                          *)

Delta(l) == EncodePosition(last_tracked_location.pos, l.pos)

\* change_flag_2 and change_flag_3: what a packet would have to say.
Moved(l) ==
    \/ MapThenSumSet(LAMBDA a : (last_tracked_location.pos[a] - l.pos[a])
                              * (last_tracked_location.pos[a] - l.pos[a]), Axes) >= Threshold
    \/ tick % SyncPeriod = 0

TurnedSideways(l) ==                                \* faulty: the pitch is not compared
    Bits(l.yaw) # rot_cache.y

Turned(l) == Bits(l.yaw) # rot_cache.y \/ Bits(l.pitch) # rot_cache.x

TeleportsInAir(l, ground) ==                        \* faulty: not when it lands
    \/ tick = 0
    \/ \E a \in Axes : Delta(l)[a] < -MaxDelta - 1 \/ Delta(l)[a] > MaxDelta

\* The first poll, a movement too far for an i16, and a change of on_ground
\* are told by a TeleportEntity.
Teleports(l, ground) ==
    \/ tick = 0
    \/ was_on_ground # ground
    \/ \E a \in Axes : Delta(l)[a] < -MaxDelta - 1 \/ Delta(l)[a] > MaxDelta

Encoded(pos) == [a \in Axes |-> Encode(pos[a])]

\* The packets of a poll, applied to what a client shows: TeleportEntity, or
\* one of MoveEntityPos, MoveEntityRot, MoveEntityPosRot, or none; and
\* RotateHead.
Updated(shown, l, ground) ==
    LET teleports == Teleports(l, ground)
        turns == teleports \/ Turned(l)
    IN  [pos |-> CASE teleports -> Encoded(l.pos)
                   [] ~teleports /\ Moved(l) ->
                        [a \in Axes |-> shown.pos[a] + AsI16(Delta(l)[a])]
                   [] OTHER -> shown.pos,
         y |-> IF turns THEN AsU8(Bits(l.yaw)) ELSE shown.y,
         x |-> IF turns THEN AsU8(Bits(l.pitch)) ELSE shown.x,
         head |-> IF tick = 0 \/ Bits(l.yaw) # rot_cache.head
                  THEN AsU8(Bits(l.yaw)) ELSE shown.head,
         ground |-> IF turns \/ Moved(l) THEN ground ELSE shown.ground]

\* What the poll remembers.
Poll(l, ground) ==
    /\ was_on_ground' = IF Teleports(l, ground) THEN ground ELSE was_on_ground
    /\ rot_cache' =
          [y |-> IF Turned(l) \/ tick = 0 THEN Bits(l.yaw) ELSE rot_cache.y,
           x |-> IF Turned(l) \/ tick = 0 THEN Bits(l.pitch) ELSE rot_cache.x,
           head |-> Bits(l.yaw)]
    /\ tick' = IF tick = SyncPeriod THEN 1 ELSE tick + 1
    /\ last_tracked_location' = l
    /\ on_ground' = ground
    /\ UNCHANGED create_entity_fn

\* The create packet, made after the poll.  None says on_ground, and that of
\* a player does not say how its head is turned.
Created ==
    [pos |-> Encoded(last_tracked_location'.pos),
     y |-> AsU8(rot_cache'.y), x |-> AsU8(rot_cache'.x),
     head |-> IF create_entity_fn = "AddPlayer" THEN Untold ELSE AsU8(rot_cache'.head),
     ground |-> Untold]

-----------------------------------------------------------------------------
(* EntityTracker::tick, as far as this entity and its viewers go.          *)

Settle ==
    /\ isNew' = FALSE
    /\ tracking' = [v \in Viewers |-> IF tracking[v] = "waiting" THEN "active" ELSE tracking[v]]

\* Who gets the create packet, and who the packets of the poll.
Meets(v) == tracking[v] = "waiting" \/ (isNew /\ tracking[v] = "active")
Follows(v) == tracking[v] = "active" /\ ~isNew /\ view[v] # None

Tick(l, ground) ==
    /\ Poll(l, ground)
    /\ view' = [v \in Viewers |->
                   CASE Meets(v) -> Created
                     [] Follows(v) -> Updated(view[v], l, ground)
                     [] OTHER -> view[v]]
    /\ unsent' = [v \in Viewers |->
                     IF Follows(v) /\ ~Teleports(l, ground)
                     THEN IF Moved(l) THEN unsent[v]
                          ELSE [a \in Axes |-> unsent[v][a] + Delta(l)[a]]
                     ELSE Zero]
    /\ turned' = {v \in Viewers : Follows(v) /\
                     (v \in turned \/ Bits(l.yaw) # Bits(last_tracked_location.yaw))}
    /\ \A v \in Viewers, a \in Axes : unsent'[v][a] \in -MaxUnsent .. MaxUnsent
    /\ Settle

\* The accessor has no data for the entity.
TickUnfound ==
    /\ Settle
    /\ UNCHANGED <<entity, view, unsent, turned>>

\* add_player and remove_entity of a viewer.
Join(v) ==
    /\ tracking[v] = "away"
    /\ tracking' = [tracking EXCEPT ![v] = "waiting"]
    /\ UNCHANGED <<entity, isNew, view, unsent, turned>>

Leave(v) ==
    /\ tracking[v] # "away"
    /\ tracking' = [tracking EXCEPT ![v] = "away"]
    /\ view' = [view EXCEPT ![v] = None]
    /\ unsent' = [unsent EXCEPT ![v] = Zero]
    /\ turned' = turned \ {v}
    /\ UNCHANGED <<entity, isNew>>

Next ==
    \/ \E l \in Locations, ground \in BOOLEAN : Tick(l, ground)
    \/ TickUnfound
    \/ \E v \in Viewers : Join(v) \/ Leave(v)

Spec == Init /\ [][Next]_vars

-----------------------------------------------------------------------------
(* Properties, of every client that shows the entity.                      *)

Showing == {v \in Viewers : view[v] # None}

\* A client shows the entity where it is, but for the movements below the
\* threshold it was never sent: neither rounding nor the cut to i16 adds to
\* that, however long it goes on, and a teleport takes it away.
Tracked ==
    \A v \in Showing, a \in Axes :
        view[v].pos[a] + unsent[v][a] = Encode(last_tracked_location.pos[a])

\* A client shows the entity turned as it is, whichever packet told it, body
\* and head.  Of the head of a player it knows nothing until the player turns:
\* AddPlayer has no head, and the RotateHead of the first poll goes to nobody;
\* but then it is told, of a turn by any number of bits, all the way round too.
LooksRight ==
    \A v \in Showing :
        /\ view[v].y = AsU8(Bits(last_tracked_location.yaw))
        /\ view[v].x = AsU8(Bits(last_tracked_location.pitch))
        /\ \/ view[v].head = AsU8(Bits(last_tracked_location.yaw))
           \/ view[v].head = Untold /\ create_entity_fn = "AddPlayer" /\ v \notin turned

\* A client that was told of on_ground at all knows it: a change is never
\* kept back with a movement that is too small to send.
GroundTold ==
    \A v \in Showing : view[v].ground \in {Untold, on_ground}
=============================================================================
