----------------------- MODULE PlayerPositionProofs -----------------------
(***************************************************************************)
(* Proofs about module PlayerPosition: what a confirmed teleport means,    *)
(* that a paused one is not taken back, and that the shared location goes  *)
(* the client's own way, which is what PositionAuthority promises; for any *)
(* places, any number of teleports and moves and any size of the socket's  *)
(* buffers.                                                                *)
(***************************************************************************)
EXTENDS PlayerPosition, TLAPS

USE PositionAssumption

-----------------------------------------------------------------------------
(* Facts about the data.                                                   *)

\* The packets the model names are of the right kinds.
LEMMA PacketTypes ==
    /\ NoTeleport.id = -1 /\ \A t \in Teleports : t # NoTeleport /\ t.id \in Nat /\ t.to \in Locations
    /\ \A l \in Locations : l.era \in Nat /\ l.era <= MaxTeleports /\ l.place \in Places
    /\ \A id \in 0 .. MaxTeleports : Accept(id) \in Serverbound /\ Accept(id).kind = "Accept"
                                     /\ Accept(id).id = id
    /\ \A kind \in MoveKinds, at \in Locations :
          Move(kind, at) \in Serverbound /\ Move(kind, at).kind = kind /\ Move(kind, at).at = at
    /\ "Accept" \notin MoveKinds /\ "PosRot" \in MoveKinds
    /\ \A p \in Serverbound : \/ p.kind = "Accept" /\ p.id \in 0 .. MaxTeleports
                              \/ p.kind \in MoveKinds /\ p.at \in Locations
  <1>1. /\ NoTeleport.id = -1 /\ \A t \in Teleports : t # NoTeleport /\ t.id \in Nat /\ t.to \in Locations
    BY DEF NoTeleport, Teleports
  <1>2. \A l \in Locations : l.era \in Nat /\ l.era <= MaxTeleports /\ l.place \in Places
    BY DEF Locations
  <1>3. QED BY <1>1, <1>2 DEF Accept, Move, Serverbound, MoveKinds

\* A movement packet makes a location of a location, with the packet's era.
LEMMA MovedType ==
    ASSUME NEW l \in Locations, NEW p \in Serverbound, p.kind \in MoveKinds
    PROVE  Moved(l, p) \in Locations /\ Moved(l, p).era = p.at.era
  <1>1. p.at \in Locations
    BY PacketTypes
  <1>2. QED BY <1>1 DEF Moved, Locations

\* Reading the head of a queue moves the rest one place up.
LEMMA QueueTail ==
    ASSUME NEW S, NEW q \in Seq(S), q # <<>>
    PROVE  /\ Len(q) \in Nat \ {0} /\ Head(q) \in S /\ Head(q) = q[1]
           /\ Tail(q) \in Seq(S) /\ Len(Tail(q)) = Len(q) - 1
           /\ \A i \in 1 .. Len(Tail(q)) : i + 1 \in 1 .. Len(q) /\ Tail(q)[i] = q[i + 1]
  OBVIOUS

\* Appending a packet leaves the others where they are.
LEMMA QueueAppend ==
    ASSUME NEW S, NEW q \in Seq(S), NEW p \in S
    PROVE  /\ Append(q, p) \in Seq(S) /\ Len(q) \in Nat /\ Len(Append(q, p)) = Len(q) + 1
           /\ \A i \in 1 .. Len(q) : Append(q, p)[i] = q[i]
           /\ Append(q, p)[Len(q) + 1] = p
  OBVIOUS

-----------------------------------------------------------------------------
(* Types.                                                                  *)

LEMMA PositionTypeInit == Init => TypeOK
  <1>1. Spawn \in Locations
    BY DEF Locations
  <1>2. [to |-> Spawn, id |-> 0] \in Teleports
    BY <1>1 DEF Teleports
  <1> SUFFICES ASSUME Init PROVE TypeOK
    OBVIOUS
  <1>3. pending \in [location : Locations, teleport : Teleports \cup {NoTeleport}, loaded : BOOLEAN]
    BY <1>1, <1>2 DEF Init
  <1>4. <<>> \in Seq(Teleports) /\ <<>> \in Seq(Serverbound)
    OBVIOUS
  <1>5. position \in Locations /\ body \in Locations /\ trail \in Seq(Locations)
    BY <1>1 DEF Init
  <1>6. down \in Seq(Teleports) /\ up \in Seq(Serverbound)
    BY <1>4 DEF Init
  <1>7. /\ is_position_loaded \in BOOLEAN /\ chunk_poller_broke_early \in BOOLEAN /\ paused \in BOOLEAN
        /\ issuing = NoTeleport /\ centre = NoChunk /\ view = "due"
    BY DEF Init
  <1>8. teleport_id_incr \in 0 .. MaxTeleports /\ moves \in 0 .. MaxMoves
    <2>1. teleport_id_incr = 0 /\ moves = 0
      BY DEF Init
    <2>2. QED BY <2>1
  <1>9. QED BY <1>3, <1>5, <1>6, <1>7, <1>8 DEF TypeOK

\* What update_location leaves in the owner's fields.
LEMMA UpdateLocationTypes ==
    ASSUME TypeOK, NEW changed \in BOOLEAN, UpdateLocation(changed)
    PROVE  /\ position' \in Locations /\ is_position_loaded' \in BOOLEAN
           /\ \/ ~pending.loaded /\ UNCHANGED <<position, is_position_loaded>>
              \/ pending.loaded /\ position' = pending.location
  BY DEF UpdateLocation, TypeOK

\* The chunk of a location in use is one of the chunks.
LEMMA ChunkOfType == ASSUME NEW l \in Locations PROVE ChunkOf(l) \in Chunks
  BY DEF Locations, ChunkOf, Chunks

LEMMA PositionTypeStep == TypeOK /\ [Next]_vars => TypeOK'
  <1> SUFFICES ASSUME TypeOK, [Next]_vars PROVE TypeOK'
    OBVIOUS
  <1> USE DEF TypeOK, ownerVars, histVars, clientVars
  <1>1. CASE ReadAccept
    <2>1. up' \in Seq(Serverbound)
      BY <1>1, QueueTail DEF ReadAccept
    <2>2. pending' \in [location : Locations, teleport : Teleports \cup {NoTeleport}, loaded : BOOLEAN]
      <3>1. CASE pending.teleport.id = Head(up).id
        <4>1. Head(up) \in Serverbound /\ Head(up).kind = "Accept"
          BY <1>1, QueueTail DEF ReadAccept
        <4>2. pending.teleport \in Teleports
          BY <3>1, <4>1, PacketTypes
        <4>3. pending' = [pending EXCEPT !.location = pending.teleport.to, !.teleport = NoTeleport]
          BY <1>1, <3>1 DEF ReadAccept
        <4>4. pending.teleport.to \in Locations
          BY <4>2, PacketTypes
        <4>5. QED BY <4>3, <4>4
      <3>2. CASE pending.teleport.id # Head(up).id
        BY <1>1, <3>2 DEF ReadAccept
      <3>3. QED BY <3>1, <3>2
    <2>3. QED BY <1>1, <2>1, <2>2 DEF ReadAccept
  <1>2. CASE ReadMove
    <2>1. up' \in Seq(Serverbound) /\ Head(up) \in Serverbound /\ Head(up).kind \in MoveKinds
      BY <1>2, QueueTail DEF ReadMove
    <2>2. Moved(pending.location, Head(up)) \in Locations
      BY <2>1, MovedType
    <2>3. pending' \in [location : Locations, teleport : Teleports \cup {NoTeleport}, loaded : BOOLEAN]
      BY <1>2, <2>2 DEF ReadMove
    <2>4. QED BY <1>2, <2>1, <2>3 DEF ReadMove
  <1>3. ASSUME NEW to \in Locations, NEW pause \in BOOLEAN, TeleportPend(to, pause) PROVE TypeOK'
    <2> DEFINE target == [to EXCEPT !.era = teleport_id_incr + 1]
    <2>0. teleport_id_incr + 1 \in 0 .. MaxTeleports
      BY <1>3 DEF TeleportPend
    <2>1. target \in Locations
      BY <2>0 DEF Locations
    <2>2. /\ pending' = [pending EXCEPT !.teleport = [to |-> target, id |-> teleport_id_incr],
                                        !.loaded = pending.loaded /\ ~pause]
          /\ issuing' = [to |-> target, id |-> teleport_id_incr, pause |-> pause]
      BY <1>3 DEF TeleportPend
    <2> HIDE DEF target
    <2>3. [to |-> target, id |-> teleport_id_incr] \in Teleports
      BY <2>1 DEF Teleports
    <2>4. pending' \in [location : Locations, teleport : Teleports \cup {NoTeleport}, loaded : BOOLEAN]
      BY <2>2, <2>3
    <2>5. issuing' \in [to : Locations, id : 0 .. MaxTeleports, pause : BOOLEAN]
      BY <2>1, <2>2
    <2>6. QED BY <1>3, <2>0, <2>4, <2>5 DEF TeleportPend
  <1>4. CASE TeleportSend
    <2>1. issuing \in [to : Locations, id : 0 .. MaxTeleports, pause : BOOLEAN]
      BY <1>4 DEF TeleportSend
    <2>2. down' \in Seq(Teleports)
      <3>1. [to |-> issuing.to, id |-> issuing.id] \in Teleports
        BY <2>1 DEF Teleports
      <3>2. QED BY <1>4, <3>1, QueueAppend DEF TeleportSend
    <2>3. QED BY <1>4, <2>1, <2>2 DEF TeleportSend
  <1>5. CASE RenderLevel
    <2>1. PICK changed \in BOOLEAN :
             /\ UpdateLocation(changed)
             /\ IF changed \/ chunk_poller_broke_early
                THEN PollRadius(position') /\ view' = "follows"
                ELSE /\ view' = IF view = "due" THEN ViewKept ELSE view
                     /\ UNCHANGED <<centre, chunk_poller_broke_early>>
      BY <1>5 DEF RenderLevel
    <2>2. position' \in Locations /\ is_position_loaded' \in BOOLEAN
      BY <2>1, UpdateLocationTypes
    <2>3. centre' \in Chunks \cup {NoChunk} /\ chunk_poller_broke_early' \in BOOLEAN
      BY <2>1, <2>2, ChunkOfType DEF PollRadius
    <2>4. view' \in {"follows", "due", "missed"}
      BY <2>1 DEF ViewKept
    <2>5. QED BY <1>5, <2>2, <2>3, <2>4 DEF RenderLevel
  <1>6. ASSUME NEW proxy \in Locations, RenderProxyLevel(proxy) PROVE TypeOK'
    <2>1. position' \in Locations /\ is_position_loaded' \in BOOLEAN
      BY <1>6, UpdateLocationTypes DEF RenderProxyLevel
    <2>2. centre' \in Chunks \cup {NoChunk} /\ chunk_poller_broke_early' \in BOOLEAN
      BY <1>6, ChunkOfType DEF RenderProxyLevel, PollRadius
    <2>3. QED BY <1>6, <2>1, <2>2 DEF RenderProxyLevel
  <1>7. CASE ClientTeleport
    <2>1. Head(down) \in Teleports /\ down' \in Seq(Teleports)
      BY <1>7, QueueTail DEF ClientTeleport
    <2>2. /\ Accept(Head(down).id) \in Serverbound
          /\ Move("PosRot", Head(down).to) \in Serverbound
          /\ body' \in Locations
      BY <1>7, <2>1, PacketTypes DEF ClientTeleport, Teleports
    <2>3. up' \in Seq(Serverbound)
      BY <1>7, <2>2 DEF ClientTeleport
    <2>4. trail' \in Seq(Locations)
      BY <1>7, <2>2 DEF ClientTeleport
    <2>5. QED BY <1>7, <2>1, <2>2, <2>3, <2>4 DEF ClientTeleport
  <1>8. CASE ClientMove
    <2>1. PICK kind \in MoveKinds, to \in Locations :
             body' = to /\ trail' = Append(trail, to) /\ up' = Append(up, Move(kind, to))
      BY <1>8 DEF ClientMove
    <2>2. up' \in Seq(Serverbound) /\ trail' \in Seq(Locations)
      BY <2>1, PacketTypes, QueueAppend
    <2>3. QED BY <1>8, <2>1, <2>2 DEF ClientMove
  <1>9. CASE UNCHANGED vars
    BY <1>9 DEF vars
  <1>10. QED BY <1>1, <1>2, <1>3, <1>4, <1>5, <1>6, <1>7, <1>8, <1>9 DEF Next, ReadTask

\* Every value of the variables has its type.
THEOREM PositionTypes == Spec => []TypeOK
  BY PositionTypeInit, PositionTypeStep, PTL DEF Spec

-----------------------------------------------------------------------------
(* The inductive invariant.                                                *)

\* The types of what the invariant compares.
LEMMA PositionEras ==
    ASSUME TypeOK
    PROVE  /\ teleport_id_incr \in Nat /\ body.era \in Nat /\ position.era \in Nat
           /\ pending.location.era \in Nat
           /\ pending.teleport # NoTeleport =>
                 pending.teleport \in Teleports /\ pending.teleport.id \in Nat
           /\ Len(down) \in Nat /\ Len(up) \in Nat
  <1>1. /\ pending.location \in Locations /\ body \in Locations /\ position \in Locations
        /\ pending.teleport # NoTeleport => pending.teleport \in Teleports
        /\ down \in Seq(Teleports) /\ up \in Seq(Serverbound) /\ teleport_id_incr \in Nat
    BY DEF TypeOK
  <1>2. QED BY <1>1, PacketTypes

LEMMA PositionInit == Init => PositionInv
  <1> SUFFICES ASSUME Init PROVE PositionInv
    OBVIOUS
  <1>1. TypeOK
    BY PositionTypeInit
  <1>2. /\ Spawn.era = 0 /\ down = <<>> /\ up = <<>> /\ body = Spawn /\ position = Spawn
        /\ teleport_id_incr = 0 /\ issuing = NoTeleport /\ is_position_loaded = FALSE
        /\ pending.location = Spawn /\ pending.loaded = FALSE
        /\ pending.teleport = [to |-> Spawn, id |-> 0]
    BY DEF Init
  <1>3. Len(down) = 0 /\ Len(up) = 0
    BY <1>2
  <1>4. pending.teleport # NoTeleport /\ pending.teleport.id = 0 /\ pending.teleport.to.era = 0
    BY <1>2 DEF NoTeleport
  <1>5. DownInOrder
    BY <1>2, <1>3 DEF DownInOrder
  <1>6. UpInOrder
    BY <1>3 DEF UpInOrder
  <1>7. PendingLatest
    BY <1>2, <1>4 DEF PendingLatest
  <1>8. Confirmed /\ LoadedIsConfirmed
    BY <1>2, <1>4 DEF Confirmed, LoadedIsConfirmed
  <1>9. QED BY <1>1, <1>5, <1>6, <1>7, <1>8 DEF PositionInv

\* An answer that carries the id of the pending teleport means that the client
\* has applied the latest one; what it sent afterwards is from there on.
LEMMA ReadAcceptStep ==
    ASSUME PositionInv, ReadAccept
    PROVE  DownInOrder' /\ UpInOrder' /\ PendingLatest' /\ Confirmed' /\ LoadedIsConfirmed'
  <1> USE PositionEras DEF PositionInv
  <1>1. /\ up \in Seq(Serverbound) /\ up # <<>> /\ Head(up).kind = "Accept" /\ up' = Tail(up)
        /\ UNCHANGED <<ownerVars, histVars, clientVars, down>>
    BY DEF ReadAccept, TypeOK
  <1>2. /\ Head(up) = up[1] /\ 1 \in 1 .. Len(up) /\ up[1].id \in Nat
        /\ \A i \in 1 .. Len(up') : i + 1 \in 1 .. Len(up) /\ up'[i] = up[i + 1]
        /\ Len(up') \in Nat
    BY <1>1, QueueTail, PacketTypes
  <1>2a. \A i \in 1 .. Len(up) : up[i] \in Serverbound
    BY <1>1
  <1>2b. \A i \in 1 .. Len(up) : up[i].kind \in MoveKinds => up[i].at.era \in Nat
    BY <1>2a, PacketTypes
  <1>3. up[1].kind = "Accept" /\ up[1].id < body.era
    BY <1>1, <1>2 DEF UpInOrder
  <1>4. body.era <= teleport_id_incr /\ (issuing # NoTeleport => body.era < teleport_id_incr)
    BY DEF DownInOrder
  <1>5. DownInOrder'
    BY <1>1 DEF DownInOrder, ownerVars, clientVars
  <1>6. CASE pending.teleport.id = up[1].id
    <2>1. /\ pending.teleport # NoTeleport
          /\ pending' = [pending EXCEPT !.location = pending.teleport.to, !.teleport = NoTeleport]
      BY <1>2, <1>6, PacketTypes DEF ReadAccept
    <2>2. /\ pending'.location = pending.teleport.to
          /\ pending'.teleport = NoTeleport /\ pending'.loaded = pending.loaded
      BY <2>1 DEF TypeOK
    <2>3. /\ teleport_id_incr > 0 /\ up[1].id = teleport_id_incr - 1
          /\ pending.teleport.to.era = teleport_id_incr
      BY <1>2, <1>3, <1>4, <1>6, <2>1 DEF PendingLatest
    <2>4. body.era = teleport_id_incr /\ issuing = NoTeleport
      BY <1>2, <1>3, <1>4, <2>3
    <2>5. \A i \in 1 .. Len(up') : up'[i].kind \in MoveKinds => up'[i].at.era = teleport_id_incr
      <3>1. ASSUME NEW i \in 1 .. Len(up'), up'[i].kind \in MoveKinds
            PROVE  up'[i].at.era = teleport_id_incr
        <4>1. /\ i + 1 \in 1 .. Len(up) /\ up'[i] = up[i + 1] /\ 1 < i + 1
              /\ up[i + 1].at.era \in Nat
          BY <1>2, <1>2b, <3>1
        <4>2. up[1].id < up[i + 1].at.era /\ up[i + 1].at.era <= body.era
          BY <1>2, <1>3, <3>1, <4>1 DEF UpInOrder
        <4>3. QED BY <2>3, <2>4, <4>1, <4>2
      <3>2. QED BY <3>1
    <2>6. UpInOrder'
      BY <1>1, <1>2, <2>4, <2>5 DEF UpInOrder, ownerVars, clientVars
    <2>7. PendingLatest'
      BY <1>1, <2>2, <2>3, <2>4 DEF PendingLatest, ownerVars, histVars
    <2>8. Confirmed' /\ LoadedIsConfirmed'
      BY <1>1, <2>2, <2>3, <2>4 DEF Confirmed, LoadedIsConfirmed, ownerVars, clientVars
    <2>9. QED BY <1>5, <2>6, <2>7, <2>8
  <1>7. CASE pending.teleport.id # up[1].id
    <2>1. pending' = pending
      BY <1>2, <1>7 DEF ReadAccept
    <2>2. UpInOrder'
      BY <1>1, <1>2, <2>1 DEF UpInOrder, ownerVars, clientVars
    <2>3. PendingLatest' /\ Confirmed' /\ LoadedIsConfirmed'
      BY <1>1, <2>1 DEF PendingLatest, Confirmed, LoadedIsConfirmed, ownerVars, clientVars, histVars
    <2>4. QED BY <1>5, <2>2, <2>3
  <1>8. QED BY <1>6, <1>7

\* A movement packet that is not ignored is from after the latest teleport.
LEMMA ReadMoveStep ==
    ASSUME PositionInv, ReadMove
    PROVE  DownInOrder' /\ UpInOrder' /\ PendingLatest' /\ Confirmed' /\ LoadedIsConfirmed'
  <1> USE PositionEras DEF PositionInv
  <1>1. /\ up \in Seq(Serverbound) /\ up # <<>> /\ Head(up).kind \in MoveKinds /\ up' = Tail(up)
        /\ UNCHANGED <<ownerVars, histVars, clientVars, down>>
    BY DEF ReadMove, TypeOK
  <1>2. /\ Head(up) = up[1] /\ 1 \in 1 .. Len(up) /\ Head(up) \in Serverbound
        /\ \A i \in 1 .. Len(up') : i + 1 \in 1 .. Len(up) /\ up'[i] = up[i + 1]
        /\ Len(up') \in Nat
    BY <1>1, QueueTail
  <1>3. DownInOrder'
    BY <1>1 DEF DownInOrder, ownerVars, clientVars
  <1>4. pending'.teleport = pending.teleport
    BY DEF ReadMove, TypeOK
  <1>5. UpInOrder'
    BY <1>1, <1>2, <1>4 DEF UpInOrder, ownerVars, clientVars
  <1>6. CASE pending.teleport = NoTeleport
    <2>1. /\ pending' = [pending EXCEPT !.location = Moved(pending.location, Head(up)), !.loaded = TRUE]
          /\ pending.location \in Locations
      BY <1>6 DEF ReadMove, TypeOK
    <2>2. pending'.location = Moved(pending.location, Head(up))
      BY <2>1 DEF TypeOK
    <2>3. pending'.location.era = up[1].at.era
      BY <1>1, <1>2, <2>1, <2>2, MovedType
    <2>4. up[1].at.era = teleport_id_incr
      BY <1>1, <1>2, <1>6 DEF UpInOrder
    <2>5. teleport_id_incr > 0
      BY <1>6 DEF PendingLatest
    <2>6. PendingLatest'
      BY <1>1, <1>4, <1>6, <2>3, <2>4, <2>5 DEF PendingLatest, ownerVars, histVars
    <2>7. Confirmed' /\ LoadedIsConfirmed'
      BY <1>1, <1>6, <2>3, <2>4, <2>5 DEF Confirmed, LoadedIsConfirmed, ownerVars, clientVars
    <2>8. QED BY <1>3, <1>5, <2>6, <2>7
  <1>7. CASE pending.teleport # NoTeleport
    <2>1. pending' = pending
      BY <1>7 DEF ReadMove
    <2>2. QED BY <1>1, <1>3, <1>5, <2>1
              DEF PendingLatest, Confirmed, LoadedIsConfirmed, ownerVars, clientVars, histVars
  <1>8. QED BY <1>6, <1>7

LEMMA TeleportPendStep ==
    ASSUME PositionInv, NEW to \in Locations, NEW pause \in BOOLEAN, TeleportPend(to, pause)
    PROVE  DownInOrder' /\ UpInOrder' /\ PendingLatest' /\ Confirmed' /\ LoadedIsConfirmed'
  <1> USE PositionEras DEF PositionInv
  <1> DEFINE target == [to EXCEPT !.era = teleport_id_incr + 1]
  <1>1. /\ issuing = NoTeleport
        /\ pending' = [pending EXCEPT !.teleport = [to |-> target, id |-> teleport_id_incr],
                                      !.loaded = pending.loaded /\ ~pause]
        /\ issuing' = [to |-> target, id |-> teleport_id_incr, pause |-> pause]
        /\ teleport_id_incr' = teleport_id_incr + 1 /\ paused' = pause
        /\ UNCHANGED <<position, is_position_loaded, clientVars, down, up>>
    BY DEF TeleportPend
  <1>2. target.era = teleport_id_incr + 1
    BY DEF Locations
  <1> HIDE DEF target
  <1>3. /\ pending'.teleport = [to |-> target, id |-> teleport_id_incr]
        /\ pending'.location = pending.location
    BY <1>1 DEF TypeOK
  <1>4. pending'.loaded = (pending.loaded /\ ~pause)
    BY <1>1 DEF TypeOK
  <1>5. pending'.teleport # NoTeleport /\ issuing' # NoTeleport
    BY <1>1, <1>3 DEF NoTeleport
  <1>6. DownInOrder'
    <2>1. issuing'.id = teleport_id_incr /\ issuing'.to.era = teleport_id_incr + 1
      BY <1>1, <1>2
    <2>2. UNCHANGED <<body, down>> /\ teleport_id_incr' = teleport_id_incr + 1
      BY <1>1 DEF clientVars
    <2>3. QED BY <1>1, <1>5, <2>1, <2>2 DEF DownInOrder
  <1>7. UpInOrder'
    BY <1>1, <1>5 DEF UpInOrder, clientVars
  <1>8. pending'.loaded => pending.loaded /\ ~paused'
    BY <1>1, <1>4
  <1>9. PendingLatest'
    BY <1>1, <1>2, <1>3, <1>5, <1>8 DEF PendingLatest
  <1>10. Confirmed' /\ LoadedIsConfirmed'
    BY <1>1, <1>3, <1>5 DEF Confirmed, LoadedIsConfirmed
  <1>11. QED BY <1>6, <1>7, <1>9, <1>10

LEMMA TeleportSendStep ==
    ASSUME PositionInv, TeleportSend
    PROVE  /\ DownInOrder' /\ UpInOrder' /\ PendingLatest' /\ Confirmed' /\ LoadedIsConfirmed'
           /\ position'.era >= position.era
  <1> USE PositionEras DEF PositionInv
  <1> DEFINE packet == [to |-> issuing.to, id |-> issuing.id]
  <1>1. /\ issuing # NoTeleport /\ issuing' = NoTeleport
        /\ position' = issuing.to /\ down' = Append(down, packet)
        /\ is_position_loaded' => is_position_loaded
        /\ UNCHANGED <<pending, teleport_id_incr, paused, clientVars, up>>
    BY DEF TeleportSend
  <1>2. issuing.id = teleport_id_incr - 1 /\ issuing.to.era = teleport_id_incr
        /\ body.era + Len(down) + 1 = teleport_id_incr
    BY <1>1 DEF DownInOrder
  <1>3. packet \in Teleports /\ down \in Seq(Teleports)
    BY <1>1 DEF TypeOK, Teleports
  <1>4. /\ Len(down') = Len(down) + 1 /\ Len(down') \in Nat
        /\ \A i \in 1 .. Len(down) : down'[i] = down[i]
        /\ down'[Len(down) + 1].id = teleport_id_incr - 1
        /\ down'[Len(down) + 1].to.era = teleport_id_incr
    BY <1>1, <1>2, <1>3, QueueAppend
  <1>5. DownInOrder'
    <2>1. ASSUME NEW i \in 1 .. Len(down')
          PROVE  down'[i].id = body.era + i - 1 /\ down'[i].to.era = body.era + i
      <3>1. CASE i \in 1 .. Len(down)
        BY <1>4, <3>1 DEF DownInOrder
      <3>2. CASE i = Len(down) + 1
        <4>1. down'[i].id = teleport_id_incr - 1 /\ down'[i].to.era = teleport_id_incr
          BY <1>4, <3>2
        <4>2. body.era + i = teleport_id_incr
          BY <1>2, <3>2
        <4>3. QED BY <4>1, <4>2
      <3>3. QED BY <1>4, <3>1, <3>2
    <2>2. body' = body /\ teleport_id_incr' = teleport_id_incr /\ issuing' = NoTeleport
      BY <1>1 DEF clientVars
    <2>3. body.era + Len(down') + 0 = teleport_id_incr
      <3>1. body.era \in Nat /\ Len(down) \in Nat
        BY PositionEras
      <3>2. body.era + Len(down) + 1 = teleport_id_incr /\ Len(down') = Len(down) + 1
        BY <1>2, <1>4
      <3>3. QED BY ONLY <3>1, <3>2
    <2>4. QED BY <2>1, <2>2, <2>3 DEF DownInOrder
  <1>6. UpInOrder'
    BY <1>1 DEF UpInOrder, clientVars
  <1>7. PendingLatest'
    BY <1>1, <1>2 DEF PendingLatest
  <1>8. Confirmed' /\ LoadedIsConfirmed'
    BY <1>1 DEF Confirmed, LoadedIsConfirmed, clientVars
  <1>9. position'.era >= position.era
    BY <1>1, <1>2 DEF PendingLatest
  <1>10. QED BY <1>5, <1>6, <1>7, <1>8, <1>9

\* Looking at the shared position takes the owner's back only to one that an
\* unpaused teleport is about to replace.
LEMMA UpdateLocationStep ==
    ASSUME PositionInv, NEW changed \in BOOLEAN, UpdateLocation(changed),
           UNCHANGED <<pending, teleport_id_incr, issuing, paused, clientVars, down, up>>
    PROVE  /\ DownInOrder' /\ UpInOrder' /\ PendingLatest' /\ Confirmed' /\ LoadedIsConfirmed'
           /\ position'.era < position.era => ~paused /\ pending.teleport # NoTeleport
  <1> USE PositionEras DEF PositionInv
  <1>1. \/ ~pending.loaded /\ UNCHANGED <<position, is_position_loaded>>
        \/ pending.loaded /\ position' = pending.location
    BY UpdateLocationTypes
  <1>2. DownInOrder' /\ UpInOrder' /\ Confirmed'
    BY DEF DownInOrder, UpInOrder, Confirmed, clientVars
  <1>3. PendingLatest' /\ LoadedIsConfirmed'
    BY <1>1 DEF PendingLatest, LoadedIsConfirmed
  <1>4. ASSUME position'.era < position.era PROVE ~paused /\ pending.teleport # NoTeleport
    <2>1. pending.loaded /\ pending.location.era < position.era /\ position.era <= teleport_id_incr
      BY <1>1, <1>4 DEF PendingLatest
    <2>2. pending.teleport # NoTeleport
      BY <2>1 DEF Confirmed
    <2>3. QED BY <2>1, <2>2 DEF PendingLatest
  <1>5. QED BY <1>2, <1>3, <1>4

LEMMA ClientTeleportStep ==
    ASSUME PositionInv, ClientTeleport
    PROVE  DownInOrder' /\ UpInOrder' /\ PendingLatest' /\ Confirmed' /\ LoadedIsConfirmed'
  <1> USE PositionEras DEF PositionInv
  <1> DEFINE answer == Accept(Head(down).id)
             report == Move("PosRot", Head(down).to)
  <1>1. /\ down \in Seq(Teleports) /\ down # <<>> /\ up \in Seq(Serverbound)
        /\ body' = Head(down).to /\ up' = up \o <<answer, report>> /\ down' = Tail(down)
        /\ UNCHANGED <<pending, ownerVars, histVars>>
    BY DEF ClientTeleport, TypeOK
  <1>2. /\ Head(down) = down[1] /\ Head(down) \in Teleports /\ Len(down) > 0
        /\ Len(down') = Len(down) - 1 /\ Len(down') \in Nat
        /\ \A i \in 1 .. Len(down') : i + 1 \in 1 .. Len(down) /\ down'[i] = down[i + 1]
    BY <1>1, QueueTail
  <1>3. down[1].id = body.era /\ body'.era = body.era + 1
    BY <1>1, <1>2 DEF DownInOrder
  <1>4. pending.teleport # NoTeleport
    BY <1>2 DEF Confirmed, DownInOrder
  <1>5. /\ answer \in Serverbound /\ answer.kind = "Accept" /\ answer.id = body.era
        /\ report \in Serverbound /\ report.kind = "PosRot" /\ report.at.era = body.era + 1
    <2>1. /\ Head(down).id \in 0 .. MaxTeleports /\ Head(down).to \in Locations
          /\ Head(down).id = body.era /\ Head(down).to.era = body.era + 1
      BY <1>1, <1>2, <1>3 DEF Teleports
    <2>2. /\ answer \in Serverbound /\ answer.kind = "Accept" /\ answer.id = Head(down).id
      BY <2>1, PacketTypes
    <2>3. /\ report \in Serverbound /\ report.kind = "PosRot" /\ report.at = Head(down).to
      BY <2>1, PacketTypes DEF MoveKinds
    <2>4. QED BY <2>1, <2>2, <2>3
  <1> HIDE DEF answer, report
  <1>6. /\ Len(up') = Len(up) + 2 /\ Len(up') \in Nat
        /\ \A i \in 1 .. Len(up) : up'[i] = up[i]
        /\ up'[Len(up) + 1] = answer /\ up'[Len(up) + 2] = report
    BY <1>1, <1>5
  <1>7. DownInOrder'
    <2>1. ASSUME NEW i \in 1 .. Len(down')
          PROVE  down'[i].id = body'.era + i - 1 /\ down'[i].to.era = body'.era + i
      <3>1. i \in Nat /\ i + 1 \in 1 .. Len(down) /\ down'[i] = down[i + 1]
        BY <1>2, <2>1
      <3>2. down[i + 1].id = body.era + (i + 1) - 1 /\ down[i + 1].to.era = body.era + (i + 1)
        BY <3>1 DEF DownInOrder
      <3>3. /\ body'.era + i - 1 = body.era + (i + 1) - 1
            /\ body'.era + i = body.era + (i + 1)
        <4>1. body.era \in Nat /\ i \in Nat /\ body'.era = body.era + 1
          BY <1>3, <3>1
        <4>2. QED BY <4>1
      <3>4. QED BY <3>1, <3>2, <3>3
    <2>2. QED BY <1>1, <1>2, <1>3, <2>1 DEF DownInOrder, ownerVars
  <1>8. \A i \in 1 .. Len(up) : /\ up[i].kind = "Accept" => up[i].id \in Nat
                                /\ up[i].kind \in MoveKinds => up[i].at.era \in Nat
    <2>1. \A i \in 1 .. Len(up) : up[i] \in Serverbound
      BY <1>1
    <2>2. QED BY <2>1, PacketTypes
  <1>9. UpInOrder'
    <2>1. ASSUME NEW i \in 1 .. Len(up')
          PROVE  /\ up'[i].kind = "Accept" => up'[i].id < body'.era
                 /\ up'[i].kind \in MoveKinds => up'[i].at.era <= body'.era
      <3>1. CASE i \in 1 .. Len(up)
        <4>1. /\ up[i].kind = "Accept" => up[i].id < body.era
              /\ up[i].kind \in MoveKinds => up[i].at.era <= body.era
          BY <3>1 DEF UpInOrder
        <4>2. /\ up[i].kind = "Accept" => up[i].id \in Nat
              /\ up[i].kind \in MoveKinds => up[i].at.era \in Nat
          BY <1>8, <3>1
        <4>3. up'[i] = up[i]
          BY <1>6, <3>1
        <4>4. QED BY <1>3, <4>1, <4>2, <4>3
      <3>2. CASE i = Len(up) + 1
        BY <1>3, <1>5, <1>6, <3>2, PacketTypes
      <3>3. CASE i = Len(up) + 2
        BY <1>3, <1>5, <1>6, <3>3, PacketTypes
      <3>4. QED BY <1>6, <3>1, <3>2, <3>3
    <2>2. ASSUME NEW i \in 1 .. Len(up'), NEW j \in 1 .. Len(up'),
                 i < j, up'[i].kind = "Accept", up'[j].kind \in MoveKinds
          PROVE  up'[i].id < up'[j].at.era
      <3>1. CASE i \in 1 .. Len(up) /\ j \in 1 .. Len(up)
        BY <1>6, <2>2, <3>1 DEF UpInOrder
      <3>2. CASE i \in 1 .. Len(up) /\ j = Len(up) + 2
        <4>1. up'[i] = up[i] /\ up'[j] = report
          BY <1>6, <3>2
        <4>2. up[i].id < body.era /\ up[i].id \in Nat
          BY <1>8, <2>2, <3>2, <4>1 DEF UpInOrder
        <4>3. body.era \in Nat
          BY <1>1
        <4>4. QED BY <1>5, <4>1, <4>2, <4>3
      <3>3. CASE i = Len(up) + 1 /\ j = Len(up) + 2
        BY <1>5, <1>6, <3>3
      <3>4. j # Len(up) + 1
        BY <1>5, <1>6, <2>2, PacketTypes
      <3>5. i # Len(up) + 2
        BY <1>6, <2>2
      <3>6. i \in 1 .. Len(up) \/ i = Len(up) + 1
        BY <1>6, <3>5
      <3>7. j \in 1 .. Len(up) \/ j = Len(up) + 2
        BY <1>6, <3>4
      <3>8. ~(i = Len(up) + 1 /\ j \in 1 .. Len(up))
        BY <2>2
      <3>9. QED BY <3>1, <3>2, <3>3, <3>6, <3>7, <3>8
    <2>3. QED BY <1>1, <1>4, <2>1, <2>2 DEF UpInOrder
  <1>10. PendingLatest' /\ Confirmed' /\ LoadedIsConfirmed'
    BY <1>1, <1>4 DEF PendingLatest, Confirmed, LoadedIsConfirmed, ownerVars, histVars
  <1>11. QED BY <1>7, <1>9, <1>10

LEMMA ClientMoveStep ==
    ASSUME PositionInv, ClientMove
    PROVE  DownInOrder' /\ UpInOrder' /\ PendingLatest' /\ Confirmed' /\ LoadedIsConfirmed'
  <1> USE PositionEras DEF PositionInv
  <1>1. PICK kind \in MoveKinds, to \in Locations :
           to.era = body.era /\ body' = to /\ up' = Append(up, Move(kind, to))
    BY DEF ClientMove
  <1>2. UNCHANGED <<pending, ownerVars, histVars, down>> /\ up \in Seq(Serverbound)
    BY DEF ClientMove, TypeOK
  <1>3. body' \in Locations /\ body'.era = body.era
    BY <1>1
  <1> DEFINE report == Move(kind, to)
  <1>4. report \in Serverbound /\ report.kind \in MoveKinds /\ report.at.era = body.era
    BY <1>1, PacketTypes
  <1>5. up' = Append(up, report)
    BY <1>1
  <1> HIDE DEF report
  <1>6. /\ Len(up') = Len(up) + 1 /\ \A i \in 1 .. Len(up) : up'[i] = up[i]
        /\ up'[Len(up) + 1] = report
    BY <1>2, <1>4, <1>5, QueueAppend
  <1>7. DownInOrder'
    BY <1>2, <1>3 DEF DownInOrder, ownerVars
  <1>8. UpInOrder'
    <2>1. ASSUME NEW i \in 1 .. Len(up')
          PROVE  /\ up'[i].kind = "Accept" => up'[i].id < body'.era
                 /\ up'[i].kind \in MoveKinds =>
                       up'[i].at.era <= body'.era /\ (pending.teleport = NoTeleport => up'[i].at.era = teleport_id_incr)
      <3>1. CASE i \in 1 .. Len(up)
        BY <1>3, <1>6, <3>1 DEF UpInOrder
      <3>2. CASE i = Len(up) + 1
        BY <1>3, <1>4, <1>6, <3>2, PacketTypes DEF Confirmed
      <3>3. QED BY <1>6, <3>1, <3>2
    <2>2. ASSUME NEW i \in 1 .. Len(up'), NEW j \in 1 .. Len(up'),
                 i < j, up'[i].kind = "Accept", up'[j].kind \in MoveKinds
          PROVE  up'[i].id < up'[j].at.era
      <3>1. i \in 1 .. Len(up)
        BY <1>6, <2>2
      <3>2. CASE j \in 1 .. Len(up)
        BY <1>6, <2>2, <3>1, <3>2 DEF UpInOrder
      <3>3. CASE j = Len(up) + 1
        BY <1>4, <1>6, <2>2, <3>1, <3>3 DEF UpInOrder
      <3>4. QED BY <1>6, <3>2, <3>3
    <2>3. QED BY <1>2, <2>1, <2>2 DEF UpInOrder, ownerVars
  <1>9. PendingLatest' /\ Confirmed' /\ LoadedIsConfirmed'
    BY <1>2, <1>3 DEF PendingLatest, Confirmed, LoadedIsConfirmed, ownerVars, histVars
  <1>10. QED BY <1>7, <1>8, <1>9

\* Every step keeps the invariant, and rolls back nothing that was paused.
LEMMA PositionStep ==
    PositionInv /\ [Next]_vars
        => /\ PositionInv'
           /\ position'.era < position.era => ~paused /\ pending.teleport # NoTeleport
  <1> SUFFICES ASSUME PositionInv, [Next]_vars
               PROVE  /\ PositionInv'
                      /\ position'.era < position.era => ~paused /\ pending.teleport # NoTeleport
    OBVIOUS
  <1> USE DEF PositionInv
  <1>0. TypeOK'
    BY PositionTypeStep
  <1>1. position' = position => ~(position'.era < position.era)
    BY PositionEras
  <1>2. CASE ReadTask
    BY <1>0, <1>1, <1>2, ReadAcceptStep, ReadMoveStep DEF ReadTask, ReadAccept, ReadMove, ownerVars
  <1>3. ASSUME NEW to \in Locations, NEW pause \in BOOLEAN, TeleportPend(to, pause)
        PROVE  PositionInv' /\ position' = position
    BY <1>0, <1>3, TeleportPendStep DEF TeleportPend
  <1>4. CASE TeleportSend
    <2>1. ~(position'.era < position.era)
      BY <1>0, <1>4, TeleportSendStep, PositionEras DEF TypeOK, Locations
    <2>2. QED BY <1>0, <1>4, <2>1, TeleportSendStep
  <1>5. CASE RenderLevel \/ \E proxy \in Locations : RenderProxyLevel(proxy)
    <2>1. PICK changed \in BOOLEAN : UpdateLocation(changed)
      BY <1>5 DEF RenderLevel, RenderProxyLevel
    <2>2. UNCHANGED <<pending, teleport_id_incr, issuing, paused, clientVars, down, up>>
      BY <1>5 DEF RenderLevel, RenderProxyLevel
    <2>3. QED BY <1>0, <2>1, <2>2, UpdateLocationStep
  <1>6. CASE ClientTeleport
    BY <1>0, <1>1, <1>6, ClientTeleportStep DEF ClientTeleport, ownerVars
  <1>7. CASE ClientMove
    BY <1>0, <1>1, <1>7, ClientMoveStep DEF ClientMove, ownerVars
  <1>8. CASE UNCHANGED vars
    BY <1>0, <1>1, <1>8 DEF vars, ownerVars, histVars, clientVars, DownInOrder, UpInOrder,
                            PendingLatest, Confirmed, LoadedIsConfirmed
  <1>9. QED BY <1>1, <1>2, <1>3, <1>4, <1>5, <1>6, <1>7, <1>8 DEF Next

\* The inductive invariant holds in every reachable state.
LEMMA PositionInvariant == Spec => []PositionInv
  BY PositionInit, PositionStep, PTL DEF Spec

-----------------------------------------------------------------------------
(* Where the chunks were sent.                                             *)

LEMMA ViewInit == Init => ViewFollows
  BY DEF Init, ViewFollows

LEMMA ViewStep == ViewFollows /\ [Next]_vars => ViewFollows'
  <1> SUFFICES ASSUME ViewFollows, [Next]_vars PROVE ViewFollows'
    OBVIOUS
  <1> USE DEF ViewFollows
  <1>1. UNCHANGED <<view, centre, position>> => ViewFollows'
    OBVIOUS
  <1>2. CASE ReadTask \/ ClientTeleport \/ ClientMove
    BY <1>1, <1>2 DEF ReadTask, ReadAccept, ReadMove, ClientTeleport, ClientMove, ownerVars, histVars
  <1>3. ASSUME NEW to \in Locations, NEW pause \in BOOLEAN, TeleportPend(to, pause) PROVE ViewFollows'
    BY <1>1, <1>3 DEF TeleportPend
  <1>4. CASE TeleportSend
    BY <1>4 DEF TeleportSend
  <1>5. CASE RenderLevel
    <2>1. PICK changed \in BOOLEAN :
             /\ UpdateLocation(changed)
             /\ IF changed \/ chunk_poller_broke_early
                THEN PollRadius(position') /\ view' = "follows"
                ELSE /\ view' = IF view = "due" THEN ViewKept ELSE view
                     /\ UNCHANGED <<centre, chunk_poller_broke_early>>
      BY <1>5 DEF RenderLevel
    <2>2. CASE changed \/ chunk_poller_broke_early
      BY <2>1, <2>2 DEF PollRadius
    <2>3. CASE ~changed /\ ~chunk_poller_broke_early
      <3>1. pending.loaded /\ ChunkOf(position) = ChunkOf(position')
        BY <2>1, <2>3 DEF UpdateLocation
      <3>2. CASE view = "due"
        BY <2>1, <2>3, <3>1, <3>2 DEF ViewKept
      <3>3. CASE view # "due"
        BY <2>1, <2>3, <3>1, <3>3
      <3>4. QED BY <3>2, <3>3
    <2>4. QED BY <2>2, <2>3
  <1>6. ASSUME NEW proxy \in Locations, RenderProxyLevel(proxy) PROVE ViewFollows'
    BY <1>6 DEF RenderProxyLevel, PollRadius
  <1>7. CASE UNCHANGED vars
    BY <1>1, <1>7 DEF vars, ownerVars, histVars
  <1>8. QED BY <1>2, <1>3, <1>4, <1>5, <1>6, <1>7 DEF Next

-----------------------------------------------------------------------------
(* The results.                                                            *)

\* The chunks sent are those around the player, with the exception that the
\* history variable records.
THEOREM PositionViewFollows == Spec => []ViewFollows
  BY ViewInit, ViewStep, PTL DEF Spec

\* The server takes a teleport for confirmed only when the client has applied
\* the latest one, and believes no older report of where the player is.
THEOREM PositionConfirmed == Spec => []Confirmed
  <1>1. PositionInv => Confirmed
    BY DEF PositionInv
  <1>2. QED BY <1>1, PositionInvariant, PTL

\* A position is loaded only after a teleport was confirmed.
THEOREM PositionLoadedIsConfirmed == Spec => []LoadedIsConfirmed
  <1>1. PositionInv => LoadedIsConfirmed
    BY DEF PositionInv
  <1>2. QED BY <1>1, PositionInvariant, PTL

\* A paused teleport is never taken back.
THEOREM PositionNoRollback == Spec => NoRollback
  <1>1. PositionInv /\ [Next]_vars
            => [position'.era < position.era => ~paused /\ pending.teleport # NoTeleport]_vars
    BY PositionStep
  <1>2. QED BY <1>1, PositionInvariant, PTL DEF Spec, NoRollback

-----------------------------------------------------------------------------
(* The refinement of PositionAuthority: what holds of the trail.           *)

\* The types of what the trail is compared with.
LEMMA TrailTypes ==
    ASSUME TypeOK
    PROVE  /\ Len(up) \in Nat /\ Len(trail) \in Nat /\ up \in Seq(Serverbound) /\ trail \in Seq(Locations)
           /\ body \in Locations /\ pending.location \in Locations
           /\ Len(down) \in Nat /\ down \in Seq(Teleports) /\ teleport_id_incr \in Nat
  BY DEF TypeOK

\* What the server knows of the trail, in the two cases.
LEMMA KnownFacts ==
    ASSUME TypeOK, OnTrail, Len(trail) > 0, pending.teleport = NoTeleport
    PROVE  /\ Known \in 1 .. Len(trail) /\ pending.location = trail[Known]
           /\ Len(up) < Len(trail) => Known = Len(trail) - Len(up)
           /\ Len(up) = Len(trail) => Known = 1
           /\ Len(up) <= Len(trail)
  BY TrailTypes DEF OnTrail, Known

LEMMA ReportsTrailInit == Init => ReportsTrail /\ LastOrder /\ OnTrail
  <1> SUFFICES ASSUME Init PROVE ReportsTrail /\ LastOrder /\ OnTrail
    OBVIOUS
  <1>1. /\ trail = <<Spawn>> /\ body = Spawn /\ up = <<>> /\ teleport_id_incr = 0
        /\ pending.teleport = [to |-> Spawn, id |-> 0]
    BY DEF Init
  <1>2. Len(trail) = 1 /\ trail[1] = Spawn /\ Len(up) = 0
    BY <1>1
  <1>3. pending.teleport # NoTeleport
    BY <1>1 DEF NoTeleport
  <1>4. QED BY <1>1, <1>2, <1>3 DEF ReportsTrail, LastOrder, OnTrail

\* A step of the owner leaves the trail and its reports alone.
LEMMA ReportsTrailKept ==
    ASSUME ReportsTrail, UNCHANGED <<body, trail, up>>
    PROVE  ReportsTrail'
  BY DEF ReportsTrail, Reports, Moved

\* What is read from the socket was its head.
LEMMA ReportsTrailRead ==
    ASSUME TypeOK, ReportsTrail, up # <<>>, up' = Tail(up), UNCHANGED <<body, trail>>
    PROVE  ReportsTrail'
  <1>1. /\ Len(up) \in Nat \ {0} /\ Len(up') = Len(up) - 1
        /\ \A i \in 1 .. Len(up') : i + 1 \in 1 .. Len(up) /\ up'[i] = up[i + 1]
    BY TrailTypes, QueueTail
  <1>2. ASSUME NEW i \in 1 .. Len(up')
        PROVE  /\ Len(up') - i < Len(trail) => Reports(up'[i], trail, Len(trail) - (Len(up') - i))
               /\ up'[i].kind = "Accept" /\ up'[i].id = body.era - 1 => Len(up') - i = Len(trail)
    <2>1. Len(up') - i = Len(up) - (i + 1) /\ i + 1 \in 1 .. Len(up) /\ up'[i] = up[i + 1]
      BY <1>1
    <2>2. QED BY <2>1 DEF ReportsTrail
  <1>3. QED BY <1>2 DEF ReportsTrail, Reports, Moved

LEMMA ReportsTrailTeleport ==
    ASSUME PositionInv, ReportsTrail, ClientTeleport
    PROVE  ReportsTrail'
  <1> DEFINE answer == Accept(Head(down).id)
             report == Move("PosRot", Head(down).to)
  <1>1. /\ down # <<>> /\ body' = Head(down).to /\ trail' = <<body'>>
        /\ up' = up \o <<answer, report>>
    BY DEF ClientTeleport
  <1>2. /\ Head(down) \in Teleports /\ Head(down).id = body.era
        /\ Head(down).to.era = body.era + 1 /\ body.era \in Nat
    <2>1. Head(down) \in Teleports /\ Head(down) = down[1] /\ 1 \in 1 .. Len(down)
      BY <1>1, TrailTypes, QueueTail DEF PositionInv
    <2>2. body.era \in Nat
      BY PositionEras DEF PositionInv
    <2>3. down[1].id = body.era + 1 - 1 /\ down[1].to.era = body.era + 1
      BY <2>1 DEF PositionInv, DownInOrder
    <2>4. QED BY <2>1, <2>2, <2>3
  <1>3. /\ answer \in Serverbound /\ answer.kind = "Accept"
        /\ report \in Serverbound /\ report.kind = "PosRot" /\ report.at = body'
    BY <1>1, <1>2, PacketTypes DEF Teleports
  <1>4. "PosRot" \in MoveKinds /\ "PosRot" # "Accept"
    BY PacketTypes
  <1> HIDE DEF answer, report
  <1>5. /\ Len(up') = Len(up) + 2 /\ Len(up) \in Nat
        /\ \A i \in 1 .. Len(up) : up'[i] = up[i]
        /\ up'[Len(up) + 1] = answer /\ up'[Len(up) + 2] = report
    BY <1>1, <1>3, TrailTypes DEF PositionInv
  <1>6. Len(trail') = 1 /\ trail'[1] = body'
    BY <1>1
  <1>7. body'.era = body.era + 1
    BY <1>1, <1>2
  <1>8. ASSUME NEW i \in 1 .. Len(up')
        PROVE  /\ Len(up') - i < Len(trail') => Reports(up'[i], trail', Len(trail') - (Len(up') - i))
               /\ up'[i].kind = "Accept" /\ up'[i].id = body'.era - 1 => Len(up') - i = Len(trail')
    <2>1. CASE i \in 1 .. Len(up)
      <3>1. Len(up') - i > 1
        BY <1>5, <2>1
      <3>2. up'[i].kind = "Accept" => up'[i].id < body.era
        BY <1>5, <2>1 DEF PositionInv, UpInOrder
      <3>3. body'.era - 1 = body.era
        BY <1>2, <1>7
      <3>4. QED BY <1>2, <1>6, <3>1, <3>2, <3>3
    <2>2. CASE i = Len(up) + 1
      BY <1>5, <1>6, <2>2
    <2>3. CASE i = Len(up) + 2
      <3>1. up'[i] = report /\ Len(trail') - (Len(up') - i) = 1
        BY <1>5, <1>6, <2>3
      <3>2. report.at = trail'[1]
        BY <1>3, <1>6
      <3>3. QED BY <1>3, <1>4, <3>1, <3>2 DEF Reports
    <2>4. QED BY <1>5, <2>1, <2>2, <2>3
  <1>9. QED BY <1>6, <1>8 DEF ReportsTrail

LEMMA ReportsTrailMove ==
    ASSUME TypeOK, ReportsTrail, ClientMove
    PROVE  ReportsTrail'
  <1>1. PICK kind \in MoveKinds, to \in Locations :
           /\ to.era = body.era
           /\ kind \in {"Rot", "Status"} => to.place = body.place
           /\ kind \in {"Pos", "Status"} => to.turn = body.turn
           /\ body' = to /\ trail' = Append(trail, to) /\ up' = Append(up, Move(kind, to))
    BY DEF ClientMove
  <1> DEFINE report == Move(kind, to)
  <1>2. /\ report \in Serverbound /\ report.kind = kind /\ report.at = to
        /\ up' = Append(up, report)
    BY <1>1, PacketTypes
  <1> HIDE DEF report
  <1>3. /\ Len(up) \in Nat /\ Len(up') = Len(up) + 1 /\ \A i \in 1 .. Len(up) : up'[i] = up[i]
        /\ up'[Len(up) + 1] = report
    BY <1>2, TrailTypes, QueueAppend
  <1>4. /\ Len(trail) \in Nat \ {0} /\ Len(trail') = Len(trail) + 1
        /\ \A k \in 1 .. Len(trail) : trail'[k] = trail[k]
        /\ trail'[Len(trail) + 1] = to /\ trail[Len(trail)] = body
    BY <1>1, TrailTypes, QueueAppend DEF ReportsTrail
  <1>5. Moved(body, report) = to
    <2>1. body \in Locations /\ to \in Locations
      BY TrailTypes
    <2>2. kind \in {"Pos", "PosRot", "Rot", "Status"}
      BY DEF MoveKinds
    <2>3. to = [place |-> to.place, turn |-> to.turn, era |-> to.era]
      BY DEF Locations
    <2>4. QED BY <1>1, <1>2, <2>2, <2>3 DEF Moved
  <1>6. ASSUME NEW i \in 1 .. Len(up')
        PROVE  /\ Len(up') - i < Len(trail') => Reports(up'[i], trail', Len(trail') - (Len(up') - i))
               /\ up'[i].kind = "Accept" /\ up'[i].id = body'.era - 1 => Len(up') - i = Len(trail')
    <2>1. CASE i \in 1 .. Len(up)
      <3>1. /\ up'[i] = up[i] /\ Len(up') - i = Len(up) - i + 1
            /\ Len(trail') - (Len(up') - i) = Len(trail) - (Len(up) - i)
        <4>1. up'[i] = up[i]
          BY <1>3, <2>1
        <4>2. i \in Int /\ Len(up) \in Nat /\ Len(up') = Len(up) + 1
              /\ Len(trail) \in Nat /\ Len(trail') = Len(trail) + 1
          BY <1>3, <1>4, <2>1
        <4>3. /\ Len(up') - i = Len(up) - i + 1
              /\ Len(trail') - (Len(up') - i) = Len(trail) - (Len(up) - i)
          BY ONLY <4>2
        <4>4. QED BY <4>1, <4>3
      <3>2. up[i].kind = "Accept" /\ up[i].id = body.era - 1 => Len(up) - i = Len(trail)
        BY <2>1 DEF ReportsTrail
      <3>3. ASSUME Len(up) - i < Len(trail)
            PROVE  Reports(up[i], trail', Len(trail) - (Len(up) - i))
        <4>1. PICK k : k = Len(trail) - (Len(up) - i)
          OBVIOUS
        <4>2. k \in 1 .. Len(trail) /\ (k > 1 => k - 1 \in 1 .. Len(trail))
          BY <1>3, <1>4, <2>1, <3>3, <4>1
        <4>3. Reports(up[i], trail, k)
          BY <2>1, <3>3, <4>1 DEF ReportsTrail
        <4>4. QED BY <1>4, <4>1, <4>2, <4>3 DEF Reports
      <3>4. Len(up') - i < Len(trail') => Len(up) - i < Len(trail)
        BY <1>3, <1>4, <2>1, <3>1
      <3>5. Len(up) - i = Len(trail) => Len(up') - i = Len(trail')
        BY <1>3, <1>4, <2>1, <3>1
      <3>6. body'.era = body.era
        BY <1>1
      <3>7. Len(up') - i < Len(trail') => Reports(up'[i], trail', Len(trail') - (Len(up') - i))
        BY <3>1, <3>3, <3>4
      <3>8. QED BY <3>1, <3>2, <3>5, <3>6, <3>7
    <2>2. CASE i = Len(up) + 1
      <3>1. /\ up'[i] = report /\ Len(trail') - (Len(up') - i) = Len(trail) + 1
            /\ Len(trail) + 1 > 1 /\ Len(trail) + 1 - 1 = Len(trail)
        BY <1>3, <1>4, <2>2
      <3>2. kind # "Accept"
        BY PacketTypes
      <3>3. trail'[Len(trail) + 1 - 1] = body
        BY <1>4, <3>1
      <3>4. QED BY <1>2, <1>4, <1>5, <3>1, <3>2, <3>3 DEF Reports
    <2>3. QED BY <1>3, <2>1, <2>2
  <1>7. trail'[Len(trail')] = body' /\ Len(trail') > 0
    BY <1>1, <1>4
  <1>8. QED BY <1>6, <1>7 DEF ReportsTrail

\* The owner's two steps of a teleport, and the client's application of it,
\* keep the target of the pending one.
LEMMA LastOrderStep ==
    ASSUME PositionInv, ReportsTrail, LastOrder, [Next]_vars
    PROVE  LastOrder'
  <1> USE DEF PositionInv
  <1>1. CASE ReadTask
    <2>1. UNCHANGED <<teleport_id_incr, issuing, down, trail>>
      BY <1>1 DEF ReadTask, ReadAccept, ReadMove, ownerVars, clientVars
    <2>2. pending'.teleport = pending.teleport \/ pending'.teleport = NoTeleport
      BY <1>1 DEF ReadTask, ReadAccept, ReadMove, TypeOK
    <2>3. QED BY <2>1, <2>2 DEF LastOrder
  <1>2. ASSUME NEW to \in Locations, NEW pause \in BOOLEAN, TeleportPend(to, pause)
        PROVE  LastOrder'
    <2> DEFINE target == [to EXCEPT !.era = teleport_id_incr + 1]
    <2>1. /\ pending' = [pending EXCEPT !.teleport = [to |-> target, id |-> teleport_id_incr],
                                        !.loaded = pending.loaded /\ ~pause]
          /\ issuing' = [to |-> target, id |-> teleport_id_incr, pause |-> pause]
      BY <1>2 DEF TeleportPend
    <2> HIDE DEF target
    <2>2. pending'.teleport.to = target /\ issuing'.to = target
      BY <2>1 DEF TypeOK
    <2>3. issuing' # NoTeleport
      BY <2>1 DEF NoTeleport
    <2>4. QED BY <2>2, <2>3 DEF LastOrder
  <1>3. CASE TeleportSend
    <2>1. /\ issuing # NoTeleport /\ issuing' = NoTeleport
          /\ down' = Append(down, [to |-> issuing.to, id |-> issuing.id])
          /\ UNCHANGED <<pending, teleport_id_incr>>
      BY <1>3 DEF TeleportSend
    <2>2. issuing.to \in Locations /\ issuing.id \in 0 .. MaxTeleports
      BY <2>1 DEF TypeOK
    <2>3. PICK packet : packet = [to |-> issuing.to, id |-> issuing.id]
      OBVIOUS
    <2>4. down' # <<>> /\ down'[Len(down')].to = issuing.to
      <3>1. packet \in Teleports /\ packet.to = issuing.to
        BY <2>2, <2>3 DEF Teleports
      <3>2. down' = Append(down, packet) /\ down \in Seq(Teleports)
        BY <2>1, <2>3, TrailTypes
      <3>3. Len(down') = Len(down) + 1 /\ down'[Len(down) + 1] = packet /\ Len(down) \in Nat
        BY <3>1, <3>2, QueueAppend
      <3>4. QED BY <3>1, <3>2, <3>3
    <2>5. QED BY <2>1, <2>4 DEF LastOrder
  <1>4. CASE RenderLevel \/ \E proxy \in Locations : RenderProxyLevel(proxy)
    <2>1. UNCHANGED <<pending, teleport_id_incr, issuing, down, trail>>
      BY <1>4 DEF RenderLevel, RenderProxyLevel, clientVars
    <2>2. QED BY <2>1 DEF LastOrder
  <1>5. CASE ClientTeleport
    <2>1. /\ down # <<>> /\ down' = Tail(down) /\ trail' = <<Head(down).to>>
          /\ UNCHANGED <<pending, teleport_id_incr, issuing>>
      BY <1>5 DEF ClientTeleport, ownerVars
    <2>2. /\ Len(down) \in Nat \ {0} /\ Head(down) = down[1] /\ Len(down') = Len(down) - 1
          /\ \A i \in 1 .. Len(down') : i + 1 \in 1 .. Len(down) /\ down'[i] = down[i + 1]
      BY <2>1, TrailTypes, QueueTail
    <2>3. trail'[1] = down[1].to
      BY <2>1, <2>2
    <2>4. CASE Len(down) = 1
      <3>1. down' = <<>>
        BY <2>1, <2>2, <2>4, TrailTypes, QueueTail
      <3>2. QED BY <2>1, <2>3, <2>4, <3>1 DEF LastOrder
    <2>5. CASE Len(down) > 1
      <3>1. down'[Len(down')] = down[Len(down)]
        BY <2>2, <2>5
      <3>2. down' # <<>>
        BY <2>2, <2>5
      <3>3. QED BY <2>1, <3>1, <3>2 DEF LastOrder
    <2>6. QED BY <2>2, <2>4, <2>5
  <1>6. CASE ClientMove
    <2>1. UNCHANGED <<pending, teleport_id_incr, issuing, down>>
      BY <1>6 DEF ClientMove, ownerVars
    <2>2. PICK to \in Locations : trail' = Append(trail, to)
      BY <1>6 DEF ClientMove
    <2>3. trail'[1] = trail[1]
      BY <2>2, TrailTypes, QueueAppend DEF ReportsTrail
    <2>4. QED BY <2>1, <2>3 DEF LastOrder
  <1>7. CASE UNCHANGED vars
    BY <1>7 DEF vars, ownerVars, clientVars, LastOrder
  <1>8. QED BY <1>1, <1>2, <1>3, <1>4, <1>5, <1>6, <1>7 DEF Next

-----------------------------------------------------------------------------
(* The refinement: every step is one of PositionAuthority's.               *)

\* An answer confirms the teleport only if it is to the latest one; then what
\* follows it on its way is the whole trail.
LEMMA ReadAcceptLearns ==
    ASSUME AuthorityInv, ReadAccept
    PROVE  /\ OnTrail'
           /\ Authority!Learn \/ UNCHANGED Authority!vars
  <1> USE DEF AuthorityInv, PositionInv
  <1>1. /\ up # <<>> /\ Head(up).kind = "Accept" /\ up' = Tail(up)
        /\ UNCHANGED <<teleport_id_incr, issuing, down, trail>>
    BY DEF ReadAccept, ownerVars, clientVars
  <1>2. /\ Len(up) \in Nat \ {0} /\ Len(up') = Len(up) - 1 /\ Head(up) = up[1]
        /\ Len(trail) \in Nat \ {0}
    BY <1>1, TrailTypes, QueueTail DEF ReportsTrail
  <1>3. CASE pending.teleport = NoTeleport
    <2>1. Len(up) <= Len(trail)
      BY <1>3 DEF OnTrail
    <2>2. Reports(up[1], trail, Len(trail) - (Len(up) - 1))
      BY <1>2, <2>1 DEF ReportsTrail
    <2>3. QED BY <1>1, <1>2, <2>2, PacketTypes DEF Reports
  <1>4. CASE pending.teleport # NoTeleport /\ pending.teleport.id # Head(up).id
    <2>1. UNCHANGED pending
      BY <1>4 DEF ReadAccept
    <2>2. QED BY <1>1, <1>4, <2>1 DEF OnTrail, Known, Orders, Authority!vars
  <1>5. CASE pending.teleport # NoTeleport /\ pending.teleport.id = Head(up).id
    <2>1. /\ up[1].id < body.era /\ body.era <= teleport_id_incr /\ up[1].id \in Nat
          /\ body.era \in Nat /\ teleport_id_incr \in Nat
      <3>1. up[1].id < body.era
        BY <1>1, <1>2 DEF UpInOrder
      <3>2. pending.teleport.id \in Nat /\ body.era \in Nat /\ teleport_id_incr \in Nat
            /\ Len(down) \in Nat
        BY <1>5, PositionEras
      <3>3. body.era <= teleport_id_incr
        BY <3>2 DEF DownInOrder
      <3>4. QED BY <1>2, <1>5, <3>1, <3>2, <3>3
    <2>2. teleport_id_incr > 0 /\ up[1].id = teleport_id_incr - 1 /\ body.era = teleport_id_incr
      BY <1>2, <1>5, <2>1 DEF PendingLatest
    <2>3. issuing = NoTeleport /\ Len(down) = 0
      BY <2>1, <2>2, TrailTypes DEF DownInOrder
    <2>4. down = <<>>
      BY <2>3, TrailTypes
    <2>5. trail[1] = pending.teleport.to
      BY <1>5, <2>2, <2>3, <2>4 DEF LastOrder
    <2>6. Len(up) - 1 = Len(trail)
      <3>1. 1 \in 1 .. Len(up) /\ up[1].kind = "Accept" /\ up[1].id = body.era - 1
        BY <1>1, <1>2, <2>2
      <3>2. QED BY <3>1 DEF ReportsTrail
    <2>7. pending'.location = trail[1] /\ pending'.teleport = NoTeleport
      BY <1>5, <2>5 DEF ReadAccept, TypeOK
    <2>8. Known = 0 /\ Known' = 1
      BY <1>1, <1>2, <1>5, <2>6, <2>7 DEF Known
    <2>9. OnTrail'
      BY <1>1, <1>2, <2>6, <2>7, <2>8 DEF OnTrail
    <2>10. Orders = <<>> /\ Orders' = Orders
      <3>1. Orders' = Orders
        BY <1>1 DEF Orders
      <3>2. Orders = <<>>
        BY <2>3 DEF Orders
      <3>3. QED BY <3>1, <3>2
    <2>11. Authority!Learn
      BY <1>1, <1>2, <2>2, <2>7, <2>8, <2>10 DEF Authority!Learn
    <2>12. QED BY <2>9, <2>11
  <1>6. QED BY <1>3, <1>4, <1>5

\* A movement packet is ignored, says once more where the trail begins, or is
\* the next step of it.
LEMMA ReadMoveLearns ==
    ASSUME AuthorityInv, ReadMove
    PROVE  /\ OnTrail'
           /\ Authority!Learn \/ UNCHANGED Authority!vars
  <1> USE DEF AuthorityInv, PositionInv
  <1>1. /\ up # <<>> /\ Head(up).kind \in MoveKinds /\ up' = Tail(up)
        /\ UNCHANGED <<teleport_id_incr, issuing, down, trail>>
    BY DEF ReadMove, ownerVars, clientVars
  <1>2. /\ Len(up) \in Nat \ {0} /\ Len(up') = Len(up) - 1 /\ Head(up) = up[1]
        /\ Len(trail) \in Nat \ {0}
    BY <1>1, TrailTypes, QueueTail DEF ReportsTrail
  <1>3. Orders' = Orders
    BY <1>1 DEF Orders
  <1>4. CASE pending.teleport # NoTeleport
    <2>1. UNCHANGED pending
      BY <1>4 DEF ReadMove
    <2>2. QED BY <1>1, <1>3, <1>4, <2>1 DEF OnTrail, Known, Authority!vars
  <1>5. CASE pending.teleport = NoTeleport
    <2>1. pending'.location = Moved(pending.location, up[1]) /\ pending'.teleport = NoTeleport
      BY <1>2, <1>5 DEF ReadMove, TypeOK
    <2>2. /\ Len(up) <= Len(trail) /\ pending.location = trail[Known]
          /\ Len(up) < Len(trail) => Known = Len(trail) - Len(up)
          /\ Len(up) = Len(trail) => Known = 1
      BY <1>2, <1>5, KnownFacts
    <2>3. Reports(up[1], trail, Len(trail) - (Len(up) - 1))
      BY <1>2, <2>2 DEF ReportsTrail
    <2>4. Known' = Len(trail) - Len(up')
      BY <1>1, <1>2, <2>1, <2>2 DEF Known
    <2>5. CASE Len(up) = Len(trail)
      <3>1. up[1].kind = "PosRot" /\ up[1].at = trail[1] /\ trail[1] \in Locations
        BY <1>2, <2>3, <2>5, TrailTypes DEF Reports
      <3>2. Moved(pending.location, up[1]) = trail[1]
        BY <3>1 DEF Moved, Locations
      <3>3. Known' = 1 /\ Known = 1
        BY <1>2, <2>2, <2>4, <2>5
      <3>4. OnTrail' /\ pending'.location = pending.location
        BY <1>1, <1>2, <2>1, <2>2, <3>2, <3>3 DEF OnTrail
      <3>5. QED BY <1>1, <1>3, <3>3, <3>4 DEF Authority!vars
    <2>6. CASE Len(up) < Len(trail)
      <3>1. PICK k : k = Len(trail) - (Len(up) - 1)
        OBVIOUS
      <3>2. k > 1 /\ k - 1 = Known /\ Known' = k /\ k <= Len(trail) /\ k = Known + 1
        BY <1>2, <2>2, <2>4, <2>6, <3>1
      <3>3. Moved(trail[k - 1], up[1]) = trail[k]
        BY <2>3, <3>1, <3>2 DEF Reports
      <3>4. pending'.location = trail[k]
        BY <2>1, <2>2, <3>2, <3>3
      <3>5. OnTrail'
        BY <1>1, <1>2, <2>2, <3>2, <3>4 DEF OnTrail
      <3>6. teleport_id_incr > 0 /\ teleport_id_incr = body.era
        BY <1>5 DEF PendingLatest, Confirmed
      <3>7. issuing = NoTeleport /\ Len(down) = 0
        BY <1>5, <3>6, TrailTypes DEF DownInOrder, PendingLatest
      <3>8. Orders = <<>>
        BY <3>7 DEF Orders
      <3>9. Authority!Learn
        <4>1. Known < Len(trail) /\ Known' = Known + 1 /\ pending'.location = trail[Known']
          <5>1. Known' = Known + 1 /\ pending'.location = trail[Known']
            BY <3>2, <3>4
          <5>2. Known = Len(trail) - Len(up)
            BY <2>2, <2>6
          <5>3. QED BY <1>2, <5>1, <5>2
        <4>2. QED BY <1>1, <1>3, <3>6, <3>8, <4>1 DEF Authority!Learn
      <3>10. QED BY <3>5, <3>9
    <2>7. QED BY <1>2, <2>2, <2>5, <2>6
  <1>6. QED BY <1>4, <1>5

\* How many orders there are, and that each is a location.
LEMMA OrdersFacts ==
    ASSUME TypeOK
    PROVE  /\ Orders \in Seq(Locations)
           /\ issuing = NoTeleport => Len(Orders) = Len(down) /\ \A i \in 1 .. Len(down) : Orders[i] = down[i].to
           /\ issuing # NoTeleport => /\ Len(Orders) = Len(down) + 1 /\ Orders[Len(down) + 1] = issuing.to
                                      /\ \A i \in 1 .. Len(down) : Orders[i] = down[i].to
  <1>1. /\ Len(down) \in Nat /\ \A i \in 1 .. Len(down) : down[i].to \in Locations
        /\ issuing # NoTeleport => issuing.to \in Locations
    <2>1. down \in Seq(Teleports) /\ Len(down) \in Nat
      BY TrailTypes
    <2>2. \A i \in 1 .. Len(down) : down[i] \in Teleports
      BY <2>1
    <2>3. issuing # NoTeleport => issuing.to \in Locations
      BY DEF TypeOK
    <2>4. QED BY <2>1, <2>2, <2>3, PacketTypes
  <1>2. CASE issuing = NoTeleport
    <2>1. Orders = [i \in 1 .. Len(down) |-> IF i <= Len(down) THEN down[i].to ELSE issuing.to]
      BY <1>1, <1>2 DEF Orders
    <2>2. QED BY <1>1, <1>2, <2>1
  <1>3. CASE issuing # NoTeleport
    <2>1. Orders = [i \in 1 .. Len(down) + 1 |-> IF i <= Len(down) THEN down[i].to ELSE issuing.to]
      BY <1>1, <1>3 DEF Orders
    <2>2. QED BY <1>1, <1>3, <2>1
  <1>4. QED BY <1>2, <1>3

\* Two sequences are one if they agree everywhere.
LEMMA SameSequence ==
    ASSUME NEW S, NEW s \in Seq(S), NEW t \in Seq(S), Len(s) = Len(t),
           \A i \in 1 .. Len(s) : s[i] = t[i]
    PROVE  s = t
  OBVIOUS

LEMMA TeleportPendOrders ==
    ASSUME AuthorityInv, NEW to \in Locations, NEW pause \in BOOLEAN, TeleportPend(to, pause), TypeOK'
    PROVE  OnTrail' /\ Authority!Order
  <1> USE DEF AuthorityInv, PositionInv
  <1> DEFINE target == [to EXCEPT !.era = teleport_id_incr + 1]
  <1>1. /\ issuing = NoTeleport /\ teleport_id_incr' = teleport_id_incr + 1
        /\ pending' = [pending EXCEPT !.teleport = [to |-> target, id |-> teleport_id_incr],
                                      !.loaded = pending.loaded /\ ~pause]
        /\ issuing' = [to |-> target, id |-> teleport_id_incr, pause |-> pause]
        /\ teleport_id_incr + 1 \in 0 .. MaxTeleports
        /\ UNCHANGED <<down, up, trail>>
    BY TrailTypes DEF TeleportPend, clientVars
  <1>2. target \in Locations
    BY <1>1 DEF Locations
  <1> HIDE DEF target
  <1>3. issuing' # NoTeleport /\ issuing'.to = target
    BY <1>1 DEF NoTeleport
  <1>4. pending'.teleport # NoTeleport /\ pending'.location = pending.location
    BY <1>1 DEF TypeOK, NoTeleport
  <1>5. OnTrail' /\ Known' = 0
    BY <1>4 DEF OnTrail, Known
  <1>6. Orders' = Append(Orders, target)
    <2>1. /\ Orders \in Seq(Locations) /\ Len(Orders) = Len(down) /\ Len(down) \in Nat
          /\ \A i \in 1 .. Len(down) : Orders[i] = down[i].to
      BY <1>1, OrdersFacts, TrailTypes
    <2>2. /\ Orders' \in Seq(Locations) /\ Len(Orders') = Len(down) + 1
          /\ Orders'[Len(down) + 1] = target
          /\ \A i \in 1 .. Len(down) : Orders'[i] = down[i].to
      <3>1. Orders' = [i \in 1 .. Len(down) + 1 |-> IF i <= Len(down) THEN down[i].to ELSE target]
        BY <1>1, <1>3 DEF Orders
      <3>2. \A i \in 1 .. Len(down) : down[i].to \in Locations
        <4>1. \A i \in 1 .. Len(down) : down[i] \in Teleports
          BY TrailTypes
        <4>2. QED BY <4>1, PacketTypes
      <3>3. QED BY <1>2, <2>1, <3>1, <3>2
    <2>3. PICK orders : orders = Orders /\ orders \in Seq(Locations)
      BY <2>1
    <2>4. /\ Append(orders, target) \in Seq(Locations) /\ Len(Append(orders, target)) = Len(down) + 1
          /\ \A i \in 1 .. Len(down) : Append(orders, target)[i] = down[i].to
          /\ Append(orders, target)[Len(down) + 1] = target
      BY <1>2, <2>1, <2>3, QueueAppend
    <2>5. \A i \in 1 .. Len(down) + 1 : Orders'[i] = Append(orders, target)[i]
      <3>1. \A i \in 1 .. Len(down) + 1 : i \in 1 .. Len(down) \/ i = Len(down) + 1
        BY <2>1
      <3>2. QED BY <2>2, <2>4, <3>1
    <2>6. QED BY <2>2, <2>3, <2>4, <2>5, SameSequence
  <1>7. (teleport_id_incr > 0)' = TRUE
    BY <1>1, TrailTypes
  <1>8. Authority!Order
    BY <1>1, <1>2, <1>4, <1>5, <1>6, <1>7 DEF Authority!Order
  <1>9. QED BY <1>5, <1>8

LEMMA TeleportSendOrders ==
    ASSUME AuthorityInv, TeleportSend
    PROVE  OnTrail' /\ UNCHANGED Authority!vars
  <1> USE DEF AuthorityInv, PositionInv
  <1>1. /\ issuing # NoTeleport /\ issuing' = NoTeleport
        /\ down' = Append(down, [to |-> issuing.to, id |-> issuing.id])
        /\ UNCHANGED <<pending, teleport_id_incr, trail, up>>
    BY DEF TeleportSend, clientVars
  <1>2. Known' = Known /\ OnTrail'
    BY <1>1 DEF Known, OnTrail
  <1>3. PICK packet : packet = [to |-> issuing.to, id |-> issuing.id]
    OBVIOUS
  <1>4. packet \in Teleports /\ packet.to = issuing.to
    <2>1. issuing.to \in Locations /\ issuing.id \in 0 .. MaxTeleports
      BY <1>1 DEF TypeOK
    <2>2. QED BY <1>3, <2>1 DEF Teleports
  <1>5. /\ Len(down) \in Nat /\ Len(down') = Len(down) + 1 /\ down'[Len(down) + 1] = packet
        /\ \A i \in 1 .. Len(down) : down'[i] = down[i]
    <2>1. down' = Append(down, packet) /\ down \in Seq(Teleports)
      BY <1>1, <1>3, TrailTypes
    <2>2. QED BY <1>4, <2>1, QueueAppend
  <1>6. Orders' = Orders
    <2>1. Orders = [i \in 1 .. Len(down) + 1 |-> IF i <= Len(down) THEN down[i].to ELSE issuing.to]
      BY <1>1 DEF Orders
    <2>2. Orders' = [i \in 1 .. Len(down') |-> IF i <= Len(down') THEN down'[i].to ELSE issuing'.to]
      BY <1>1, <1>5 DEF Orders
    <2>3. ASSUME NEW i \in 1 .. Len(down) + 1
          PROVE  (IF i <= Len(down) THEN down[i].to ELSE issuing.to)
                 = (IF i <= Len(down') THEN down'[i].to ELSE issuing'.to)
      BY <1>4, <1>5
    <2>4. QED BY <1>5, <2>1, <2>2, <2>3
  <1>7. QED BY <1>1, <1>2, <1>6 DEF Authority!vars

LEMMA ClientTeleportObeys ==
    ASSUME AuthorityInv, ClientTeleport
    PROVE  OnTrail' /\ Authority!Obey
  <1> USE DEF AuthorityInv, PositionInv
  <1>1. /\ down # <<>> /\ down' = Tail(down) /\ trail' = <<Head(down).to>>
        /\ UNCHANGED <<pending, teleport_id_incr, issuing>>
    BY DEF ClientTeleport, ownerVars
  <1>2. /\ Len(down) \in Nat \ {0} /\ Head(down) = down[1] /\ Len(down') = Len(down) - 1
        /\ \A i \in 1 .. Len(down') : i + 1 \in 1 .. Len(down) /\ down'[i] = down[i + 1]
    BY <1>1, TrailTypes, QueueTail
  <1>3. pending.teleport # NoTeleport
    BY <1>2, PositionEras DEF Confirmed, DownInOrder
  <1>4. OnTrail' /\ Known = 0 /\ Known' = 0
    BY <1>1, <1>3 DEF OnTrail, Known
  <1>5. PICK n \in {0, 1} : n = IF issuing = NoTeleport THEN 0 ELSE 1
    OBVIOUS
  <1>6. /\ Orders = [i \in 1 .. Len(down) + n |-> IF i <= Len(down) THEN down[i].to ELSE issuing.to]
        /\ Orders' = [i \in 1 .. Len(down') + n |-> IF i <= Len(down') THEN down'[i].to ELSE issuing.to]
    BY <1>1, <1>5 DEF Orders
  <1>7. PICK orders \in Seq(Locations) : orders = Orders
    BY OrdersFacts
  <1>8. /\ Len(orders) = Len(down) + n /\ orders # <<>> /\ orders[1] = down[1].to
    <2>1. Len(orders) = Len(down) + n
      BY <1>2, <1>6, <1>7
    <2>2. orders[1] = down[1].to
      BY <1>2, <1>6, <1>7
    <2>3. QED BY <1>2, <2>1, <2>2
  <1>9. /\ Head(orders) = orders[1] /\ Tail(orders) \in Seq(Locations)
        /\ Len(Tail(orders)) = Len(orders) - 1
        /\ \A i \in 1 .. Len(Tail(orders)) : i + 1 \in 1 .. Len(orders) /\ Tail(orders)[i] = orders[i + 1]
    BY <1>7, <1>8, QueueTail
  <1>10. Orders' = Tail(orders)
    <2>1. Len(Tail(orders)) = Len(down') + n
      BY <1>2, <1>8, <1>9
    <2>2. ASSUME NEW i \in 1 .. Len(down') + n
          PROVE  Orders'[i] = Tail(orders)[i]
      <3>1. Tail(orders)[i] = IF i + 1 <= Len(down) THEN down[i + 1].to ELSE issuing.to
        <4>1. i + 1 \in 1 .. Len(down) + n /\ Tail(orders)[i] = orders[i + 1]
          BY <1>8, <1>9, <2>1
        <4>2. QED BY <1>6, <1>7, <4>1
      <3>2. Orders'[i] = IF i <= Len(down') THEN down'[i].to ELSE issuing.to
        BY <1>6
      <3>3. CASE i <= Len(down')
        <4>1. i \in 1 .. Len(down') /\ i + 1 <= Len(down)
          BY <1>2, <3>3
        <4>2. down'[i] = down[i + 1]
          BY <1>2, <4>1
        <4>3. QED BY <3>1, <3>2, <3>3, <4>1, <4>2
      <3>4. CASE ~ i <= Len(down')
        <4>1. ~ i + 1 <= Len(down)
          BY <1>2, <3>4
        <4>2. QED BY <3>1, <3>2, <3>4, <4>1
      <3>5. QED BY <3>3, <3>4
    <2>3. Orders' \in Seq(Locations) /\ Len(Orders') = Len(down') + n
      <3>1. \A i \in 1 .. Len(down') + n : Orders'[i] \in Locations
        <4>1. \A i \in 1 .. Len(Tail(orders)) : Tail(orders)[i] \in Locations
          BY <1>9
        <4>2. QED BY <2>1, <2>2, <4>1
      <3>2. Len(down') + n \in Nat
        BY <1>2
      <3>3. PICK f : f = Orders'
        OBVIOUS
      <3>4. f = [i \in 1 .. Len(down') + n |-> f[i]] /\ \A i \in 1 .. Len(down') + n : f[i] \in Locations
        BY <1>6, <3>1, <3>3
      <3>5. f \in Seq(Locations) /\ Len(f) = Len(down') + n
        BY ONLY <3>2, <3>4
      <3>6. QED BY <3>3, <3>5
    <2>4. QED BY <1>9, <2>1, <2>2, <2>3, SameSequence
  <1>11. Authority!Obey
    BY <1>1, <1>2, <1>4, <1>7, <1>8, <1>9, <1>10 DEF Authority!Obey
  <1>12. QED BY <1>4, <1>11

LEMMA ClientMoveWalks ==
    ASSUME AuthorityInv, ClientMove
    PROVE  OnTrail' /\ Authority!Walk
  <1> USE DEF AuthorityInv, PositionInv
  <1>1. PICK kind \in MoveKinds, to \in Locations :
           trail' = Append(trail, to) /\ up' = Append(up, Move(kind, to))
    BY DEF ClientMove
  <1>2. UNCHANGED <<pending, teleport_id_incr, issuing, down>>
    BY DEF ClientMove, ownerVars
  <1>3. /\ Len(up) \in Nat /\ Len(up') = Len(up) + 1
        /\ Len(trail) \in Nat \ {0} /\ Len(trail') = Len(trail) + 1
        /\ \A k \in 1 .. Len(trail) : trail'[k] = trail[k]
    BY <1>1, PacketTypes, TrailTypes, QueueAppend DEF ReportsTrail
  <1>4. Known' = Known
    BY <1>2, <1>3 DEF Known
  <1>5. OnTrail'
    <2>1. SUFFICES ASSUME pending.teleport = NoTeleport
                   PROVE  Len(up') <= Len(trail') /\ pending.location = trail'[Known]
      BY <1>2, <1>4 DEF OnTrail
    <2>2. Known \in 1 .. Len(trail) /\ pending.location = trail[Known] /\ Len(up) <= Len(trail)
      BY <1>3, <2>1, KnownFacts
    <2>3. QED BY <1>3, <2>2
  <1>6. Orders' = Orders
    BY <1>2 DEF Orders
  <1>7. QED BY <1>1, <1>2, <1>4, <1>5, <1>6 DEF Authority!Walk

LEMMA AuthorityInit == Init => AuthorityInv /\ Authority!Init
  <1> SUFFICES ASSUME Init PROVE AuthorityInv /\ Authority!Init
    OBVIOUS
  <1>1. AuthorityInv
    BY PositionInit, ReportsTrailInit DEF AuthorityInv
  <1>2. /\ pending = [location |-> Spawn, teleport |-> [to |-> Spawn, id |-> 0], loaded |-> FALSE]
        /\ down = <<>> /\ issuing = NoTeleport /\ trail = <<Spawn>> /\ teleport_id_incr = 0
    BY DEF Init
  <1>3. Spawn \in Locations
    BY <1>2, <1>1 DEF AuthorityInv, PositionInv, TypeOK
  <1>4. pending.teleport # NoTeleport /\ pending.location = Spawn
    BY <1>2 DEF NoTeleport
  <1>5. Orders = <<>>
    <2>1. Len(down) = 0
      BY <1>2
    <2>2. QED BY <1>2, <2>1 DEF Orders
  <1>6. Known = 0
    BY <1>4 DEF Known
  <1>7. QED BY <1>1, <1>2, <1>3, <1>4, <1>5, <1>6 DEF Authority!Init

LEMMA AuthorityStep ==
    AuthorityInv /\ [Next]_vars => AuthorityInv' /\ [Authority!Next]_Authority!vars
  <1> SUFFICES ASSUME AuthorityInv, [Next]_vars
               PROVE  AuthorityInv' /\ [Authority!Next]_Authority!vars
    OBVIOUS
  <1>0. PositionInv /\ TypeOK /\ ReportsTrail /\ LastOrder /\ OnTrail
    BY DEF AuthorityInv, PositionInv
  <1>1. PositionInv' /\ TypeOK'
    BY <1>0, PositionStep DEF PositionInv
  <1>2. LastOrder'
    BY <1>0, LastOrderStep
  <1>3. CASE ReadTask
    <2>1. ReportsTrail'
      BY <1>0, <1>3, ReportsTrailRead DEF ReadTask, ReadAccept, ReadMove, clientVars
    <2>2. OnTrail' /\ (Authority!Learn \/ UNCHANGED Authority!vars)
      BY <1>3, ReadAcceptLearns, ReadMoveLearns DEF ReadTask
    <2>3. QED BY <1>1, <1>2, <2>1, <2>2 DEF AuthorityInv, Authority!Next
  <1>4. ASSUME NEW to \in Locations, NEW pause \in BOOLEAN, TeleportPend(to, pause)
        PROVE  AuthorityInv' /\ [Authority!Next]_Authority!vars
    <2>1. ReportsTrail'
      BY <1>0, <1>4, ReportsTrailKept DEF TeleportPend, clientVars
    <2>2. QED BY <1>1, <1>2, <1>4, <2>1, TeleportPendOrders DEF AuthorityInv, Authority!Next
  <1>5. CASE TeleportSend
    <2>1. ReportsTrail'
      BY <1>0, <1>5, ReportsTrailKept DEF TeleportSend, clientVars
    <2>2. QED BY <1>1, <1>2, <1>5, <2>1, TeleportSendOrders DEF AuthorityInv
  <1>6. CASE RenderLevel \/ (\E proxy \in Locations : RenderProxyLevel(proxy)) \/ UNCHANGED vars
    <2>1. UNCHANGED <<pending, teleport_id_incr, issuing, body, trail, down, up>>
      BY <1>6 DEF RenderLevel, RenderProxyLevel, vars, ownerVars, clientVars
    <2>2. ReportsTrail' /\ OnTrail' /\ Known' = Known /\ Orders' = Orders
      BY <1>0, <2>1, ReportsTrailKept DEF OnTrail, Known, Orders
    <2>3. QED BY <1>1, <1>2, <2>1, <2>2 DEF AuthorityInv, Authority!vars
  <1>7. CASE ClientTeleport
    BY <1>0, <1>1, <1>2, <1>7, ReportsTrailTeleport, ClientTeleportObeys DEF AuthorityInv, Authority!Next
  <1>8. CASE ClientMove
    BY <1>0, <1>1, <1>2, <1>8, ReportsTrailMove, ClientMoveWalks DEF AuthorityInv, Authority!Next
  <1>9. QED BY <1>3, <1>4, <1>5, <1>6, <1>7, <1>8 DEF Next

\* The shared location goes along the client's own way, from the target of the
\* latest teleport on, in the order the client went it: initial states and
\* every step of the two tasks, the owner and the client map to those of
\* PositionAuthority.
THEOREM PositionImplementsAuthority == Spec => ImplementsAuthority
  <1>1. QED BY AuthorityInit, AuthorityStep, PTL DEF Spec, ImplementsAuthority, Authority!Spec
=============================================================================
