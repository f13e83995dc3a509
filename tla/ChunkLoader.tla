---------------------------- MODULE ChunkLoader ----------------------------
(***************************************************************************)
(* Which chunks a client is sent (src/phase/play.rs).  A poll walks over   *)
(* the chunks around a place, nearest first, and sends those not known yet *)
(* until it has sent a batch; a poll that comes to the end also removes    *)
(* what is left of the level before, by sending empty chunks.              *)
(*                                                                         *)
(* The owner renders every tick, but a poll happens only when the player   *)
(* changed chunk or the poll before broke off.  Where the player is, in    *)
(* chunks, follows module PlayerPosition with everything forgotten but     *)
(* whether the shared position is loaded: it may be anywhere at any time.  *)
(*                                                                         *)
(* Packets reach the client in the order they were sent: sees is what it   *)
(* has once it has read them all.  holes, forgotten and centre are history *)
(* (centre is where the latest poll of the current level was).             *)
(***************************************************************************)
EXTENDS Integers, Sequences, FiniteSets

CONSTANTS
    Levels,       \* the owner's levels
    Chunks,       \* bound: positions of chunks in use
    Centres,      \* bound: chunks the player may be in, natural numbers here
    FirstStock,   \* level -> the chunks it has to begin with
    Radial,       \* radial_cache, moved to each centre: its chunks in order
    Batch,        \* chunks a poll sends before it breaks off (5 in the code)
    MaxClears     \* bound: calls of clear_level

ASSUME LoaderAssumption ==
    /\ Levels \cap {"none", "empty"} = {}
    /\ Centres \subseteq Nat
    /\ Radial \in [Centres -> Seq(Chunks)]
    /\ FirstStock \in [Levels -> SUBSET Chunks]
    /\ Batch \in Nat \ {0}
    /\ MaxClears \in Nat

VARIABLES
    home,          \* the level the owner renders
    stock,         \* level -> the chunks it has (external: CachedLevel)
    known_chunks,
    pending_removals,
    chunk_poller_broke_early,
    here,          \* chunk of ConnectedPlayer.position
    there,         \* chunk of the shared position
    is_loaded,     \* of the shared position
    sees,          \* chunk -> the level it shows at the client, "none" or "empty"
    centre,
    holes,         \* history: known, but the level had no such chunk
    forgotten,     \* history: removals dropped by a second soft_clear
    clears

chunkVars == <<known_chunks, pending_removals, sees, holes>>
placeVars == <<here, there, is_loaded>>
vars == <<home, stock, chunkVars, chunk_poller_broke_early, placeVars, centre, forgotten, clears>>

NoCentre == -1

TypeOK ==
    /\ home \in Levels
    /\ stock \in [Levels -> SUBSET Chunks]
    /\ known_chunks \subseteq Chunks
    /\ pending_removals \subseteq Chunks
    /\ chunk_poller_broke_early \in BOOLEAN
    /\ here \in Centres /\ there \in Centres
    /\ is_loaded \in BOOLEAN
    /\ sees \in [Chunks -> Levels \cup {"none", "empty"}]
    /\ centre \in Centres \cup {NoCentre}
    /\ holes \subseteq Chunks
    /\ forgotten \subseteq Chunks
    /\ clears \in 0 .. MaxClears

Init ==
    /\ home \in Levels /\ stock = FirstStock
    /\ known_chunks = {} /\ pending_removals = {}
    /\ chunk_poller_broke_early = FALSE
    /\ here \in Centres /\ there = here
    /\ is_loaded = FALSE
    /\ sees = [k \in Chunks |-> "none"]
    /\ centre = NoCentre
    /\ holes = {} /\ forgotten = {}
    /\ clears = 0

-----------------------------------------------------------------------------
(* Polling.                                                                *)

\* The first n chunks around c that are new to known_chunks.
Inserted(c, n) == {Radial[c][i] : i \in 1 .. n} \ known_chunks

\* Those of them the level has.
Sent(c, n) == Inserted(c, n) \cap stock[home]

StopsAtLate(c, n, early) ==                         \* faulty: a full batch counts as the end
    ~early /\ \/ Cardinality(Sent(c, n)) = Batch /\ Cardinality(Sent(c, n - 1)) = Batch - 1
              \/ n = Len(Radial[c]) /\ Cardinality(Sent(c, n)) < Batch

\* The poll comes to the end, or returns right after a full batch.
StopsAt(c, n, early) ==
    IF early THEN Cardinality(Sent(c, n)) = Batch /\ Cardinality(Sent(c, n - 1)) = Batch - 1
             ELSE n = Len(Radial[c]) /\ Cardinality(Sent(c, n)) < Batch

PollRemovalsStale(c, n, early) ==                   \* faulty: what is sent stays to be removed
    /\ pending_removals' = IF early THEN pending_removals ELSE {}
    /\ sees' = [k \in Chunks |->
                   IF ~early /\ k \in pending_removals THEN "empty"
                   ELSE IF k \in Sent(c, n) THEN home ELSE sees[k]]

\* A chunk that is sent is not to be removed any more; the others are, by an
\* empty chunk, when the poll comes to the end.
PollRemovals(c, n, early) ==
    LET left == pending_removals \ Sent(c, n) IN
    /\ pending_removals' = IF early THEN left ELSE {}
    /\ sees' = [k \in Chunks |->
                   IF k \in Sent(c, n) THEN home
                   ELSE IF ~early /\ k \in left THEN "empty" ELSE sees[k]]

PollRadiusAgain(c) ==                               \* faulty: nothing becomes known
    \E n \in 0 .. Len(Radial[c]), early \in BOOLEAN :
        /\ StopsAt(c, n, early)
        /\ PollRemovals(c, n, early)
        /\ chunk_poller_broke_early' = early
        /\ centre' = c
        /\ UNCHANGED <<known_chunks, holes>>

PollRadius(c) ==
    \E n \in 0 .. Len(Radial[c]), early \in BOOLEAN :
        /\ StopsAt(c, n, early)
        /\ known_chunks' = known_chunks \cup Inserted(c, n)
        /\ PollRemovals(c, n, early)
        /\ holes' = holes \cup (Inserted(c, n) \ stock[home])
        /\ chunk_poller_broke_early' = early
        /\ centre' = c

-----------------------------------------------------------------------------
(* The owner.                                                              *)

\* update_location, in chunks; its result is ChunkChanged.
ChunkChanged == ~is_loaded \/ here # there
UpdateLocation == here' = IF is_loaded THEN there ELSE here

RenderLevel ==
    /\ UpdateLocation
    /\ IF ChunkChanged \/ chunk_poller_broke_early
       THEN PollRadius(here')
       ELSE UNCHANGED <<chunkVars, chunk_poller_broke_early, centre>>
    /\ UNCHANGED <<home, stock, there, is_loaded, forgotten, clears>>

RenderProxyLevel(proxy) ==
    /\ UpdateLocation
    /\ PollRadius(proxy)
    /\ UNCHANGED <<home, stock, there, is_loaded, forgotten, clears>>

SoftClearBoth ==                                    \* faulty: cleared after the swap
    /\ known_chunks' = {} /\ pending_removals' = {}
    /\ forgotten' = (forgotten \cup pending_removals) \ known_chunks
    /\ holes' = {}

\* What is known becomes what is to be removed; what was to be removed before
\* is forgotten.
SoftClear ==
    /\ known_chunks' = {}
    /\ pending_removals' = known_chunks
    /\ forgotten' = (forgotten \cup pending_removals) \ known_chunks
    /\ holes' = {}

\* clear_level, and the level that is rendered from then on.
ClearLevel(level) ==
    /\ clears < MaxClears
    /\ clears' = clears + 1
    /\ SoftClear
    /\ home' = level
    /\ centre' = NoCentre
    /\ UNCHANGED <<stock, chunk_poller_broke_early, placeVars, sees>>

Teleport(to, pause) ==
    /\ here' = to
    /\ is_loaded' = (is_loaded /\ ~pause)
    /\ UNCHANGED <<home, stock, chunkVars, chunk_poller_broke_early, there, centre, forgotten, clears>>

\* A level gets a chunk it did not have.
LevelGains(level, k) ==
    /\ k \notin stock[level]
    /\ stock' = [stock EXCEPT ![level] = @ \cup {k}]
    /\ UNCHANGED <<home, chunkVars, chunk_poller_broke_early, placeVars, centre, forgotten, clears>>

\* The read task: the client confirmed a teleport, or has moved.
Move(to) ==
    /\ there' = to
    /\ is_loaded' = TRUE
    /\ UNCHANGED <<home, stock, chunkVars, chunk_poller_broke_early, here, centre, forgotten, clears>>

Next ==
    \/ RenderLevel
    \/ \E proxy \in Centres : RenderProxyLevel(proxy)
    \/ \E level \in Levels : ClearLevel(level)
    \/ \E to \in Centres, pause \in BOOLEAN : Teleport(to, pause)
    \/ \E level \in Levels, k \in Chunks : LevelGains(level, k)
    \/ \E to \in Centres : Move(to)

\* The owner renders the level tick after tick.
Spec == Init /\ [][Next]_vars /\ WF_vars(RenderLevel)

-----------------------------------------------------------------------------
(* Properties.                                                             *)

\* knows_chunk, and LevelMediator.validate_positions for a set of sections.
KnowsChunk(k) == k \in known_chunks
ValidatePositions(sections) == \A k \in sections : KnowsChunk(k)

\* Block updates that validate_positions lets through are for chunks that the
\* client has, and has from the level it is in, however polls broke off and
\* levels changed; but for chunks the level did not have when they were polled.
UpdatesLand ==
    \A sections \in SUBSET (Chunks \ holes) :
        ValidatePositions(sections) => \A k \in sections : sees[k] = home

\* A chunk of another level that the client still shows is going to be removed
\* at the end of a poll, or was forgotten: clear_level twice before a poll has
\* come to its end.
NoOldLevel ==
    \A k \in Chunks :
        sees[k] \in Levels \ {home} => k \in pending_removals \cup forgotten

\* When a poll of the current level has not broken off, everything around the
\* place it was for is known, and nothing is left to remove.
SentAll ==
    (~chunk_poller_broke_early /\ centre # NoCentre)
        => /\ \A i \in 1 .. Len(Radial[centre]) : KnowsChunk(Radial[centre][i])
           /\ pending_removals = {}

\* Polls do not break off for ever, wherever the player goes.
Completes == <>[]~chunk_poller_broke_early

\* A removal that is known as well is a hole, and every chunk that shows a
\* level is known, to be removed or forgotten.
Accounted ==
    /\ pending_removals \cap known_chunks \subseteq holes
    /\ \A k \in Chunks :
          /\ sees[k] \in Levels => k \in known_chunks \cup pending_removals \cup forgotten
          /\ k \in known_chunks \ holes => sees[k] = home

\* The inductive invariant behind UpdatesLand, NoOldLevel and SentAll.
LoaderInv == TypeOK /\ Accounted /\ NoOldLevel /\ SentAll
=============================================================================
