------------------------- MODULE ChunkLoaderProofs -------------------------
(***************************************************************************)
(* Proofs about module ChunkLoader: its types, and what the client's       *)
(* chunks have to do with the ones the server takes for known.             *)
(***************************************************************************)
EXTENDS ChunkLoader, TLAPS

USE LoaderAssumption

-----------------------------------------------------------------------------
(* What a poll does, whatever its radius and batch.                        *)

\* A poll reads positions of its centre's radius only.
LEMMA InsertedChunks ==
    ASSUME NEW c \in Centres, NEW n \in 0 .. Len(Radial[c])
    PROVE  Inserted(c, n) \subseteq Chunks \ known_chunks
  BY DEF Inserted

\* The whole radius is known once its last chunk was considered.
LEMMA WholeRadius ==
    ASSUME NEW c \in Centres, NEW i \in 1 .. Len(Radial[c])
    PROVE  Radial[c][i] \in known_chunks \cup Inserted(c, Len(Radial[c]))
  BY DEF Inserted

\* A poll keeps the types of what it changes.
LEMMA PollTypes ==
    ASSUME TypeOK, NEW c \in Centres, PollRadius(c)
    PROVE  /\ known_chunks' \subseteq Chunks
           /\ pending_removals' \subseteq Chunks
           /\ holes' \subseteq Chunks
           /\ sees' \in [Chunks -> Levels \cup {"none", "empty"}]
           /\ chunk_poller_broke_early' \in BOOLEAN
           /\ centre' \in Centres
  <1>1. PICK n \in 0 .. Len(Radial[c]), early \in BOOLEAN :
            /\ known_chunks' = known_chunks \cup Inserted(c, n)
            /\ PollRemovals(c, n, early)
            /\ holes' = holes \cup (Inserted(c, n) \ stock[home])
            /\ chunk_poller_broke_early' = early
            /\ centre' = c
    BY DEF PollRadius
  <1>2. Inserted(c, n) \subseteq Chunks
    BY InsertedChunks
  <1>3. QED BY <1>1, <1>2 DEF TypeOK, PollRemovals

\* A poll keeps the client's chunks accounted for, the home level being the
\* one that is polled.
LEMMA PollAccounts ==
    ASSUME TypeOK, Accounted, NoOldLevel, NEW c \in Centres, PollRadius(c),
           home' = home, forgotten' = forgotten
    PROVE  Accounted' /\ NoOldLevel'
  <1>1. PICK n \in 0 .. Len(Radial[c]), early \in BOOLEAN :
            /\ known_chunks' = known_chunks \cup Inserted(c, n)
            /\ PollRemovals(c, n, early)
            /\ holes' = holes \cup (Inserted(c, n) \ stock[home])
    BY DEF PollRadius
  <1>2. Inserted(c, n) \subseteq Chunks \ known_chunks
    BY InsertedChunks
  <1> DEFINE left == pending_removals \ Sent(c, n)
  <1>3. /\ pending_removals' = IF early THEN left ELSE {}
        /\ \A k \in Chunks :
              sees'[k] = IF k \in Sent(c, n) THEN home
                         ELSE IF ~early /\ k \in left THEN "empty" ELSE sees[k]
    BY <1>1 DEF PollRemovals
  <1>4. Sent(c, n) \subseteq known_chunks' \ known_chunks
    BY <1>1, <1>2 DEF Sent
  <1>5. pending_removals' \subseteq left
    BY <1>3
  <1>6. (pending_removals \cap known_chunks \subseteq holes)'
    <2>1. SUFFICES ASSUME NEW k \in pending_removals', k \in known_chunks'
                   PROVE  k \in holes'
      OBVIOUS
    <2>2. k \in pending_removals /\ k \notin Sent(c, n)
      BY <1>5
    <2>3. CASE k \in known_chunks
      BY <1>1, <2>2, <2>3 DEF Accounted
    <2>4. CASE k \in Inserted(c, n)
      BY <1>1, <2>2, <2>4 DEF Sent
    <2>5. QED BY <1>1, <2>1, <2>3, <2>4
  <1>7. ASSUME NEW k \in Chunks
        PROVE  /\ sees'[k] \in Levels => k \in (known_chunks \cup pending_removals \cup forgotten)'
               /\ k \in known_chunks' \ holes' => sees'[k] = home'
               /\ sees'[k] \in Levels \ {home'} => k \in (pending_removals \cup forgotten)'
    <2>1. CASE k \in Sent(c, n)
      BY <1>3, <1>4, <2>1
    <2>2. CASE k \notin Sent(c, n) /\ ~early /\ k \in left
      <3>1. sees'[k] = "empty"
        BY <1>3, <2>2
      <3>2. k \in known_chunks' => k \in holes'
        <4>1. CASE k \in known_chunks
          BY <1>1, <2>2, <4>1 DEF Accounted
        <4>2. CASE k \in Inserted(c, n)
          BY <1>1, <2>2, <4>2 DEF Sent
        <4>3. QED BY <1>1, <4>1, <4>2
      <3>3. QED BY <3>1, <3>2
    <2>3. CASE k \notin Sent(c, n) /\ ~(~early /\ k \in left)
      <3>1. sees'[k] = sees[k]
        BY <1>3, <2>3
      <3>2. k \in pending_removals => k \in pending_removals'
        BY <1>3, <2>3
      <3>3. k \in known_chunks' \ holes' => k \in known_chunks \ holes
        BY <1>1, <2>3 DEF Sent
      <3>4. QED BY <1>1, <3>1, <3>2, <3>3 DEF Accounted, NoOldLevel
    <2>4. QED BY <2>1, <2>2, <2>3
  <1>8. QED BY <1>6, <1>7 DEF Accounted, NoOldLevel

\* A poll that comes to its end leaves nothing around its centre unknown and
\* nothing to remove.
LEMMA PollSendsAll ==
    ASSUME NEW c \in Centres, PollRadius(c)
    PROVE  SentAll'
  <1>1. PICK n \in 0 .. Len(Radial[c]), early \in BOOLEAN :
            /\ StopsAt(c, n, early)
            /\ known_chunks' = known_chunks \cup Inserted(c, n)
            /\ PollRemovals(c, n, early)
            /\ chunk_poller_broke_early' = early
            /\ centre' = c
    BY DEF PollRadius
  <1>2. CASE early
    BY <1>1, <1>2 DEF SentAll
  <1>3. CASE ~early
    <2>1. n = Len(Radial[c]) /\ pending_removals' = {}
      BY <1>1, <1>3 DEF StopsAt, PollRemovals
    <2>2. \A i \in 1 .. Len(Radial[c]) : Radial[c][i] \in known_chunks'
      BY <1>1, <2>1, WholeRadius
    <2>3. QED BY <1>1, <2>1, <2>2 DEF SentAll, KnowsChunk
  <1>4. QED BY <1>2, <1>3

-----------------------------------------------------------------------------
(* The inductive invariant.                                                *)

\* Nothing is known and nothing is seen at first.
LEMMA LoaderInit == Init => LoaderInv
  <1> SUFFICES ASSUME Init PROVE LoaderInv
    OBVIOUS
  <1>1. TypeOK
    <2>1. sees \in [Chunks -> Levels \cup {"none", "empty"}]
      BY DEF Init
    <2>2. stock \in [Levels -> SUBSET Chunks] /\ clears \in 0 .. MaxClears
      BY DEF Init
    <2>3. here \in Centres /\ there \in Centres /\ centre \in Centres \cup {NoCentre}
      BY DEF Init
    <2>4. QED BY <2>1, <2>2, <2>3 DEF Init, TypeOK
  <1>2. \A k \in Chunks : sees[k] = "none"
    BY DEF Init
  <1>3. Accounted /\ NoOldLevel
    BY <1>2 DEF Init, Accounted, NoOldLevel
  <1>4. SentAll
    BY DEF Init, SentAll
  <1>5. QED BY <1>1, <1>3, <1>4 DEF LoaderInv

\* Every step keeps what is known, removed and seen accounted for.
LEMMA LoaderStep == LoaderInv /\ [Next]_vars => LoaderInv'
  <1> SUFFICES ASSUME LoaderInv, [Next]_vars PROVE LoaderInv'
    OBVIOUS
  <1> USE DEF LoaderInv
  <1>1. CASE RenderLevel
    <2>1. here' \in Centres
      BY <1>1 DEF RenderLevel, UpdateLocation, TypeOK
    <2>2. CASE PollRadius(here')
      <3>1. TypeOK'
        BY <1>1, <2>1, <2>2, PollTypes DEF RenderLevel, TypeOK
      <3>2. Accounted' /\ NoOldLevel'
        BY <1>1, <2>1, <2>2, PollAccounts DEF RenderLevel
      <3>3. QED BY <2>1, <2>2, <3>1, <3>2, PollSendsAll
    <2>3. CASE UNCHANGED <<chunkVars, chunk_poller_broke_early, centre>>
      BY <1>1, <2>1, <2>3
      DEF RenderLevel, chunkVars, TypeOK, Accounted, NoOldLevel, SentAll, KnowsChunk
    <2>4. QED BY <1>1, <2>2, <2>3 DEF RenderLevel
  <1>2. ASSUME NEW proxy \in Centres, RenderProxyLevel(proxy) PROVE LoaderInv'
    <2>1. TypeOK'
      BY <1>2, PollTypes DEF RenderProxyLevel, UpdateLocation, TypeOK
    <2>2. Accounted' /\ NoOldLevel'
      BY <1>2, PollAccounts DEF RenderProxyLevel
    <2>3. QED BY <1>2, <2>1, <2>2, PollSendsAll DEF RenderProxyLevel
  <1>3. ASSUME NEW level \in Levels, ClearLevel(level) PROVE LoaderInv'
    <2>1. TypeOK'
      BY <1>3 DEF ClearLevel, SoftClear, placeVars, TypeOK
    <2>2. ASSUME NEW k \in Chunks, sees[k] \in Levels
          PROVE  k \in pending_removals' \cup forgotten'
      BY <1>3, <2>2 DEF ClearLevel, SoftClear, Accounted
    <2>3. Accounted' /\ NoOldLevel'
      BY <1>3, <2>2 DEF ClearLevel, SoftClear, Accounted, NoOldLevel
    <2>4. SentAll'
      BY <1>3 DEF ClearLevel, SentAll
    <2>5. QED BY <2>1, <2>3, <2>4
  <1>4. ASSUME NEW to \in Centres, NEW pause \in BOOLEAN, Teleport(to, pause) PROVE LoaderInv'
    BY <1>4 DEF Teleport, chunkVars, TypeOK, Accounted, NoOldLevel, SentAll, KnowsChunk
  <1>5. ASSUME NEW level \in Levels, NEW k \in Chunks, LevelGains(level, k) PROVE LoaderInv'
    BY <1>5 DEF LevelGains, chunkVars, placeVars, TypeOK, Accounted, NoOldLevel, SentAll, KnowsChunk
  <1>6. ASSUME NEW to \in Centres, Move(to) PROVE LoaderInv'
    BY <1>6 DEF Move, chunkVars, TypeOK, Accounted, NoOldLevel, SentAll, KnowsChunk
  <1>7. CASE UNCHANGED vars
    BY <1>7 DEF vars, chunkVars, placeVars, TypeOK, Accounted, NoOldLevel, SentAll, KnowsChunk
  <1>8. QED BY <1>1, <1>2, <1>3, <1>4, <1>5, <1>6, <1>7 DEF Next

\* The inductive invariant holds in every reachable state.
LEMMA LoaderInvariant == Spec => []LoaderInv
  BY LoaderInit, LoaderStep, PTL DEF Spec

-----------------------------------------------------------------------------
(* The results.                                                            *)

\* Every value of the variables has its type.
THEOREM LoaderTypes == Spec => []TypeOK
  <1>1. LoaderInv => TypeOK
    BY DEF LoaderInv
  <1>2. QED BY <1>1, LoaderInvariant, PTL

\* Block updates that validate_positions lets through are for chunks of the
\* current level that the client has, holes excepted.
THEOREM LoaderUpdatesLand == Spec => []UpdatesLand
  <1>1. LoaderInv => UpdatesLand
    BY DEF LoaderInv, Accounted, UpdatesLand, ValidatePositions, KnowsChunk
  <1>2. QED BY <1>1, LoaderInvariant, PTL

\* No chunk of a level that was left stays at the client without being on the
\* list of removals, unless a second clear_level forgot it.
THEOREM LoaderNoOldLevel == Spec => []NoOldLevel
  <1>1. LoaderInv => NoOldLevel
    BY DEF LoaderInv
  <1>2. QED BY <1>1, LoaderInvariant, PTL

\* A poll that did not break off has left nothing around its centre unknown
\* and nothing to remove.
THEOREM LoaderSentAll == Spec => []SentAll
  <1>1. LoaderInv => SentAll
    BY DEF LoaderInv
  <1>2. QED BY <1>1, LoaderInvariant, PTL
=============================================================================
