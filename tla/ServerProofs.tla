---------------------------- MODULE ServerProofs ----------------------------
(***************************************************************************)
(* Proofs about the server, modules Server and ProxyHeader: the types, the *)
(* count of the players and their entity ids, for any finite set of        *)
(* connections; and that whatever a proxy sends before a handshake is      *)
(* accepted only as a whole line, right wherever the parser looks, and not *)
(* read beyond it; and that a header the protocol describes is refused     *)
(* only for a port 0 or if the stream breaks off inside it.                *)
(***************************************************************************)
EXTENDS Server, ProxyHeader, FiniteSetTheorems, TLAPS

-----------------------------------------------------------------------------
(* Counting connections.                                                   *)

\* Every set of connections has a size.
LEMMA SizeInNat == ASSUME NEW S \in SUBSET Conns PROVE Cardinality(S) \in Nat
  <1>1. IsFiniteSet(S)
    BY ServerAssumption, FS_Subset
  <1>2. QED BY <1>1, FS_CardinalityType

\* A connection that joins a set adds one to its size.
LEMMA SizeJoin ==
    ASSUME NEW S \in SUBSET Conns, NEW c \in Conns, c \notin S
    PROVE  Cardinality(S \cup {c}) = Cardinality(S) + 1
  <1>1. IsFiniteSet(S)
    BY ServerAssumption, FS_Subset
  <1>2. QED BY <1>1, FS_AddElement

\* A connection that leaves a set takes one from its size.
LEMMA SizeLeave ==
    ASSUME NEW S \in SUBSET Conns, NEW c \in S
    PROVE  Cardinality(S \ {c}) = Cardinality(S) - 1
  <1>1. IsFiniteSet(S)
    BY ServerAssumption, FS_Subset
  <1>2. QED BY <1>1, FS_RemoveElement

\* The stages of players on their way into the play phase.
EnteringStages == {"named", "bootstrap", "acceptor"}

\* A task that goes from one of those stages to another, or from outside to
\* outside, leaves the set of them as it is.
LEMMA EnteringKept ==
    ASSUME TypeOK, NEW c \in Conns, NEW to, Goto(c, to),
           stage[c] \in EnteringStages <=> to \in EnteringStages
    PROVE  Entering' = Entering
  BY DEF TypeOK, Goto, Entering, EnteringStages

\* A task that goes from outside to inside joins the set.
LEMMA EnteringJoined ==
    ASSUME TypeOK, NEW c \in Conns, NEW to \in EnteringStages, Goto(c, to),
           stage[c] \notin EnteringStages
    PROVE  Entering' = Entering \cup {c} /\ c \notin Entering
  BY DEF TypeOK, Goto, Entering, EnteringStages

\* A task that goes from inside to outside leaves it.
LEMMA EnteringLeft ==
    ASSUME TypeOK, NEW c \in Conns, NEW to, to \notin EnteringStages, Goto(c, to),
           stage[c] \in EnteringStages
    PROVE  Entering' = Entering \ {c} /\ c \in Entering
  BY DEF TypeOK, Goto, Entering, EnteringStages

\* The stages of a task that has not counted its player.
Uncounted ==
    {"proxy", "handshake", "request", "ping", "hello", "key", "response", "pong", "challenge",
     "building", "auth", "gone"}

\* Reading, writing and waiting there lead there, and change nothing else.
Moves(c) == Receive(c) \/ Reject(c) \/ EndOfStream(c) \/ Built(c) \/ Refused(c)

LEMMA MoveFacts ==
    ASSUME NEW c, Moves(c) \/ ((Write(c) \/ WriteFails(c)) /\ stage[c] # "bootstrap")
    PROVE  /\ stage[c] \in Uncounted \ {"gone"}
           /\ \E to \in Uncounted : Goto(c, to)
           /\ UNCHANGED <<server, reading, counters, hungup, leaked>>
  <1>1. CASE Receive(c)
    <2>1. stage[c] \in Listens /\ UNCHANGED <<server, reading, counters, hungup, leaked>>
      BY <1>1 DEF Receive
    <2>2. \A from \in Listens : Received[from] \subseteq Uncounted
      BY DEF Received, Listens, Uncounted
    <2>3. \E to \in Uncounted : Goto(c, to)
      BY <1>1, <2>1, <2>2 DEF Receive
    <2>4. QED BY <2>1, <2>3 DEF Listens, Uncounted
  <1>2. CASE Reject(c) \/ EndOfStream(c)
    BY <1>2 DEF Reject, EndOfStream, Listens, Uncounted
  <1>3. CASE Built(c) \/ Refused(c)
    BY <1>3 DEF Built, Refused, Uncounted
  <1>4. CASE Write(c) /\ stage[c] # "bootstrap"
    <2>1. /\ stage[c] \in Answers \ {"bootstrap"} /\ Goto(c, Written[stage[c]])
          /\ UNCHANGED <<server, reading, counters, hungup, leaked>>
      BY <1>4 DEF Write
    <2>2. \A from \in Answers \ {"bootstrap"} : Written[from] \in Uncounted
      BY DEF Written, Answers, Uncounted
    <2>3. QED BY <2>1, <2>2 DEF Answers, Uncounted
  <1>5. CASE WriteFails(c) /\ stage[c] # "bootstrap"
    BY <1>5 DEF WriteFails, Answers, Uncounted
  <1>6. QED BY <1>1, <1>2, <1>3, <1>4, <1>5 DEF Moves

\* The end of bootstrap_client: the acceptor, or nothing but a count.
LEMMA BootstrapFacts ==
    ASSUME NEW c, Write(c) \/ WriteFails(c) \/ BootstrapPanics(c), stage[c] = "bootstrap"
    PROVE  \/ Goto(c, "acceptor") /\ UNCHANGED <<server, reading, counters, hungup, leaked>>
           \/ Leak(c)
  BY DEF Write, WriteFails, BootstrapPanics, Written

-----------------------------------------------------------------------------
(* Types, and who is in which set.                                         *)

\* The part of the invariant that does not count: the count is an integer
\* here, and that it is not negative follows from what it counts.
Places ==
    /\ listening \in BOOLEAN /\ compresses \in BOOLEAN
    /\ stage \in [Conns -> Stages]
    /\ reading \subseteq Conns /\ hungup \subseteq Conns /\ leaked \subseteq Conns
    /\ entity_count_locker \in Nat
    /\ entity_id \in [Conns -> Nat \cup {NoId}]
    /\ Apart /\ IdsBelow

\* A step that only moves tasks keeps the places.
LEMMA PlacesStep == ServerInv /\ [Next]_vars => Places'
  <1> SUFFICES ASSUME ServerInv, [Next]_vars PROVE Places'
    OBVIOUS
  <1> USE DEF ServerInv, TypeOK, Places, Apart, IdsBelow, counters, server, NoId
  <1> USE DEF Stages, Listens, Answers, Elsewhere
  <1>1. CASE AcceptError
    BY <1>1 DEF AcceptError
  <1>2. ASSUME NEW c \in Conns, Accept(c) PROVE Places'
    BY <1>2 DEF Accept, Goto
  <1>3. ASSUME NEW c \in Conns, NEW to \in Uncounted, Goto(c, to), stage[c] \in Uncounted \ {"gone"},
               UNCHANGED <<server, reading, counters, hungup, leaked>>
        PROVE  Places'
    BY <1>3 DEF Goto, Uncounted
  <1>4. ASSUME NEW c \in Conns, stage[c] \in {"bootstrap", "acceptor"}, Leak(c) PROVE Places'
    BY <1>4 DEF Leak, Goto
  <1>5. ASSUME NEW c \in Conns, Write(c) \/ WriteFails(c) \/ BootstrapPanics(c),
               stage[c] = "bootstrap"
        PROVE  Places'
    <2>1. CASE Goto(c, "acceptor") /\ UNCHANGED <<server, reading, counters, hungup, leaked>>
      BY <1>5, <2>1 DEF Goto
    <2>2. QED BY <1>4, <1>5, <2>1, BootstrapFacts
  <1>6. ASSUME NEW c \in Conns, Moves(c) \/ Write(c) \/ WriteFails(c) \/ BootstrapPanics(c)
        PROVE  Places'
    <2>1. CASE stage[c] = "bootstrap"
      <3>1. ~Moves(c)
        <4>1. ~(stage[c] \in Uncounted)
          BY <2>1 DEF Uncounted
        <4>2. QED BY <4>1, MoveFacts
      <3>2. QED BY <1>5, <1>6, <2>1, <3>1
    <2>2. CASE stage[c] # "bootstrap"
      <3>1. ~BootstrapPanics(c)
        BY <2>2 DEF BootstrapPanics
      <3>2. QED BY <1>3, <1>6, <2>2, <3>1, MoveFacts
    <2>3. QED BY <2>1, <2>2
  <1>7. ASSUME NEW c \in Conns, TakeId(c) PROVE Places'
    BY <1>7 DEF TakeId, Goto
  <1>8. ASSUME NEW c \in Conns, Authenticated(c) PROVE Places'
    BY <1>8 DEF Authenticated, Goto
  <1>9. ASSUME NEW c \in Conns, KeepAlive(c) PROVE Places'
    BY <1>9 DEF KeepAlive, Goto
  <1>10. ASSUME NEW c \in Conns, AcceptorQuits(c) PROVE Places'
    BY <1>4, <1>10 DEF AcceptorQuits
  <1>11. ASSUME NEW c \in Conns, AcceptorEnds(c) PROVE Places'
    BY <1>11 DEF AcceptorEnds, Goto
  <1>12. ASSUME NEW c \in Conns, ReaderStops(c) PROVE Places'
    BY <1>12 DEF ReaderStops
  <1>13. ASSUME NEW c \in Conns, HangUp(c) PROVE Places'
    BY <1>13 DEF HangUp
  <1>14. CASE UNCHANGED vars
    BY <1>14 DEF vars
  <1>15. QED
    BY <1>1, <1>2, <1>6, <1>7, <1>8, <1>9, <1>10, <1>11, <1>12, <1>13, <1>14 DEF Next, Moves

-----------------------------------------------------------------------------
(* The count.                                                              *)

\* A step keeps the count what it counts.
LEMMA CountStep == ServerInv /\ [Next]_vars => CountExact'
  <1> SUFFICES ASSUME ServerInv, [Next]_vars PROVE CountExact'
    OBVIOUS
  <1>1. TypeOK /\ CountExact /\ Apart
    BY DEF ServerInv
  <1>2. reading \in SUBSET Conns /\ leaked \in SUBSET Conns /\ Entering \in SUBSET Conns
    BY <1>1 DEF TypeOK, Entering
  <1>3. /\ Cardinality(reading) \in Nat /\ Cardinality(leaked) \in Nat
        /\ Cardinality(Entering) \in Nat
    BY <1>2, SizeInNat
  \* A task that moves about outside, or inside, the set of entering ones.
  <1>4. ASSUME NEW c \in Conns, NEW to, Goto(c, to),
               stage[c] \in EnteringStages <=> to \in EnteringStages,
               UNCHANGED <<client_count, reading, leaked>>
        PROVE  CountExact'
    BY <1>1, <1>4, EnteringKept DEF CountExact
  \* A counted one that ends before keep_alive.
  <1>5. ASSUME NEW c \in Conns, Goto(c, "gone"), stage[c] \in EnteringStages,
               leaked' = leaked \cup {c}, UNCHANGED <<client_count, reading>>
        PROVE  CountExact'
    <2>1. Entering' = Entering \ {c} /\ c \in Entering
      BY <1>1, <1>5, EnteringLeft DEF EnteringStages
    <2>2. c \notin leaked
      BY <1>1, <1>5 DEF Apart, EnteringStages
    <2>3. Cardinality(leaked') = Cardinality(leaked) + 1
      BY <1>2, <1>5, <2>2, SizeJoin
    <2>4. Cardinality(Entering') = Cardinality(Entering) - 1
      BY <1>2, <2>1, SizeLeave
    <2>5. QED BY <1>1, <1>3, <1>5, <2>3, <2>4 DEF CountExact
  <1>6. CASE AcceptError
    BY <1>1, <1>6 DEF AcceptError, counters, CountExact, Entering
  <1>7. ASSUME NEW c \in Conns, Accept(c) PROVE CountExact'
    BY <1>4, <1>7 DEF Accept, counters, EnteringStages
  <1>8. ASSUME NEW c \in Conns, Moves(c) \/ Write(c) \/ WriteFails(c) \/ BootstrapPanics(c),
               stage[c] # "bootstrap"
        PROVE  CountExact'
    <2>1. ~BootstrapPanics(c)
      BY <1>8 DEF BootstrapPanics
    <2>2. PICK to \in Uncounted :
             Goto(c, to) /\ stage[c] \in Uncounted /\ UNCHANGED <<client_count, reading, leaked>>
      BY <1>8, <2>1, MoveFacts DEF counters
    <2>3. stage[c] \notin EnteringStages /\ to \notin EnteringStages
      BY <2>2 DEF Uncounted, EnteringStages
    <2>4. QED BY <1>4, <2>2, <2>3
  <1>9. ASSUME NEW c \in Conns, TakeId(c) PROVE CountExact'
    BY <1>4, <1>9 DEF TakeId, EnteringStages
  <1>10. ASSUME NEW c \in Conns, Leak(c), stage[c] \in EnteringStages PROVE CountExact'
    BY <1>5, <1>10 DEF Leak, counters
  <1>11. ASSUME NEW c \in Conns, Moves(c) \/ Write(c) \/ WriteFails(c) \/ BootstrapPanics(c),
                stage[c] = "bootstrap"
         PROVE  CountExact'
    <2>1. ~(stage[c] \in Uncounted)
      BY <1>11 DEF Uncounted
    <2>2. Write(c) \/ WriteFails(c) \/ BootstrapPanics(c)
      BY <1>11, <2>1, MoveFacts
    <2>3. CASE Goto(c, "acceptor") /\ UNCHANGED <<server, reading, counters, hungup, leaked>>
      BY <1>4, <1>11, <2>3 DEF counters, EnteringStages
    <2>4. CASE Leak(c)
      BY <1>10, <1>11, <2>4 DEF EnteringStages
    <2>5. QED BY <1>11, <2>2, <2>3, <2>4, BootstrapFacts
  <1>12. ASSUME NEW c \in Conns, Authenticated(c) PROVE CountExact'
    <2>1. Entering' = Entering \cup {c} /\ c \notin Entering
      BY <1>1, <1>12, EnteringJoined DEF Authenticated, EnteringStages
    <2>2. Cardinality(Entering') = Cardinality(Entering) + 1
      BY <1>2, <2>1, SizeJoin
    <2>3. QED BY <1>1, <1>3, <1>12, <2>2 DEF Authenticated, CountExact
  <1>14. ASSUME NEW c \in Conns, KeepAlive(c) PROVE CountExact'
    <2>1. Entering' = Entering \ {c} /\ c \in Entering
      BY <1>1, <1>14, EnteringLeft DEF KeepAlive, EnteringStages
    <2>2. c \notin reading
      BY <1>1, <1>14 DEF KeepAlive, Apart
    <2>3. Cardinality(reading') = Cardinality(reading) + 1
      BY <1>2, <1>14, <2>2, SizeJoin DEF KeepAlive
    <2>4. Cardinality(Entering') = Cardinality(Entering) - 1
      BY <1>2, <2>1, SizeLeave
    <2>5. QED BY <1>1, <1>3, <1>14, <2>3, <2>4 DEF KeepAlive, counters, CountExact
  <1>15. ASSUME NEW c \in Conns, AcceptorQuits(c) PROVE CountExact'
    BY <1>10, <1>15 DEF AcceptorQuits, EnteringStages
  <1>16. ASSUME NEW c \in Conns, AcceptorEnds(c) PROVE CountExact'
    BY <1>4, <1>16 DEF AcceptorEnds, counters, EnteringStages
  <1>17. ASSUME NEW c \in Conns, ReaderStops(c) PROVE CountExact'
    <2>1. Cardinality(reading') = Cardinality(reading) - 1
      BY <1>2, <1>17, SizeLeave DEF ReaderStops
    <2>2. Entering' = Entering
      BY <1>17 DEF ReaderStops, Entering
    <2>3. QED BY <1>1, <1>3, <1>17, <2>1, <2>2 DEF ReaderStops, CountExact
  <1>18. ASSUME NEW c \in Conns, HangUp(c) PROVE CountExact'
    BY <1>1, <1>18 DEF HangUp, counters, CountExact, Entering
  <1>19. CASE UNCHANGED vars
    BY <1>1, <1>19 DEF vars, counters, CountExact, Entering
  <1>20. QED
    BY <1>6, <1>7, <1>8, <1>9, <1>11, <1>12, <1>14, <1>15, <1>16, <1>17, <1>18, <1>19
    DEF Next, Moves

-----------------------------------------------------------------------------
(* The ids.                                                                *)

\* An id that is handed out is above all that were.
LEMMA IdsStep == ServerInv /\ [Next]_vars => DistinctIds'
  <1> SUFFICES ASSUME ServerInv, [Next]_vars PROVE DistinctIds'
    OBVIOUS
  <1>1. ASSUME NEW c \in Conns, TakeId(c) PROVE DistinctIds'
    BY <1>1 DEF TakeId, ServerInv, TypeOK, DistinctIds, IdsBelow, NoId
  <1>2. CASE UNCHANGED entity_id
    BY <1>2 DEF ServerInv, DistinctIds
  <1>3. (\E c \in Conns : TakeId(c)) \/ UNCHANGED entity_id
    <2>1. \A c \in Conns : Moves(c) => UNCHANGED entity_id
      BY MoveFacts DEF counters
    <2>2. QED
      BY <2>1 DEF Next, Moves, AcceptError, Accept, Write, WriteFails, BootstrapPanics, Leak,
                  Authenticated, KeepAlive, AcceptorQuits, AcceptorEnds, ReaderStops, HangUp,
                  counters, vars
  <1>4. QED BY <1>1, <1>2, <1>3

-----------------------------------------------------------------------------
(* The inductive invariant.                                                *)

\* At first there is nobody.
LEMMA ServerInit == Init => ServerInv
  <1> SUFFICES ASSUME Init PROVE ServerInv
    OBVIOUS
  <1>1. TypeOK /\ Apart /\ DistinctIds /\ IdsBelow
    BY DEF Init, TypeOK, Apart, DistinctIds, IdsBelow, Stages, NoId
  <1>2. Entering = {} /\ reading = {} /\ leaked = {} /\ client_count = 0
    BY DEF Init, Entering
  <1>3. CountExact
    BY <1>2, FS_EmptySet DEF CountExact
  <1>4. QED BY <1>1, <1>3 DEF ServerInv

\* Every step keeps the invariant.
LEMMA ServerStep == ServerInv /\ [Next]_vars => ServerInv'
  <1> SUFFICES ASSUME ServerInv, [Next]_vars PROVE ServerInv'
    OBVIOUS
  <1>1. Places' /\ CountExact' /\ DistinctIds'
    BY PlacesStep, CountStep, IdsStep
  <1>2. (client_count \in Nat)'
    <2>1. (Cardinality(reading) \in Nat)' /\ (Cardinality(leaked) \in Nat)'
      BY <1>1, SizeInNat DEF Places
    <2>2. (Cardinality(Entering) \in Nat)'
      <3>1. Entering' \in SUBSET Conns
        BY DEF Entering
      <3>2. QED BY <3>1, SizeInNat
    <2>3. QED BY <1>1, <2>1, <2>2 DEF CountExact
  <1>3. QED BY <1>1, <1>2 DEF ServerInv, TypeOK, Places

\* The inductive invariant holds in every reachable state.
LEMMA ServerInvariant == Spec => []ServerInv
  BY ServerInit, ServerStep, PTL DEF Spec

-----------------------------------------------------------------------------
(* The results.                                                            *)

\* Every value of the variables has its type; the count never wraps below zero.
THEOREM ServerTypes == Spec => []TypeOK
  <1>1. ServerInv => TypeOK
    BY DEF ServerInv
  <1>2. QED BY <1>1, ServerInvariant, PTL

\* The count is that of players in play, on their way, or leaked.
THEOREM ServerCountExact == Spec => []CountExact
  <1>1. ServerInv => CountExact
    BY DEF ServerInv
  <1>2. QED BY <1>1, ServerInvariant, PTL

\* No two players have the same entity id.
THEOREM ServerDistinctIds == Spec => []DistinctIds
  <1>1. ServerInv => DistinctIds
    BY DEF ServerInv
  <1>2. QED BY <1>1, ServerInvariant, PTL

-----------------------------------------------------------------------------
(* The header of a proxy: where the parser is and what it has read.        *)

Text == {Bytes[i] : i \in Nat}

Proxy == Bytes[1] = "PROXY "
SaysT == Bytes[2] = "T"
SaysU == Bytes[2] = "U"

\* The first bytes tell TCP, over IPv4 or IPv6; or that the source is unknown.
Tcp ==
    /\ Proxy /\ SaysT
    /\ Bytes[5] = family /\ family \in {"4", "6"}
NotKnown == Proxy /\ SaysU

NoCR == cr = FALSE
Blank == fields = <<>> /\ reader = <<>> /\ NoCR

\* Text is what was read from the i-th byte on.
From(text, i) == text \in Seq(Text) /\ (Len(text) > 0 => text[1] = Bytes[i])

TellsCR == cr = (Bytes[consumed] = "CR")

\* No line has ended among the first n bytes.
NoLine(n) == \A i \in 10..n : ~ (Bytes[i - 1] = "CR" /\ Bytes[i] = "LF")

\* The fields that were read, and the reader behind them; the addresses were
\* found right before the first port, and a blank after each.
RightAddresses ==
    /\ Bytes[7] \in Addresses(family) /\ Bytes[9] \in Addresses(family)
    /\ Bytes[8] = " " /\ Bytes[10] = " "

Blanked(i) == Bytes[i] = " "

Types == fields \in Seq(Seq(Text)) /\ reader \in Seq(Text)
One == Len(fields) = 1 /\ From(fields[1], 7) /\ Blanked(7 + Len(fields[1]))
Two ==
    /\ Len(fields) = 2 /\ Len(fields[1]) = 1 /\ fields[1][1] = Bytes[7]
    /\ RightAddresses
Three ==
    /\ Len(fields) = 3 /\ Len(fields[1]) = 1 /\ fields[1][1] = Bytes[7]
    /\ RightAddresses /\ From(fields[3], 11) /\ Blanked(11 + Len(fields[3]))

InSource == Len(fields) = 0 /\ From(reader, 7) /\ consumed = 6 + Len(reader)
InDestination ==
    One /\ From(reader, 8 + Len(fields[1])) /\ consumed = 7 + Len(fields[1]) + Len(reader)
InSourcePort == Two /\ From(reader, 11) /\ consumed = 10 + Len(reader)
InDestinationPort ==
    Three /\ From(reader, 12 + Len(fields[3])) /\ consumed = 11 + Len(fields[3]) + Len(reader)

InField == Types /\ (InSource \/ InDestination \/ InSourcePort \/ InDestinationPort)

AllRight ==
    /\ Tcp
    /\ RightAddresses
    /\ Bytes[11] \in TakenPorts /\ Bytes[13] \in TakenPorts
    /\ Bytes[12] = " " /\ Bytes[14] = "CR"

\* Where the parser is, and what it has seen until then.
AtMagic == at = "magic" /\ skip = 0 /\ consumed = 0 /\ Blank
AtSecond == at \in {"second", "v2"} /\ skip = 0
AtFamily == at = "family" /\ skip = 0 /\ consumed = 1 /\ Blank /\ Proxy
AtVersion ==
    /\ at = "version" /\ skip \in Nat /\ consumed + skip = 4 /\ Blank
    /\ Proxy /\ SaysT
AtUnknown ==
    /\ at = "unknown" /\ NotKnown
    /\ \/ skip \in Nat \ {0} /\ consumed + skip = 8 /\ NoCR
       \/ skip = 0 /\ consumed = 8 /\ NoCR
       \/ skip = 0 /\ consumed > 8 /\ NoLine(consumed) /\ TellsCR
AtField ==
    /\ at = "field" /\ Tcp
    /\ \/ skip = 1 /\ consumed = 5 /\ fields = <<>> /\ reader = <<>>
       \/ skip = 0 /\ InField
AtExit ==
    /\ at = "exit" /\ skip = 0 /\ consumed = 14 /\ AllRight
    /\ fields[1][1] = Bytes[7] /\ fields[3][1] = Bytes[11]
AtEnd ==
    /\ at = "accepted"
    /\ \/ /\ AllRight /\ consumed = 15 /\ Bytes[15] = "LF"
          /\ addr = <<Bytes[7], Bytes[11]>>
       \/ /\ NotKnown /\ addr = Socket /\ consumed >= 10
          /\ Bytes[consumed - 1] = "CR" /\ Bytes[consumed] = "LF"
          /\ NoLine(consumed - 1)
Failed == at \in {"error", "panic"}

Where ==
    \/ AtMagic \/ AtSecond \/ AtFamily \/ AtVersion \/ AtUnknown \/ AtField \/ AtExit
    \/ AtEnd \/ Failed

\* Some header was sent, and something behind it.
Sent ==
    \E sent \in Known \cup Unknown \cup Foreign, rest \in Endings :
        input = [header |-> sent.header, source |-> sent.source, rest |-> rest]

HeaderInv == Sent /\ consumed \in Nat /\ Where

LEMMA HeaderStarts == ASSUME HeaderInit PROVE HeaderInv
  BY DEF HeaderInit, HeaderInv, Where, AtMagic, Blank, NoCR, Sent

\* What a step that leaves the input alone leaves alone, too.
LEMMA SentKept ==
    ASSUME Sent, UNCHANGED input
    PROVE  Bytes' = Bytes /\ Text' = Text /\ Sent'
  BY DEF Sent, Bytes, Text

LEMMA FirstBytesKept ==
    ASSUME Bytes' = Bytes
    PROVE  (NotKnown' <=> NotKnown) /\ (UNCHANGED family => (Tcp' <=> Tcp) /\ (AllRight' <=> AllRight))
           /\ (Proxy' <=> Proxy) /\ (SaysT' <=> SaysT) /\ (SaysU' <=> SaysU)
  BY DEF NotKnown, Tcp, AllRight, RightAddresses, Proxy, SaysT, SaysU, Addresses

LEMMA NoCRKept ==
    ASSUME UNCHANGED cr
    PROVE  /\ NoCR' <=> NoCR
           /\ UNCHANGED <<reader, fields>> => (Blank' <=> Blank)
  BY DEF NoCR, Blank

\* Who reads is in one place.
LEMMA Somewhere ==
    ASSUME Where
    PROVE  /\ at = "magic" => AtMagic
           /\ at \in {"second", "v2"} => AtSecond
           /\ at = "family" => AtFamily
           /\ at = "version" => AtVersion
           /\ at = "unknown" => AtUnknown
           /\ at = "field" => AtField
           /\ at = "exit" => AtExit
           /\ at = "accepted" => AtEnd
  BY DEF Where, AtMagic, AtSecond, AtFamily, AtVersion, AtUnknown, AtField, AtExit, AtEnd, Failed

LEMMA SkipStep == ASSUME HeaderInv, Skip PROVE HeaderInv'
<1>1. Bytes' = Bytes /\ Text' = Text /\ Sent'
  BY SentKept DEF HeaderInv, Skip, Consume
<1>0. (Proxy' <=> Proxy) /\ (SaysT' <=> SaysT) /\ (SaysU' <=> SaysU)
  BY <1>1, FirstBytesKept
<1>2. /\ consumed \in Nat /\ consumed' = consumed + 1 /\ skip > 0 /\ skip' = skip - 1
      /\ at \notin Over /\ UNCHANGED <<at, family, cr, reader, fields, addr>>
  BY DEF HeaderInv, Skip, Consume
<1>3. (NotKnown' <=> NotKnown) /\ (Tcp' <=> Tcp)
  BY <1>1, <1>2, FirstBytesKept
<1>4. CASE AtVersion
  <2>1. AtVersion'
    <3>1. Blank'
      BY <1>2, <1>4, NoCRKept DEF AtVersion
    <3>2. skip' \in Nat /\ consumed' + skip' = 4
      BY <1>2, <1>4 DEF AtVersion
    <3> QED
      BY <1>0, <1>2, <1>4, <3>1, <3>2 DEF AtVersion
  <2> QED
    BY <1>1, <1>2, <2>1 DEF HeaderInv, Where
<1>5. CASE AtUnknown
  <2>1. skip \in Nat \ {0} /\ consumed + skip = 8 /\ NoCR
    BY <1>2, <1>5 DEF AtUnknown
  <2>2. at' = "unknown" /\ NotKnown' /\ NoCR'
    BY <1>2, <1>3, <1>5, <2>1, NoCRKept DEF AtUnknown
  <2>3. \/ skip' = 0 /\ consumed' = 8
        \/ skip' \in Nat \ {0} /\ consumed' + skip' = 8
    BY <1>2, <2>1
  <2>4. AtUnknown'
    BY <2>2, <2>3 DEF AtUnknown
  <2> QED
    BY <1>1, <1>2, <2>4 DEF HeaderInv, Where
<1>6. CASE AtField
  <2>1. skip = 1 /\ consumed = 5 /\ fields = <<>> /\ reader = <<>>
    BY <1>2, <1>6 DEF AtField
  <2>2. /\ at' = "field" /\ Tcp' /\ skip' = 0 /\ consumed' = 6
        /\ fields' = <<>> /\ reader' = <<>>
    BY <1>2, <1>3, <1>6, <2>1 DEF AtField
  <2>3. InField'
    BY <2>2 DEF InField, Types, InSource, From
  <2> QED
    BY <1>1, <2>2, <2>3 DEF HeaderInv, Where, AtField
<1> QED
  <2>1. AtVersion \/ AtUnknown \/ AtField
    <3>1. at \notin {"accepted", "error", "panic"} /\ skip # 0
      BY <1>2 DEF Over
    <3> QED
      BY <3>1 DEF HeaderInv, Where, AtMagic, AtSecond, AtFamily, AtExit, AtEnd, Failed
  <2> QED
    BY <1>4, <1>5, <1>6, <2>1

LEMMA MagicStep == ASSUME HeaderInv, ReadMagic PROVE HeaderInv'
<1>1. Bytes' = Bytes /\ Text' = Text /\ Sent'
  BY SentKept DEF HeaderInv, ReadMagic, Reads, Consume
<1>0. (Proxy' <=> Proxy) /\ (SaysT' <=> SaysT) /\ (SaysU' <=> SaysU)
  BY <1>1, FirstBytesKept
<1>2. /\ consumed \in Nat /\ consumed' = consumed + 1 /\ skip = 0
      /\ UNCHANGED <<skip, family, cr, reader, fields, addr>>
  BY DEF HeaderInv, ReadMagic, Reads, Consume, parser
<1>3. CASE at = "magic"
  <2>1. AtMagic
    BY <1>3, Somewhere DEF HeaderInv
  <2>2. at' = IF Byte = "PROXY " THEN "family" ELSE "second"
    BY <1>3 DEF ReadMagic, Reads
  <2>3. consumed = 0 /\ consumed' = 1 /\ Blank'
    BY <1>2, <2>1, NoCRKept DEF AtMagic
  <2>0. Byte = "PROXY " <=> Proxy
    <3>1. consumed + 1 = 1
      BY <2>3
    <3> QED
      BY <3>1 DEF Byte, Proxy
  <2>4. CASE Proxy
    <3>1. AtFamily'
      BY <1>0, <1>2, <2>0, <2>2, <2>3, <2>4 DEF AtFamily
    <3> QED
      BY <1>1, <1>2, <3>1 DEF HeaderInv, Where
  <2>5. CASE ~ Proxy
    <3>1. AtSecond'
      BY <1>2, <2>0, <2>2, <2>5 DEF AtSecond
    <3> QED
      BY <1>1, <1>2, <3>1 DEF HeaderInv, Where
  <2> QED
    BY <2>4, <2>5
<1>4. CASE at' \in {"v2", "error"}
  <2>1. AtSecond' \/ Failed'
    BY <1>2, <1>4 DEF AtSecond, Failed
  <2> QED
    BY <1>1, <1>2, <2>1 DEF HeaderInv, Where
<1> QED
  BY <1>3, <1>4 DEF ReadMagic, Reads

LEMMA Version2Step == ASSUME HeaderInv, ReadVersion2 PROVE HeaderInv'
<1>1. Sent'
  BY SentKept DEF HeaderInv, ReadVersion2, Reads, Consume
<1>2. consumed' \in Nat /\ Failed'
  BY DEF HeaderInv, ReadVersion2, Reads, Consume, Failed
<1> QED
  BY <1>1, <1>2 DEF HeaderInv, Where

LEMMA FamilyStep == ASSUME HeaderInv, ReadFamily PROVE HeaderInv'
<1>1. Bytes' = Bytes /\ Text' = Text /\ Sent'
  BY SentKept DEF HeaderInv, ReadFamily, Reads, Consume
<1>0. (Proxy' <=> Proxy) /\ (SaysT' <=> SaysT) /\ (SaysU' <=> SaysU)
  BY <1>1, FirstBytesKept
<1>2. /\ consumed \in Nat /\ consumed' = consumed + 1 /\ skip = 0
      /\ UNCHANGED <<cr, reader, fields, addr>>
  BY DEF HeaderInv, ReadFamily, Reads, Consume
<1>3. CASE at = "family"
  <2>1. AtFamily
    BY <1>3, Somewhere DEF HeaderInv
  <2>2. consumed = 1 /\ consumed' = 2 /\ Blank' /\ Proxy'
    BY <1>0, <1>2, <2>1, NoCRKept DEF AtFamily
  <2>0. (SaysT <=> Byte = "T") /\ (SaysU <=> Byte = "U")
    <3>1. consumed + 1 = 2
      BY <2>2
    <3> QED
      BY <3>1 DEF Byte, SaysT, SaysU
  <2>3. CASE Byte = "T"
    <3>1. at' = "version" /\ skip' = 2
      BY <1>3, <2>3 DEF ReadFamily, Reads
    <3>2. SaysT'
      BY <1>0, <2>0, <2>3
    <3>3. consumed' + skip' = 4 /\ skip' \in Nat
      BY <2>2, <3>1
    <3>4. AtVersion'
      BY <2>2, <3>1, <3>2, <3>3 DEF AtVersion
    <3> QED
      BY <1>1, <2>2, <3>4 DEF HeaderInv, Where
  <2>4. CASE Byte = "U"
    <3>1. at' = "unknown" /\ skip' = 6
      BY <1>3, <2>4 DEF ReadFamily, Reads
    <3>2. SaysU'
      BY <1>0, <2>0, <2>4
    <3>3. consumed' + skip' = 8 /\ skip' \in Nat \ {0} /\ NoCR'
      BY <2>2, <3>1 DEF Blank
    <3>4. AtUnknown'
      BY <2>2, <3>1, <3>2, <3>3 DEF AtUnknown, NotKnown
    <3> QED
      BY <1>1, <2>2, <3>4 DEF HeaderInv, Where
  <2>5. CASE Byte \notin {"T", "U"}
    <3>1. Failed'
      BY <1>3, <2>5 DEF ReadFamily, Reads, Failed
    <3> QED
      BY <1>1, <1>2, <3>1 DEF HeaderInv, Where
  <2> QED
    BY <2>3, <2>4, <2>5
<1>4. CASE at = "version"
  <2>1. AtVersion
    BY <1>4, Somewhere DEF HeaderInv
  <2>2. consumed = 4 /\ consumed' = 5 /\ Blank'
    BY <1>2, <2>1, NoCRKept DEF AtVersion
  <2>0. Byte = Bytes[5]
    <3>1. consumed + 1 = 5
      BY <2>2
    <3> QED
      BY <3>1 DEF Byte
  <2>3. CASE Byte \in {"4", "6"}
    <3>1. at' = "field" /\ family' = Byte /\ skip' = 1
      BY <1>1, <1>4, <2>0, <2>3 DEF ReadFamily, Reads
    <3>2. Tcp'
      BY <1>0, <1>1, <2>0, <2>1, <2>3, <3>1 DEF Tcp, AtVersion
    <3>3. AtField'
      BY <2>2, <3>1, <3>2 DEF AtField, Blank
    <3> QED
      BY <1>1, <2>2, <3>3 DEF HeaderInv, Where
  <2>4. CASE Byte \notin {"4", "6"}
    <3>1. Failed'
      BY <1>4, <2>4 DEF ReadFamily, Reads, Failed
    <3> QED
      BY <1>1, <1>2, <3>1 DEF HeaderInv, Where
  <2> QED
    BY <2>3, <2>4
<1> QED
  BY <1>3, <1>4 DEF ReadFamily, Reads

LEMMA UnknownStep == ASSUME HeaderInv, ReadUnknown PROVE HeaderInv'
<1>1. Bytes' = Bytes /\ Text' = Text /\ Sent'
  BY SentKept DEF HeaderInv, ReadUnknown, Reads, Consume
<1>2. /\ consumed \in Nat /\ consumed' = consumed + 1 /\ at = "unknown" /\ skip = 0
      /\ UNCHANGED <<skip, family, reader, fields>>
  BY DEF HeaderInv, ReadUnknown, Reads, Consume
<1>3. AtUnknown
  BY <1>2, Somewhere DEF HeaderInv
<1>4. NotKnown' /\ consumed >= 8 /\ NoLine(consumed)
  BY <1>1, <1>2, <1>3, FirstBytesKept DEF AtUnknown, NoLine
<1>5. CASE cr /\ Byte = "LF"
  <2>1. at' = "accepted" /\ addr' = Socket
    BY <1>5 DEF ReadUnknown, AcceptFrom
  <2>2. consumed > 8 /\ Bytes[consumed] = "CR"
    <3>1. ~ NoCR
      BY <1>5 DEF NoCR
    <3>2. skip = 0 /\ consumed > 8 /\ TellsCR
      BY <1>2, <1>3, <3>1 DEF AtUnknown
    <3> QED
      BY <1>5, <3>2 DEF TellsCR
  <2>3. consumed' >= 10 /\ consumed' - 1 = consumed
    BY <1>2, <2>2
  <2>4. Bytes'[consumed' - 1] = "CR" /\ Bytes'[consumed'] = "LF"
    BY <1>1, <1>2, <1>5, <2>2, <2>3 DEF Byte
  <2>5. NoLine(consumed - 1)'
    BY <1>1, <1>4, <2>3 DEF NoLine
  <2>6. AtEnd'
    BY <1>4, <2>1, <2>3, <2>4, <2>5 DEF AtEnd
  <2> QED
    BY <1>1, <1>2, <2>6 DEF HeaderInv, Where
<1>6. CASE ~ (cr /\ Byte = "LF")
  <2>1. cr' = (Byte = "CR") /\ UNCHANGED <<at, addr>>
    BY <1>6 DEF ReadUnknown, AfterCR
  <2>2. TellsCR'
    BY <1>1, <1>2, <2>1 DEF Byte, TellsCR
  <2>3. NoLine(consumed)'
    <3>1. ASSUME NEW i \in 10..consumed + 1
          PROVE  ~ (Bytes[i - 1] = "CR" /\ Bytes[i] = "LF")
      <4>1. CASE i <= consumed
        BY <1>2, <1>4, <3>1, <4>1 DEF NoLine
      <4>2. CASE i = consumed + 1
        <5>1. i - 1 = consumed /\ consumed > 8
          BY <1>2, <3>1, <4>2
        <5>2. skip = 0 /\ TellsCR
          BY <1>2, <1>3, <5>1 DEF AtUnknown
        <5>3. Bytes[consumed] = "CR" => cr
          BY <5>2 DEF TellsCR
        <5>4. Byte = Bytes[i]
          BY <4>2 DEF Byte
        <5> QED
          BY <1>6, <5>1, <5>3, <5>4
      <4> QED
        BY <1>2, <4>1, <4>2
    <3> QED
      BY <1>1, <1>2, <3>1 DEF NoLine
  <2>4. at' = "unknown" /\ skip' = 0 /\ consumed' > 8
    BY <1>2, <1>4, <2>1
  <2>5. AtUnknown'
    BY <1>4, <2>2, <2>3, <2>4 DEF AtUnknown
  <2> QED
    BY <1>1, <1>2, <2>5 DEF HeaderInv, Where
<1> QED
  BY <1>5, <1>6

LEMMA ReadsOn ==
    ASSUME NEW text, NEW i \in Nat, NEW n \in Nat, From(text, i), n + 1 = i + Len(text)
    PROVE  /\ From(Append(text, Bytes[n + 1]), i)
           /\ Len(Append(text, Bytes[n + 1])) = Len(text) + 1
<1>1. PICK byte : byte = Bytes[n + 1]
  OBVIOUS
<1>2. byte \in Text
  BY <1>1 DEF Text
<1>3. text \in Seq(Text) /\ (Len(text) > 0 => text[1] = Bytes[i])
  BY DEF From
<1>4. Append(text, byte) \in Seq(Text) /\ Len(Append(text, byte)) = Len(text) + 1
  BY <1>2, <1>3
<1>5. Append(text, byte)[1] = Bytes[i]
  <2>1. CASE Len(text) = 0
    <3>1. n + 1 = i /\ text = <<>>
      BY <1>3, <2>1
    <3> QED
      BY <1>1, <3>1
  <2>2. CASE Len(text) > 0
    BY <1>2, <1>3, <2>2
  <2> QED
    BY <1>3, <2>1, <2>2
<1> QED
  BY <1>1, <1>4, <1>5 DEF From

\* Another byte of a field.
LEMMA GrowStep ==
    ASSUME InField, consumed \in Nat, consumed' = consumed + 1,
           Bytes' = Bytes, Text' = Text,
           UNCHANGED <<family, fields>>, reader' = Append(reader, Byte)
    PROVE  InField'
<1>1. RightAddresses' <=> RightAddresses
  BY DEF RightAddresses, Addresses
<1>2. (One' <=> One) /\ (Two' <=> Two) /\ (Three' <=> Three)
  BY <1>1 DEF One, Two, Three, From, Blanked
<1>3. ASSUME NEW i \in Nat, From(reader, i), consumed + 1 = i + Len(reader)
      PROVE  /\ reader' \in Seq(Text') /\ Len(reader') = Len(reader) + 1
             /\ reader'[1] = Bytes'[i]
  <2>1. reader' = Append(reader, Bytes[consumed + 1])
    BY DEF Byte
  <2>2. From(reader', i) /\ Len(reader') = Len(reader) + 1
    BY <1>3, <2>1, ReadsOn
  <2>3. Len(reader) \in Nat
    BY <1>3 DEF From
  <2> QED
    BY <2>2, <2>3 DEF From
<1>4. Types'
  BY DEF InField, Types, Byte, Text
<1>5. CASE InSource
  <2>1. From(reader, 7) /\ consumed + 1 = 7 + Len(reader) /\ Len(reader) \in Nat
    BY <1>5 DEF InSource, From
  <2>2. InSource'
    BY <1>3, <1>5, <2>1 DEF InSource, From
  <2> QED
    BY <1>4, <2>2 DEF InField
<1>6. CASE InDestination
  <2>1. PICK i : i = 8 + Len(fields[1])
    OBVIOUS
  <2>2. /\ From(reader, i) /\ consumed + 1 = i + Len(reader) /\ Len(reader) \in Nat
        /\ Len(fields[1]) \in Nat /\ i \in Nat
    BY <1>6, <2>1 DEF InDestination, One, From
  <2>3. One' /\ fields' = fields
    BY <1>2, <1>6 DEF InDestination
  <2>4. /\ reader' \in Seq(Text') /\ Len(reader') = Len(reader) + 1
        /\ reader'[1] = Bytes'[i]
    BY <1>3, <2>2
  <2>5. reader'[1] = Bytes'[8 + Len(fields'[1])]
    BY <2>1, <2>3, <2>4
  <2>6. consumed' = 7 + Len(fields'[1]) + Len(reader')
    <3>1. Len(fields'[1]) = Len(fields[1])
      BY <2>3
    <3>2. consumed' = i + Len(reader)
      BY <2>2
    <3>3. PICK f : f = Len(fields'[1])
      OBVIOUS
    <3>4. PICK r : r = Len(reader')
      OBVIOUS
    <3>5. Len(reader) \in Nat /\ r = Len(reader) + 1
      BY <2>2, <2>4, <3>4
    <3>6. f \in Nat /\ i = 8 + f
      BY <2>1, <2>2, <3>1, <3>3
    <3>7. consumed' = 7 + f + r
      BY <3>2, <3>5, <3>6
    <3> QED
      BY <3>3, <3>4, <3>7
  <2>7. InDestination'
    BY <2>3, <2>4, <2>5, <2>6 DEF InDestination, From
  <2> QED
    BY <1>4, <2>7 DEF InField
<1>7. CASE InSourcePort
  <2>1. From(reader, 11) /\ consumed + 1 = 11 + Len(reader) /\ Len(reader) \in Nat
    BY <1>7 DEF InSourcePort, From
  <2>2. InSourcePort'
    BY <1>2, <1>3, <1>7, <2>1 DEF InSourcePort, From
  <2> QED
    BY <1>4, <2>2 DEF InField
<1>8. CASE InDestinationPort
  <2>1. PICK i : i = 12 + Len(fields[3])
    OBVIOUS
  <2>2. /\ From(reader, i) /\ consumed + 1 = i + Len(reader) /\ Len(reader) \in Nat
        /\ Len(fields[3]) \in Nat /\ i \in Nat
    BY <1>8, <2>1 DEF InDestinationPort, Three, From
  <2>3. Three' /\ fields' = fields
    BY <1>2, <1>8 DEF InDestinationPort
  <2>4. /\ reader' \in Seq(Text') /\ Len(reader') = Len(reader) + 1
        /\ reader'[1] = Bytes'[i]
    BY <1>3, <2>2
  <2>5. reader'[1] = Bytes'[12 + Len(fields'[3])]
    BY <2>1, <2>3, <2>4
  <2>6. consumed' = 11 + Len(fields'[3]) + Len(reader')
    <3>1. Len(fields'[3]) = Len(fields[3])
      BY <2>3
    <3>2. consumed' = i + Len(reader)
      BY <2>2
    <3>3. PICK f : f = Len(fields'[3])
      OBVIOUS
    <3>4. PICK r : r = Len(reader')
      OBVIOUS
    <3>5. Len(reader) \in Nat /\ r = Len(reader) + 1
      BY <2>2, <2>4, <3>4
    <3>6. f \in Nat /\ i = 12 + f
      BY <2>1, <2>2, <3>1, <3>3
    <3>7. consumed' = 11 + f + r
      BY <3>2, <3>5, <3>6
    <3> QED
      BY <3>3, <3>4, <3>7
  <2>7. InDestinationPort'
    BY <2>3, <2>4, <2>5, <2>6 DEF InDestinationPort, From
  <2> QED
    BY <1>4, <2>7 DEF InField
<1> QED
  BY <1>5, <1>6, <1>7, <1>8 DEF InField

\* The next byte ends the field.
Closes == (Len(fields) = 3 => Byte = "CR") /\ (Len(fields) # 3 => Byte = " ")

\* The end of a field.
LEMMA CloseStep ==
    ASSUME InField, consumed \in Nat, consumed' = consumed + 1,
           Bytes' = Bytes, Text' = Text, UNCHANGED family,
           Closes,
           fields' = Append(fields, reader), reader' = <<>>, Parse(fields')
    PROVE  /\ Types' /\ (Len(fields') # 4 => InField')
           /\ Len(fields') = 4 =>
                 /\ consumed' = 14 /\ RightAddresses'
                 /\ Bytes'[11] \in TakenPorts /\ Bytes'[13] \in TakenPorts
                 /\ Bytes'[12] = " " /\ Bytes'[14] = "CR"
                 /\ fields'[1][1] = Bytes'[7] /\ fields'[3][1] = Bytes'[11]
<1>1. RightAddresses' <=> RightAddresses
  BY DEF RightAddresses, Addresses
<1>2. /\ Types /\ fields \in Seq(Seq(Text)) /\ reader \in Seq(Text)
      /\ Len(fields) \in Nat /\ Len(reader) \in Nat
  BY DEF InField, Types
<1>3. /\ fields' \in Seq(Seq(Text)) /\ Len(fields') = Len(fields) + 1
      /\ fields'[Len(fields) + 1] = reader
      /\ \A i \in 1..Len(fields) : fields'[i] = fields[i]
  BY <1>2
<1>4. Types'
  BY <1>3 DEF Types
<1>5. CASE InSource
  <2>1. Len(fields') = 1 /\ fields'[1] = reader
    BY <1>3, <1>5 DEF InSource
  <2>0. Byte = " " /\ Byte = Bytes[7 + Len(reader)]
    <3>1. consumed + 1 = 7 + Len(reader)
      BY <1>2, <1>5 DEF InSource
    <3>2. Len(fields) # 3
      BY <1>2, <1>5 DEF InSource
    <3>3. Byte = " "
      BY ONLY <3>2, Closes DEF Closes
    <3> QED
      BY <3>1, <3>3 DEF Byte
  <2>2. One'
    BY <1>5, <2>0, <2>1 DEF One, InSource, From, Blanked
  <2>3. consumed' = 7 + Len(fields'[1]) + Len(reader')
    BY <1>2, <1>5, <2>1 DEF InSource
  <2>4. InDestination'
    BY <2>2, <2>3 DEF InDestination, From
  <2> QED
    BY <1>4, <2>1, <2>4 DEF InField
<1>6. CASE InDestination
  <2>1. Len(fields) = 1 /\ From(fields[1], 7) /\ From(reader, 8 + Len(fields[1]))
    BY <1>6 DEF InDestination, One
  <2>2. Len(fields') = 2 /\ fields'[1] = fields[1] /\ fields'[2] = reader
    BY <1>3, <2>1
  <2>3. /\ Len(fields'[1]) = 1 /\ fields'[1][1] \in Addresses(family)
        /\ Len(fields'[2]) = 1 /\ fields'[2][1] \in Addresses(family)
    BY <2>2 DEF Parse, Is
  <2>4. fields'[1][1] = Bytes[7] /\ fields'[2][1] = Bytes[9]
    BY <2>1, <2>2, <2>3 DEF From
  <2>6. consumed' = 10
    BY <1>6, <2>2, <2>3 DEF InDestination
  <2>0. Bytes[8] = " " /\ Bytes[10] = " "
    <3>1. Len(fields[1]) = 1 /\ 7 + Len(fields[1]) = 8
      BY <2>2, <2>3
    <3>2. Bytes[8] = " "
      BY <1>6, <3>1 DEF InDestination, One, Blanked
    <3>4. Len(fields) # 3
      BY <1>2, <2>1
    <3>5. Byte = " "
      BY ONLY <3>4, Closes DEF Closes
    <3>3. consumed + 1 = 10 /\ Byte = " "
      BY <2>6, <3>5
    <3> QED
      BY <3>2, <3>3 DEF Byte
  <2>5. Two'
    BY <1>1, <2>0, <2>2, <2>3, <2>4 DEF Two, RightAddresses
  <2>7. InSourcePort'
    BY <2>5, <2>6 DEF InSourcePort, From
  <2> QED
    BY <1>4, <2>2, <2>7 DEF InField
<1>7. CASE InSourcePort
  <2>1. Two /\ From(reader, 11) /\ consumed = 10 + Len(reader)
    BY <1>7 DEF InSourcePort
  <2>2. Len(fields') = 3 /\ fields'[1] = fields[1] /\ fields'[3] = reader
    BY <1>3, <2>1 DEF Two
  <2>0. Byte = " " /\ Byte = Bytes[11 + Len(reader)]
    <3>1. consumed + 1 = 11 + Len(reader)
      BY <1>2, <2>1
    <3>2. Len(fields) # 3
      BY <1>2, <2>1 DEF Two
    <3>3. Byte = " "
      BY ONLY <3>2, Closes DEF Closes
    <3> QED
      BY <3>1, <3>3 DEF Byte
  <2>3. Three'
    BY <1>1, <2>0, <2>1, <2>2 DEF Two, Three, From, Blanked
  <2>4. consumed' = 11 + Len(fields'[3]) + Len(reader')
    BY <1>2, <2>1, <2>2
  <2>5. reader' \in Seq(Text') /\ ~ Len(reader') > 0
    OBVIOUS
  <2>6. InDestinationPort'
    BY <2>3, <2>4, <2>5 DEF InDestinationPort, From
  <2> QED
    BY <1>4, <2>2, <2>6 DEF InField
<1>8. CASE InDestinationPort
  <2>1. Three /\ From(reader, 12 + Len(fields[3])) /\ consumed = 11 + Len(fields[3]) + Len(reader)
    BY <1>8 DEF InDestinationPort
  <2>2. /\ Len(fields') = 4 /\ fields'[1] = fields[1] /\ fields'[3] = fields[3]
        /\ fields'[4] = reader
    BY <1>3, <2>1 DEF Three
  <2>3. /\ Len(fields'[3]) = 1 /\ fields'[3][1] \in TakenPorts
        /\ Len(fields'[4]) = 1 /\ fields'[4][1] \in TakenPorts
    BY <2>2 DEF Parse, Is
  <2>4. fields'[3][1] = Bytes[11] /\ fields'[4][1] = Bytes[13]
    BY <2>1, <2>2, <2>3 DEF Three, From
  <2>5. consumed' = 14 /\ RightAddresses' /\ fields'[1][1] = Bytes[7]
    BY <1>1, <2>1, <2>2, <2>3 DEF Three
  <2>6. Bytes[12] = " "
    <3>1. 11 + Len(fields[3]) = 12
      BY <2>2, <2>3
    <3> QED
      BY <2>1, <3>1 DEF Three, Blanked
  <2>7. Bytes[14] = "CR"
    <3>1. consumed + 1 = 14 /\ Byte = "CR"
      BY <2>1, <2>5 DEF Three, Closes
    <3> QED
      BY <3>1 DEF Byte
  <2> QED
    BY <1>4, <2>2, <2>3, <2>4, <2>5, <2>6, <2>7
<1> QED
  BY <1>5, <1>6, <1>7, <1>8 DEF InField

LEMMA FieldStep == ASSUME HeaderInv, ReadField PROVE HeaderInv'
<1>1. Bytes' = Bytes /\ Text' = Text /\ Sent'
  BY SentKept DEF HeaderInv, ReadField, Reads, Consume
<1>2. /\ consumed \in Nat /\ consumed' = consumed + 1 /\ at = "field" /\ skip = 0
      /\ UNCHANGED <<skip, family, cr, addr>>
  BY DEF HeaderInv, ReadField, Reads, Consume
<1>3. AtField
  BY <1>2, Somewhere DEF HeaderInv
<1>4. InField /\ Tcp'
  BY <1>1, <1>2, <1>3, FirstBytesKept DEF AtField
<1>5. CASE reader' = Append(reader, Byte) /\ UNCHANGED <<at, fields>>
  <2>1. InField'
    BY <1>1, <1>2, <1>4, <1>5, GrowStep
  <2>2. AtField'
    BY <1>2, <1>4, <1>5, <2>1 DEF AtField
  <2> QED
    BY <1>1, <1>2, <2>2 DEF HeaderInv, Where
<1>6. CASE /\ Closes
           /\ fields' = Append(fields, reader) /\ reader' = <<>>
           /\ at' = CASE ~Parse(fields') -> "error"
                      [] Parse(fields') /\ Len(fields') = 4 -> "exit"
                      [] OTHER -> "field"
  <2>1. CASE ~ Parse(fields')
    <3>1. Failed'
      BY <1>6, <2>1 DEF Failed
    <3> QED
      BY <1>1, <1>2, <3>1 DEF HeaderInv, Where
  <2>2. CASE Parse(fields') /\ Len(fields') = 4
    <3>1. at' = "exit"
      BY <1>6, <2>2
    <3>2. AtExit'
      BY <1>1, <1>2, <1>4, <1>6, <2>2, <3>1, CloseStep DEF AtExit, AllRight
    <3> QED
      BY <1>1, <1>2, <3>2 DEF HeaderInv, Where
  <2>3. CASE Parse(fields') /\ Len(fields') # 4
    <3>1. at' = "field"
      BY <1>6, <2>3
    <3>2. InField'
      BY <1>1, <1>2, <1>4, <1>6, <2>3, CloseStep
    <3>3. AtField'
      BY <1>2, <1>4, <3>1, <3>2 DEF AtField
    <3> QED
      BY <1>1, <1>2, <3>3 DEF HeaderInv, Where
  <2> QED
    BY <2>1, <2>2, <2>3
<1> QED
  BY <1>5, <1>6 DEF ReadField, Closes

LEMMA ExitStep == ASSUME HeaderInv, ReadExit PROVE HeaderInv'
<1>1. Bytes' = Bytes /\ Text' = Text /\ Sent'
  BY SentKept DEF HeaderInv, ReadExit, Reads, Consume
<1>2. /\ consumed \in Nat /\ consumed' = consumed + 1 /\ at = "exit"
      /\ UNCHANGED <<skip, family, cr, reader, fields>>
  BY DEF HeaderInv, ReadExit, Reads, Consume
<1>3. AtExit
  BY <1>2, Somewhere DEF HeaderInv
<1>4. consumed = 14 /\ consumed' = 15 /\ AllRight'
  BY <1>1, <1>2, <1>3, FirstBytesKept DEF AtExit
<1>5. CASE Byte = "LF"
  <2>1. at' = "accepted" /\ addr' = <<fields[1][1], fields[3][1]>>
    BY <1>5 DEF ReadExit, AcceptFrom
  <2>2. addr' = <<Bytes'[7], Bytes'[11]>>
    BY <1>1, <1>3, <2>1 DEF AtExit
  <2>3. Bytes'[15] = "LF"
    <3>1. consumed + 1 = 15
      BY <1>4
    <3> QED
      BY <1>1, <1>5, <3>1 DEF Byte
  <2>4. AtEnd'
    BY <1>4, <2>1, <2>2, <2>3 DEF AtEnd
  <2> QED
    BY <1>1, <1>4, <2>4 DEF HeaderInv, Where
<1>6. CASE Byte # "LF"
  <2>1. Failed'
    BY <1>6 DEF ReadExit, Failed
  <2> QED
    BY <1>1, <1>4, <2>1 DEF HeaderInv, Where
<1> QED
  BY <1>5, <1>6

LEMMA OtherStep ==
    ASSUME HeaderInv, \/ Arrive \/ End \/ UnexpectedEnd \/ UNCHANGED headerVars
    PROVE  HeaderInv'
<1>1. Bytes' = Bytes /\ Text' = Text /\ Sent'
  BY SentKept DEF HeaderInv, Arrive, End, UnexpectedEnd, headerVars
<1>2. CASE UnexpectedEnd
  BY <1>1, <1>2 DEF HeaderInv, Where, Failed, UnexpectedEnd
<1>3. CASE UNCHANGED <<consumed, at, parser>>
  <2>1. UNCHANGED <<consumed, at, skip, family, cr, reader, fields, addr>>
    BY <1>3 DEF parser
  <2>2. /\ (NotKnown' <=> NotKnown) /\ (Tcp' <=> Tcp) /\ (AllRight' <=> AllRight)
        /\ (Proxy' <=> Proxy) /\ (SaysT' <=> SaysT)
        /\ (NoCR' <=> NoCR) /\ (Blank' <=> Blank)
    BY <1>1, <2>1, FirstBytesKept, NoCRKept
  <2>3. InField' <=> InField
    BY <1>1, <2>1 DEF InField, Types, InSource, InDestination, InSourcePort, InDestinationPort,
       One, Two, Three, From, Blanked, RightAddresses, Addresses
  <2>4. TellsCR' <=> TellsCR
    BY <1>1, <2>1 DEF TellsCR
  <2>5. /\ AtMagic \/ AtSecond \/ AtFamily \/ AtVersion => AtMagic' \/ AtSecond' \/ AtFamily' \/ AtVersion'
        /\ Failed => Failed'
    BY <1>1, <2>1, <2>2 DEF AtMagic, AtSecond, AtFamily, AtVersion, Failed
  <2>6. AtUnknown => AtUnknown'
    BY <1>1, <2>1, <2>2, <2>4 DEF AtUnknown, NoLine
  <2>7. (AtField => AtField') /\ (AtExit => AtExit')
    BY <1>1, <2>1, <2>2, <2>3 DEF AtField, AtExit
  <2>8. AtEnd => AtEnd'
    BY <1>1, <2>1, <2>2 DEF AtEnd, NoLine
  <2> QED
    BY <1>1, <2>1, <2>5, <2>6, <2>7, <2>8 DEF HeaderInv, Where
<1> QED
  BY <1>2, <1>3 DEF Arrive, End, headerVars

LEMMA HeaderStep == ASSUME HeaderInv, [HeaderNext]_headerVars PROVE HeaderInv'
  BY SkipStep, MagicStep, Version2Step, FamilyStep, UnknownStep, FieldStep, ExitStep, OtherStep
     DEF HeaderNext, Parser

-----------------------------------------------------------------------------
(* What was accepted is the header.                                        *)

LEMMA PrefixOf ==
    ASSUME NEW S, NEW h \in Seq(S), NEW t \in Seq(STRING), NEW i \in 1..Len(h)
    PROVE  (h \o t)[i] = h[i]
<1>1. h \in Seq(S \cup STRING) /\ t \in Seq(S \cup STRING)
  OBVIOUS
<1> QED
  BY <1>1

LEMMA ConcatFacts ==
    ASSUME NEW S, NEW a \in Seq(S), NEW b \in Seq(S)
    PROVE  /\ a \o b \in Seq(S) /\ Len(a \o b) = Len(a) + Len(b)
           /\ Len(a) \in Nat /\ Len(b) \in Nat
           /\ \A i \in 1..Len(a) : (a \o b)[i] = a[i]
           /\ \A j \in 1..Len(b) : (a \o b)[Len(a) + j] = b[j]
<1>1. /\ a \o b \in Seq(S) /\ Len(a \o b) = Len(a) + Len(b)
      /\ Len(a) \in Nat /\ Len(b) \in Nat
  OBVIOUS
<1>2. \A i \in 1..Len(a) : (a \o b)[i] = a[i]
  OBVIOUS
<1>3. ASSUME NEW j \in 1..Len(b)
      PROVE  (a \o b)[Len(a) + j] = b[j]
  BY <1>1
<1> QED
  BY <1>1, <1>2, <1>3

LEMMA EightBytes ==
    ASSUME NEW a1, NEW a2, NEW a3, NEW a4, NEW a5, NEW a6, NEW a7, NEW a8,
           NEW h, h = <<a1, a2, a3, a4, a5, a6, a7, a8>>
    PROVE  Len(h) = 8 /\ h[2] = a2 /\ \E S : h \in Seq(S)
<1>1. PICK S : S = {a1, a2, a3, a4, a5, a6, a7, a8}
  OBVIOUS
<1>2. h \in Seq(S)
  BY <1>1
<1> QED
  BY <1>2

LEMMA LineFacts ==
    ASSUME NEW fam, NEW src, NEW dst, NEW sp, NEW dp, NEW exit,
           NEW h, h = Line(fam, src, dst, sp, dp, exit)
    PROVE  /\ Len(h) = 15 /\ \E S : h \in Seq(S)
           /\ h[2] = "T" /\ h[5] = fam /\ h[7] = src /\ h[9] = dst
           /\ h[11] = sp /\ h[13] = dp /\ h[15] = exit
<1>1. PICK w1, w2, w3, w4, w6, w14 :
         w1 = "PROXY " /\ w2 = "T" /\ w3 = "C" /\ w4 = "P" /\ w6 = " " /\ w14 = "CR"
  OBVIOUS
<1>2. h = <<w1, w2, w3, w4, fam, w6, src, w6, dst, w6, sp, w6, dp, w14, exit>>
  BY <1>1 DEF Line
<1>3. /\ Len(h) = 15 /\ h[2] = w2 /\ h[5] = fam /\ h[7] = src /\ h[9] = dst
      /\ h[11] = sp /\ h[13] = dp /\ h[15] = exit
  BY ONLY <1>2
<1>4. PICK S : S = {w1, w2, w3, w4, fam, w6, src, dst, sp, dp, w14, exit}
  OBVIOUS
<1>5. /\ w1 \in S /\ w2 \in S /\ w3 \in S /\ w4 \in S /\ fam \in S /\ w6 \in S
      /\ src \in S /\ dst \in S /\ sp \in S /\ dp \in S /\ w14 \in S /\ exit \in S
  BY ONLY <1>4
<1>6. h \in Seq(S)
  BY ONLY <1>2, <1>5
<1> QED
  BY <1>1, <1>3, <1>6

\* The header without addresses in its three parts, of elements of A, whatever
\* they are, and of B, and what follows it.
InParts(h, start, A, words, last, B, t) ==
    /\ Len(start) = 8 /\ start[2] = "U" /\ start \in Seq(A)
    /\ NoEndWithin(words)
    /\ Len(last) = 2 /\ last[1] = "CR" /\ last[2] = "LF" /\ last \in Seq(B)
    /\ h = start \o words \o last
    /\ t \in Seq(STRING) /\ Bytes = h \o t

LEMMA UnknownFacts ==
    ASSUME NEW h, NEW start, NEW A, NEW words, NEW last, NEW B, NEW t,
           InParts(h, start, A, words, last, B, t)
    PROVE  /\ Bytes[1] = start[1] /\ SaysU /\ Len(h) >= 10 /\ Len(h) \in Nat
           /\ Bytes[Len(h) - 1] = "CR" /\ Bytes[Len(h)] = "LF"
           /\ NoLine(Len(h) - 1)
<1> USE DEF InParts
<1>1. /\ \E S : words \in Seq(S)
      /\ \A k \in 2..Len(words) : ~ (words[k - 1] = "CR" /\ words[k] = "LF")
  BY DEF NoEndWithin
<1>2. PICK C : words \in Seq(C)
  BY <1>1
<1>6. PICK S : S = A \cup B \cup C
  OBVIOUS
<1>7. start \in Seq(S) /\ words \in Seq(S) /\ last \in Seq(S)
  BY <1>2, <1>6
<1>9. PICK m : m = Len(words)
  OBVIOUS
<1>10. /\ m \in Nat /\ h \in Seq(S) /\ Len(h) = 10 + m
       /\ \A i \in 1..8 : h[i] = start[i]
       /\ \A j \in 1..m : h[8 + j] = words[j]
       /\ h[9 + m] = "CR" /\ h[10 + m] = "LF"
  <2>1. m \in Nat
    BY <1>7, <1>9
  <2>2. PICK front : front = start \o words
    OBVIOUS
  <2>3. /\ front \in Seq(S) /\ Len(front) = 8 + m
        /\ \A i \in 1..8 : front[i] = start[i]
        /\ \A j \in 1..m : front[8 + j] = words[j]
    <3>1. /\ front \in Seq(S) /\ Len(front) = Len(start) + Len(words)
          /\ \A i \in 1..Len(start) : front[i] = start[i]
          /\ \A j \in 1..Len(words) : front[Len(start) + j] = words[j]
      <4>1. start \in Seq(S) /\ words \in Seq(S)
        BY <1>7
      <4>2. /\ start \o words \in Seq(S) /\ Len(start \o words) = Len(start) + Len(words)
            /\ \A i \in 1..Len(start) : (start \o words)[i] = start[i]
            /\ \A j \in 1..Len(words) : (start \o words)[Len(start) + j] = words[j]
        BY ONLY <4>1, ConcatFacts
      <4> QED
        BY ONLY <2>2, <4>2
    <3> QED
      BY <1>9, <3>1
  <2>4. h = front \o last
    BY <2>2
  <2>5. /\ h \in Seq(S) /\ Len(h) = 8 + m + 2
        /\ \A i \in 1..8 + m : h[i] = front[i]
        /\ \A j \in 1..2 : h[8 + m + j] = last[j]
    <3>1. /\ h \in Seq(S) /\ Len(h) = Len(front) + Len(last)
          /\ \A i \in 1..Len(front) : h[i] = front[i]
          /\ \A j \in 1..Len(last) : h[Len(front) + j] = last[j]
      <4>1. front \in Seq(S) /\ last \in Seq(S)
        BY <1>7, <2>3
      <4>2. /\ front \o last \in Seq(S) /\ Len(front \o last) = Len(front) + Len(last)
            /\ \A i \in 1..Len(front) : (front \o last)[i] = front[i]
            /\ \A j \in 1..Len(last) : (front \o last)[Len(front) + j] = last[j]
        BY ONLY <4>1, ConcatFacts
      <4> QED
        BY ONLY <2>4, <4>2
    <3> QED
      BY <2>3, <3>1
  <2>6. h[9 + m] = last[1] /\ h[10 + m] = last[2]
    <3>1. h[8 + m + 1] = last[1] /\ h[8 + m + 2] = last[2]
      <4>1. 1 \in 1..2 /\ 2 \in 1..2
        OBVIOUS
      <4> QED
        BY <2>5, <4>1
    <3>2. 8 + m + 1 = 9 + m /\ 8 + m + 2 = 10 + m
      BY <2>1
    <3> QED
      BY <3>1, <3>2
  <2>7. \A i \in 1..8 : h[i] = start[i]
    <3>1. \A i \in 1..8 : i \in 1..8 + m
      BY <2>1
    <3> QED
      BY <2>3, <2>5, <3>1
  <2>8. \A j \in 1..m : h[8 + j] = words[j]
    <3>1. \A j \in 1..m : 8 + j \in 1..8 + m
      BY <2>1
    <3> QED
      BY <2>3, <2>5, <3>1
  <2>9. Len(h) = 10 + m
    BY <2>1, <2>5
  <2> QED
    BY <2>1, <2>5, <2>6, <2>7, <2>8, <2>9
<1>11. ASSUME NEW i \in 1..10 + m
       PROVE  Bytes[i] = h[i]
  BY <1>10, PrefixOf
<1>12. Bytes[1] = start[1] /\ SaysU
  <2>1. 1 \in 1..8 /\ 2 \in 1..8 /\ 1 \in 1..10 + m /\ 2 \in 1..10 + m
    BY <1>10
  <2>2. Bytes[1] = h[1] /\ Bytes[2] = h[2]
    BY ONLY <1>11, <2>1
  <2>3. h[1] = start[1] /\ h[2] = start[2]
    BY ONLY <1>10, <2>1
  <2>4. Bytes[1] = start[1] /\ Bytes[2] = "U"
    BY <2>2, <2>3
  <2> QED
    BY ONLY <2>4 DEF SaysU
<1>13. Bytes[Len(h) - 1] = "CR" /\ Bytes[Len(h)] = "LF"
  <2>1. Len(h) - 1 = 9 + m /\ 9 + m \in 1..10 + m /\ 10 + m \in 1..10 + m
    BY <1>10
  <2>2. Bytes[9 + m] = "CR" /\ Bytes[10 + m] = "LF"
    BY <1>10, <1>11, <2>1
  <2> QED
    BY <1>10, <2>1, <2>2
<1>14. ASSUME NEW i \in 10..Len(h) - 1
       PROVE  ~ (Bytes[i - 1] = "CR" /\ Bytes[i] = "LF")
  <2>1. Bytes[i - 1] = h[i - 1] /\ Bytes[i] = h[i]
    <3>1. i - 1 \in 1..10 + m /\ i \in 1..10 + m
      BY <1>10
    <3> QED
      BY <1>11, <3>1
  <2>2. CASE i = 9 + m
    BY <1>10, <2>1, <2>2
  <2>3. CASE i < 9 + m
    <3>1. PICK k : k = i - 8
      OBVIOUS
    <3>2. k \in 2..m /\ k - 1 \in 1..m /\ k \in 1..m /\ i = 8 + k /\ i - 1 = 8 + (k - 1)
      BY <1>10, <2>3, <3>1
    <3>3. h[i] = words[k] /\ h[i - 1] = words[k - 1]
      BY <1>10, <3>2
    <3> QED
      BY <1>1, <1>9, <2>1, <3>2, <3>3
  <2>4. i = 9 + m \/ i < 9 + m
    BY <1>10
  <2> QED
    BY <2>2, <2>3, <2>4
<1> QED
  <2>1. Len(h) >= 10 /\ Len(h) \in Nat
    BY <1>10
  <2>2. NoLine(Len(h) - 1)
    BY <1>14 DEF NoLine
  <2> QED
    BY <1>12, <1>13, <2>1, <2>2

LEMMA TwoBytes ==
    ASSUME NEW a, NEW b, NEW h, h = <<a, b>>
    PROVE  Len(h) = 2 /\ h[1] = a /\ h[2] = b /\ \E S : h \in Seq(S)
<1>1. PICK S : S = {a, b}
  OBVIOUS
<1>2. h \in Seq(S)
  BY <1>1
<1> QED
  BY <1>2

\* The header without a source.
LEMMA UnknownHeaders ==
    ASSUME NEW sent \in Unknown
    PROVE  /\ sent.source = Socket
           /\ \E words : /\ NoEndWithin(words)
                         /\ sent.header = <<"PROXY ", "U", "N", "K", "N", "O", "W", "N">>
                                          \o words \o <<"CR", "LF">>
<1>1. PICK words \in UnknownWords :
         sent = [header |-> <<"PROXY ", "U", "N", "K", "N", "O", "W", "N">> \o words \o <<"CR", "LF">>,
                 source |-> Socket]
  BY DEF Unknown
<1>2. NoEndWithin(words)
  BY HeaderAssumption
<1> QED
  BY <1>1, <1>2

\* The bytes of a header stand first.
LEMMA FirstBytes ==
    ASSUME NEW h, \E S : h \in Seq(S), NEW t \in Seq(STRING), Bytes = h \o t,
           NEW n, n = Len(h)
    PROVE  \A i \in 1..n : Bytes[i] = h[i]
  BY PrefixOf

\* What a header with a source is like: a line in which everything is right,
\* or one without addresses that has ended.
RightTcp == Len(input.header) = 15 /\ TcpLine

RightUnknown ==
    /\ Len(input.header) \in Nat /\ Len(input.header) >= 10
    /\ Bytes[1] = "PROXY " /\ Bytes[2] = "U"
    /\ Bytes[Len(input.header) - 1] = "CR" /\ Bytes[Len(input.header)] = "LF"

\* The header of a known source is a line with that source.
LEMMA KnownLine ==
    ASSUME NEW sent \in Known, NEW rest \in Seq(STRING), input.header = sent.header,
           Bytes = sent.header \o rest
    PROVE  /\ Len(input.header) = 15 /\ sent.source = <<Bytes[7], Bytes[11]>>
           /\ Bytes[1] = "PROXY " /\ Bytes[2] = "T" /\ Bytes[5] \in {"4", "6"}
           /\ Bytes[7] \in Addresses(Bytes[5]) /\ Bytes[9] \in Addresses(Bytes[5])
           /\ Bytes[11] \in Ports /\ Bytes[13] \in Ports
           /\ Bytes[8] = " " /\ Bytes[10] = " " /\ Bytes[12] = " "
           /\ Bytes[14] = "CR" /\ Bytes[15] = "LF"
           /\ input.header[2] = "T"
           /\ input.header[11] = Bytes[11] /\ input.header[13] = Bytes[13]
<1>0. PICK fam \in {"4", "6"} : sent \in KnownOf(fam)
  BY DEF Known
<1>1. PICK src \in Addresses(fam), dst \in Addresses(fam), sp \in Ports, dp \in Ports :
         sent.header = Line(fam, src, dst, sp, dp, "LF") /\ sent.source = <<src, sp>>
  BY <1>0 DEF KnownOf
<1>2. PICK h : h = sent.header
  OBVIOUS
<1>3. h = Line(fam, src, dst, sp, dp, "LF")
  BY <1>1, <1>2
<1>4. Len(h) = 15 /\ \E S : h \in Seq(S)
  BY ONLY <1>3, LineFacts
<1>5. /\ h[1] = "PROXY " /\ h[2] = "T" /\ h[5] = fam
      /\ h[7] = src /\ h[8] = " " /\ h[9] = dst /\ h[10] = " "
      /\ h[11] = sp /\ h[12] = " " /\ h[13] = dp /\ h[14] = "CR" /\ h[15] = "LF"
  BY ONLY <1>3 DEF Line
<1>6. \A i \in 1..15 : Bytes[i] = h[i]
  <2>1. /\ \E S : h \in Seq(S)
        /\ rest \in Seq(STRING) /\ Bytes = h \o rest /\ 15 = Len(h)
    BY <1>2, <1>4
  <2> QED
    BY ONLY <2>1, FirstBytes
<1>7. /\ Bytes[1] = h[1] /\ Bytes[2] = h[2] /\ Bytes[5] = h[5]
      /\ Bytes[7] = h[7] /\ Bytes[8] = h[8] /\ Bytes[9] = h[9] /\ Bytes[10] = h[10]
      /\ Bytes[11] = h[11] /\ Bytes[12] = h[12] /\ Bytes[13] = h[13]
      /\ Bytes[14] = h[14] /\ Bytes[15] = h[15]
  BY ONLY <1>6
<1>8. Len(input.header) = 15 /\ input.header = h
  BY <1>2, <1>4
<1>9. <<src, sp>> = <<Bytes[7], Bytes[11]>>
  BY <1>5, <1>7
<1>10. /\ Bytes[1] = "PROXY " /\ Bytes[2] = "T" /\ Bytes[5] = fam
       /\ Bytes[7] = src /\ Bytes[8] = " " /\ Bytes[9] = dst /\ Bytes[10] = " "
       /\ Bytes[11] = sp /\ Bytes[12] = " " /\ Bytes[13] = dp
       /\ Bytes[14] = "CR" /\ Bytes[15] = "LF"
  BY ONLY <1>5, <1>7
<1>11. h[2] = "T" /\ h[11] = Bytes[11] /\ h[13] = Bytes[13]
  BY ONLY <1>5, <1>7
<1> QED
  BY ONLY <1>0, <1>1, <1>8, <1>9, <1>10, <1>11

\* The header of a known source without a port 0, and of an unknown one, is right.
LEMMA KnownIsRight ==
    ASSUME NEW sent \in Known, NEW rest \in Seq(STRING), input.header = sent.header,
           Bytes = sent.header \o rest, ~ ZeroPort
    PROVE  RightTcp
<1>1. Bytes[11] \notin ZeroFirst /\ Bytes[13] \notin ZeroFirst
  BY KnownLine DEF ZeroPort
<1>2. Bytes[11] \in Numbers /\ Bytes[13] \in Numbers
  BY KnownLine, HeaderAssumption
<1> QED
  BY <1>1, <1>2, KnownLine DEF RightTcp, TcpLine, TakenPorts

LEMMA UnknownIsRight ==
    ASSUME NEW sent \in Unknown, NEW rest \in Seq(STRING), input.header = sent.header,
           Bytes = sent.header \o rest
    PROVE  RightUnknown /\ NoLine(Len(input.header) - 1)
<1>1. PICK words : /\ NoEndWithin(words)
                   /\ sent.header = <<"PROXY ", "U", "N", "K", "N", "O", "W", "N">>
                                    \o words \o <<"CR", "LF">>
  BY HeaderAssumption, UnknownHeaders
<1>2. PICK h : h = sent.header
  OBVIOUS
<1>3. PICK start : start = <<"PROXY ", "U", "N", "K", "N", "O", "W", "N">>
  OBVIOUS
<1>4. PICK last : last = <<"CR", "LF">>
  OBVIOUS
<1>5. h = start \o words \o last
  BY ONLY <1>1, <1>2, <1>3, <1>4
<1>6. Len(start) = 8 /\ start[1] = "PROXY " /\ start[2] = "U" /\ \E S : start \in Seq(S)
  <2>1. start[1] = "PROXY "
    BY ONLY <1>3
  <2> QED
    BY ONLY <1>3, <2>1, EightBytes
<1>7. Len(last) = 2 /\ last[1] = "CR" /\ last[2] = "LF" /\ \E S : last \in Seq(S)
  BY ONLY <1>4, TwoBytes
<1>8. PICK A : start \in Seq(A)
  BY ONLY <1>6
<1>9. PICK B : last \in Seq(B)
  BY ONLY <1>7
<1>10. InParts(h, start, A, words, last, B, rest)
  BY <1>1, <1>2, <1>5, <1>6, <1>7, <1>8, <1>9 DEF InParts
<1>11. /\ SaysU /\ Len(h) >= 10 /\ Len(h) \in Nat
       /\ Bytes[Len(h) - 1] = "CR" /\ Bytes[Len(h)] = "LF"
       /\ Bytes[1] = start[1] /\ NoLine(Len(h) - 1)
  BY ONLY <1>10, UnknownFacts
<1>12. Len(input.header) = Len(h)
  BY <1>2
<1> QED
  BY <1>6, <1>11, <1>12 DEF RightUnknown, SaysU

\* Such a line has ended where it was found to.
LEMMA SameEnd ==
    ASSUME NEW m \in Nat, NEW n \in Nat, m >= 10, n >= 10, NoLine(m - 1), NoLine(n - 1),
           Bytes[m - 1] = "CR", Bytes[m] = "LF",
           Bytes[n - 1] = "CR", Bytes[n] = "LF"
    PROVE  m = n
<1>1. CASE m < n
  <2>1. m \in 10..n - 1
    BY <1>1
  <2> QED
    BY <2>1 DEF NoLine
<1>2. CASE n < m
  <2>1. n \in 10..m - 1
    BY <1>2
  <2> QED
    BY <2>1 DEF NoLine
<1> QED
  BY <1>1, <1>2

\* The line whose end was reached is right, wherever it was looked at.
LEMMA AcceptedLine ==
    ASSUME AtEnd, consumed \in Nat
    PROVE  \/ TcpLine /\ consumed = 15 /\ addr = <<Bytes[7], Bytes[11]>>
           \/ UnknownLine(consumed) /\ addr = Socket
<1>1. CASE AllRight /\ consumed = 15 /\ Bytes[15] = "LF" /\ addr = <<Bytes[7], Bytes[11]>>
  BY <1>1 DEF AllRight, Tcp, RightAddresses, Proxy, SaysT, TcpLine
<1>2. CASE /\ NotKnown /\ addr = Socket /\ consumed >= 10
           /\ Bytes[consumed - 1] = "CR" /\ Bytes[consumed] = "LF"
           /\ NoLine(consumed - 1)
  BY <1>2 DEF NotKnown, Proxy, SaysU, NoLine, UnknownLine
<1> QED
  BY <1>1, <1>2 DEF AtEnd

LEMMA AcceptedHeader ==
    ASSUME HeaderInv
    PROVE  OnlyTheHeader
<1>1. SUFFICES ASSUME at = "accepted"
               PROVE  /\ \/ TcpLine /\ consumed = 15 /\ addr = <<Bytes[7], Bytes[11]>>
                         \/ UnknownLine(consumed) /\ addr = Socket
                      /\ input.source # <<>> =>
                            addr = input.source /\ consumed = Len(input.header)
  BY DEF OnlyTheHeader
<1>2. AtEnd /\ consumed \in Nat
  BY <1>1, Somewhere DEF HeaderInv
<1>3. \/ TcpLine /\ consumed = 15 /\ addr = <<Bytes[7], Bytes[11]>>
      \/ UnknownLine(consumed) /\ addr = Socket
  BY <1>2, AcceptedLine
<1>4. PICK sent \in Known \cup Unknown \cup Foreign, rest \in Endings :
         input = [header |-> sent.header, source |-> sent.source, rest |-> rest]
  BY DEF HeaderInv, Sent
<1>5. /\ input.header = sent.header /\ input.source = sent.source
      /\ rest \in Seq(STRING) /\ Bytes = sent.header \o rest
  BY <1>4, HeaderAssumption DEF Bytes
<1>6. CASE sent \in Known
  <2>1. /\ Len(input.header) = 15 /\ sent.source = <<Bytes[7], Bytes[11]>>
        /\ Bytes[2] = "T"
    BY <1>5, <1>6, KnownLine
  <2>2. consumed = 15 /\ addr = <<Bytes[7], Bytes[11]>>
    BY <1>3, <2>1 DEF UnknownLine
  <2> QED
    BY <1>3, <1>5, <2>1, <2>2
<1>7. CASE sent \in Unknown
  <2>1. sent.source = Socket
    BY <1>7, UnknownHeaders
  <2>2. PICK n : n = Len(input.header)
    OBVIOUS
  <2>3. /\ n >= 10 /\ n \in Nat /\ Bytes[2] = "U"
        /\ Bytes[n - 1] = "CR" /\ Bytes[n] = "LF" /\ NoLine(n - 1)
    BY <1>5, <1>7, <2>2, UnknownIsRight DEF RightUnknown
  <2>4. UnknownLine(consumed) /\ addr = Socket
    BY <1>3, <2>3 DEF TcpLine
  <2>5. /\ consumed >= 10 /\ Bytes[consumed - 1] = "CR" /\ Bytes[consumed] = "LF"
        /\ NoLine(consumed - 1)
    BY <2>4 DEF UnknownLine, NoLine
  <2>6. consumed = n
    BY ONLY <1>2, <2>3, <2>5, SameEnd
  <2> QED
    BY <1>3, <1>5, <2>1, <2>2, <2>4, <2>6
<1>8. CASE sent \in Foreign
  <2>1. sent.source = <<>>
    BY <1>8 DEF Foreign
  <2> QED
    BY <1>3, <1>5, <2>1
<1> QED
  BY <1>4, <1>6, <1>7, <1>8

\* Whatever is sent, it is accepted only as a whole line that is right wherever
\* the parser looks, and no byte behind it is read; and a header the protocol
\* describes, only with the source it names.
THEOREM ServerOnlyTheHeader == HeaderSpec => []OnlyTheHeader
<1>1. HeaderInv => OnlyTheHeader
  BY AcceptedHeader
<1> QED
  BY HeaderStarts, HeaderStep, <1>1, PTL DEF HeaderSpec

-----------------------------------------------------------------------------
(* What the protocol describes is not refused.                             *)

\* The fields that were read of a right line, and the reader, have one word
\* each.
Word(text, i) == Len(text) = 1 /\ text[1] = Bytes[i]

InWords ==
    /\ Len(fields) \in 0..3 /\ Len(reader) \in 0..1
    /\ consumed = 6 + 2 * Len(fields) + Len(reader)
    /\ \A i \in 1..Len(fields) : Word(fields[i], 5 + 2 * i)
    /\ Len(reader) = 1 => Word(reader, 7 + 2 * Len(fields))

\* The stream has ended within the header.
Cut == at = "error" /\ ended /\ arrived < Len(input.header)

TcpOnItsWay ==
    \/ at \in {"magic", "family", "version", "exit", "accepted"}
    \/ at = "field" /\ family = Bytes[5] /\ (skip = 0 => InWords)
    \/ Cut

UnknownOnItsWay ==
    \/ at \in {"magic", "family", "accepted"}
    \/ at = "unknown" /\ consumed < Len(input.header)
    \/ Cut

OnItsWay == (RightTcp => TcpOnItsWay) /\ (RightUnknown => UnknownOnItsWay)

LEMMA RightStays ==
    ASSUME UNCHANGED input
    PROVE  /\ Bytes' = Bytes /\ Len(input.header)' = Len(input.header)
           /\ (RightTcp' <=> RightTcp) /\ (RightUnknown' <=> RightUnknown)
  BY DEF Bytes, RightTcp, TcpLine, RightUnknown, Addresses

LEMMA SkipOnItsWay == ASSUME HeaderInv, OnItsWay, Skip PROVE OnItsWay'
<1>1. /\ UNCHANGED <<input, arrived, ended, at, family, reader, fields>>
      /\ at \notin Over /\ skip > 0 /\ skip' = skip - 1
      /\ consumed \in Nat /\ consumed' = consumed + 1
  BY DEF HeaderInv, Skip, Consume
<1>2. /\ Bytes' = Bytes /\ (RightTcp' <=> RightTcp) /\ (RightUnknown' <=> RightUnknown)
  BY <1>1, RightStays
<1>3. ASSUME RightTcp
      PROVE  TcpOnItsWay'
  <2>1. CASE at = "field"
    <3>1. skip = 1 /\ consumed = 5 /\ fields = <<>> /\ reader = <<>>
      BY <1>1, <2>1, Somewhere DEF HeaderInv, AtField
    <3>2. InWords'
      BY <1>1, <3>1 DEF InWords
    <3>3. family = Bytes[5]
      BY <1>3, <2>1 DEF OnItsWay, TcpOnItsWay, Cut
    <3> QED
      BY <1>1, <1>2, <2>1, <3>2, <3>3 DEF TcpOnItsWay
  <2>2. CASE at # "field"
    BY <1>1, <1>3, <2>2 DEF OnItsWay, TcpOnItsWay, Cut, Over
  <2> QED
    BY <2>1, <2>2
<1>4. ASSUME RightUnknown
      PROVE  UnknownOnItsWay'
  <2>1. CASE at = "unknown"
    <3>1. consumed + skip = 8 /\ skip \in Nat \ {0}
      BY <1>1, <2>1, Somewhere DEF HeaderInv, AtUnknown
    <3>2. consumed' < 10
      BY <1>1, <3>1
    <3>3. Len(input.header) \in Nat /\ Len(input.header) >= 10 /\ input' = input
      BY <1>1, <1>4 DEF RightUnknown
    <3>4. consumed' < Len(input'.header)
      BY <1>1, <3>2, <3>3
    <3> QED
      BY <1>1, <2>1, <3>4 DEF UnknownOnItsWay
  <2>2. CASE at # "unknown"
    BY <1>1, <1>4, <2>2 DEF OnItsWay, UnknownOnItsWay, Cut, Over
  <2> QED
    BY <2>1, <2>2
<1> QED
  BY <1>2, <1>3, <1>4 DEF OnItsWay

LEMMA MagicOnItsWay == ASSUME HeaderInv, OnItsWay, ReadMagic PROVE OnItsWay'
<1>1. /\ UNCHANGED <<input, arrived, ended>> /\ at \in {"magic", "second"}
  BY DEF HeaderInv, ReadMagic, Reads, Consume
<1>2. /\ (RightTcp' <=> RightTcp) /\ (RightUnknown' <=> RightUnknown)
  BY <1>1, RightStays
<1>3. ASSUME RightTcp \/ RightUnknown
      PROVE  at' = "family"
  <2>1. at = "magic"
    BY <1>1, <1>3 DEF OnItsWay, TcpOnItsWay, UnknownOnItsWay, Cut
  <2>2. consumed = 0
    BY <2>1, Somewhere DEF HeaderInv, AtMagic
  <2>3. consumed + 1 = 1
    BY <2>2
  <2>4. Byte = "PROXY "
    BY <1>3, <2>3 DEF Byte, RightTcp, TcpLine, RightUnknown
  <2> QED
    BY <2>1, <2>4 DEF ReadMagic, Reads
<1> QED
  BY <1>2, <1>3 DEF OnItsWay, TcpOnItsWay, UnknownOnItsWay

LEMMA Version2OnItsWay == ASSUME HeaderInv, OnItsWay, ReadVersion2 PROVE OnItsWay'
<1>1. UNCHANGED <<input, arrived, ended>> /\ at = "v2"
  BY DEF ReadVersion2, Reads, Consume
<1>2. (RightTcp' <=> RightTcp) /\ (RightUnknown' <=> RightUnknown)
  BY <1>1, RightStays
<1> QED
  BY <1>1, <1>2 DEF OnItsWay, TcpOnItsWay, UnknownOnItsWay, Cut

LEMMA FamilyOnItsWay == ASSUME HeaderInv, OnItsWay, ReadFamily PROVE OnItsWay'
<1>1. /\ UNCHANGED <<input, arrived, ended>> /\ at \in {"family", "version"} /\ skip = 0
      /\ consumed' = consumed + 1
  BY DEF ReadFamily, Reads, Consume
<1>2. Bytes' = Bytes /\ (RightTcp' <=> RightTcp) /\ (RightUnknown' <=> RightUnknown)
  BY <1>1, RightStays
<1>3. CASE at = "family"
  <2>1. consumed = 1 /\ consumed + 1 = 2
    BY <1>3, Somewhere DEF HeaderInv, AtFamily
  <2>2. Byte = Bytes[2]
    BY <2>1 DEF Byte
  <2>3. ASSUME RightTcp
        PROVE  at' = "version"
    BY <1>3, <2>2, <2>3 DEF ReadFamily, Reads, RightTcp, TcpLine
  <2>4. ASSUME RightUnknown
        PROVE  at' = "unknown" /\ consumed' < Len(input'.header)
    <3>1. at' = "unknown"
      BY <1>3, <2>2, <2>4 DEF ReadFamily, Reads, RightUnknown
    <3>2. Len(input.header) \in Nat /\ Len(input.header) >= 10 /\ input' = input
      BY <1>1, <2>4 DEF RightUnknown
    <3>3. 2 < Len(input'.header)
      BY <3>2
    <3> QED
      BY <1>1, <2>1, <3>1, <3>3
  <2> QED
    BY <1>2, <2>3, <2>4 DEF OnItsWay, TcpOnItsWay, UnknownOnItsWay
<1>4. CASE at = "version"
  <2>1. consumed = 4 /\ consumed + 1 = 5
    BY <1>1, <1>4, Somewhere DEF HeaderInv, AtVersion
  <2>2. Byte = Bytes[5]
    BY <2>1 DEF Byte
  <2>3. ASSUME RightTcp
        PROVE  TcpOnItsWay'
    <3>1. at' = "field" /\ family' = Bytes[5] /\ skip' = 1
      BY <1>4, <2>2, <2>3 DEF ReadFamily, Reads, RightTcp, TcpLine
    <3> QED
      BY <1>2, <3>1 DEF TcpOnItsWay
  <2>4. ~ RightUnknown
    BY <1>4 DEF OnItsWay, UnknownOnItsWay, Cut
  <2> QED
    BY <1>2, <2>3, <2>4 DEF OnItsWay
<1> QED
  BY <1>1, <1>3, <1>4

LEMMA UnknownReadOnItsWay == ASSUME HeaderInv, OnItsWay, ReadUnknown PROVE OnItsWay'
<1>1. /\ UNCHANGED <<input, arrived, ended>> /\ at = "unknown" /\ skip = 0
      /\ consumed \in Nat /\ consumed' = consumed + 1
  BY DEF HeaderInv, ReadUnknown, Reads, Consume
<1>2. Bytes' = Bytes /\ (RightTcp' <=> RightTcp) /\ (RightUnknown' <=> RightUnknown)
  BY <1>1, RightStays
<1>3. ~ RightTcp
  BY <1>1 DEF OnItsWay, TcpOnItsWay, Cut
<1>4. ASSUME RightUnknown
      PROVE  UnknownOnItsWay'
  <2>1. CASE cr /\ Byte = "LF"
    BY <2>1 DEF ReadUnknown, AcceptFrom, UnknownOnItsWay
  <2>2. CASE ~ (cr /\ Byte = "LF")
    <3>1. at' = "unknown"
      BY <1>1, <2>2 DEF ReadUnknown
    <3>2. PICK n : n = Len(input.header)
      OBVIOUS
    <3>3. /\ n \in Nat /\ n >= 10 /\ Bytes[n - 1] = "CR" /\ Bytes[n] = "LF"
          /\ Len(input'.header) = n
      BY <1>1, <1>4, <3>2 DEF RightUnknown
    <3>4. consumed < n
      BY <1>1, <1>4, <3>2 DEF OnItsWay, UnknownOnItsWay, Cut
    <3>5. ASSUME consumed + 1 = n
          PROVE  FALSE
      <4>1. Byte = "LF"
        BY <3>3, <3>5 DEF Byte
      <4>2. consumed > 8 /\ consumed = n - 1
        BY <1>1, <3>3, <3>5
      <4>3. TellsCR
        BY <1>1, <4>2, Somewhere DEF HeaderInv, AtUnknown
      <4> QED
        BY <2>2, <3>3, <4>1, <4>2, <4>3 DEF TellsCR
    <3>6. consumed' < n
      BY <1>1, <3>3, <3>4, <3>5
    <3> QED
      BY <3>1, <3>3, <3>6 DEF UnknownOnItsWay
  <2> QED
    BY <2>1, <2>2
<1> QED
  BY <1>2, <1>3, <1>4 DEF OnItsWay

\* The bytes of a right line are no delimiters within its words, and its
\* words end with one.
LEMMA RightByte ==
    ASSUME RightTcp, InWords, consumed \in Nat
    PROVE  /\ Len(reader) = 0 => Byte # (IF Len(fields) = 3 THEN "CR" ELSE " ")
           /\ Len(reader) = 0 => Byte = Bytes[7 + 2 * Len(fields)]
           /\ Len(reader) = 1 => Byte = (IF Len(fields) = 3 THEN "CR" ELSE " ")
<1>1. PICK k, r : k = Len(fields) /\ r = Len(reader)
  OBVIOUS
<1>2. k \in 0..3 /\ r \in 0..1 /\ consumed + 1 = 7 + 2 * k + r
  BY <1>1 DEF InWords
<1>3. Byte = Bytes[7 + 2 * k + r]
  BY <1>2 DEF Byte
<1>4. \A i \in {7, 9, 11, 13} : Bytes[i] \notin {" ", "CR"}
  <2>1. {Bytes[7], Bytes[9]} \subseteq V4 \cup V6 /\ {Bytes[11], Bytes[13]} \subseteq Numbers
    BY DEF RightTcp, TcpLine, TakenPorts, Addresses
  <2> QED
    BY <2>1, HeaderAssumption
<1>5. CASE r = 0
  <2>1. PICK j : j = 7 + 2 * k
    OBVIOUS
  <2>2. 7 + 2 * k + r = j /\ j \in {7, 9, 11, 13}
    BY <1>2, <1>5, <2>1
  <2>3. Byte = Bytes[j] /\ Byte \notin {" ", "CR"}
    BY <1>3, <1>4, <2>2
  <2>4. k = 3 \/ k # 3
    OBVIOUS
  <2>5. Byte # " " /\ Byte # "CR"
    BY <2>3
  <2>6. Byte # (IF k = 3 THEN "CR" ELSE " ")
    BY <2>4, <2>5
  <2>7. Byte = Bytes[7 + 2 * Len(fields)]
    BY <1>1, <2>1, <2>3
  <2>8. Len(reader) # 1
    BY <1>1, <1>5
  <2>9. Byte # (IF Len(fields) = 3 THEN "CR" ELSE " ")
    BY <1>1, <2>6
  <2> QED
    BY ONLY <2>7, <2>8, <2>9
<1>6. CASE r = 1
  <2>1. 7 + 2 * k + r = (IF k = 3 THEN 14 ELSE IF k = 0 THEN 8 ELSE IF k = 1 THEN 10 ELSE 12)
    BY <1>2, <1>6
  <2>2. Bytes[8] = " " /\ Bytes[10] = " " /\ Bytes[12] = " " /\ Bytes[14] = "CR"
    BY DEF RightTcp, TcpLine
  <2> QED
    BY <1>1, <1>3, <1>6, <2>1, <2>2
<1>7. r = 0 \/ r = 1
  BY <1>2
<1> QED
  BY <1>5, <1>6, <1>7

LEMMA FieldOnItsWay == ASSUME HeaderInv, OnItsWay, ReadField PROVE OnItsWay'
<1>1. /\ UNCHANGED <<input, arrived, ended, family>> /\ at = "field" /\ skip = 0 /\ skip' = 0
      /\ consumed \in Nat /\ consumed' = consumed + 1
  BY DEF HeaderInv, ReadField, Reads, Consume
<1>2. Bytes' = Bytes /\ (RightTcp' <=> RightTcp) /\ (RightUnknown' <=> RightUnknown)
  BY <1>1, RightStays
<1>3. ~ RightUnknown
  BY <1>1 DEF OnItsWay, UnknownOnItsWay, Cut
<1>4. ASSUME RightTcp
      PROVE  TcpOnItsWay'
  <2>1. InWords /\ family = Bytes[5]
    BY <1>1, <1>4 DEF OnItsWay, TcpOnItsWay, Cut
  <2>2. /\ fields \in Seq(Seq(Text)) /\ reader \in Seq(Text) /\ Byte \in Text
    BY <1>1, Somewhere DEF HeaderInv, AtField, InField, Types, Byte, Text
  <2>3. PICK k : k = Len(fields)
    OBVIOUS
  <2>4. /\ k \in 0..3 /\ Len(reader) \in 0..1
        /\ consumed = 6 + 2 * k + Len(reader)
        /\ \A i \in 1..k : Word(fields[i], 5 + 2 * i)
        /\ Len(reader) = 1 => Word(reader, 7 + 2 * k)
    BY <2>1, <2>3 DEF InWords
  <2>5. CASE Len(reader) = 0
    <3>1. /\ Byte # (IF Len(fields) = 3 THEN "CR" ELSE " ")
          /\ Byte = Bytes[7 + 2 * k]
      BY <1>1, <1>4, <2>1, <2>3, <2>5, RightByte
    <3>2. reader' = Append(reader, Byte) /\ UNCHANGED <<at, fields>>
      BY <3>1 DEF ReadField
    <3>3. Len(reader') = 1 /\ reader'[1] = Bytes[7 + 2 * k]
      <4>1. PICK byte : byte = Byte
        OBVIOUS
      <4>2. reader = <<>> /\ byte \in Text /\ reader' = Append(reader, byte)
        BY <2>2, <2>5, <3>2, <4>1
      <4>3. Len(reader') = 1 /\ reader'[1] = byte
        BY ONLY <4>2
      <4> QED
        BY <3>1, <4>1, <4>3
    <3>4. consumed' = 6 + 2 * k + 1
      BY <1>1, <2>4, <2>5
    <3>5. Word(reader, 7 + 2 * Len(fields))'
      BY <1>2, <2>3, <3>2, <3>3 DEF Word
    <3>6. \A i \in 1..Len(fields') : Word(fields[i], 5 + 2 * i)'
      BY <1>2, <2>3, <2>4, <3>2 DEF Word
    <3>7. InWords'
      <4>1. Len(fields') = k
        BY <2>3, <3>2
      <4> QED
        BY <2>4, <3>3, <3>4, <3>5, <3>6, <4>1 DEF InWords
    <3> QED
      BY <1>1, <1>2, <2>1, <3>2, <3>7 DEF TcpOnItsWay
  <2>6. CASE Len(reader) = 1
    <3>1. Byte = (IF Len(fields) = 3 THEN "CR" ELSE " ")
      BY <1>1, <1>4, <2>1, <2>6, RightByte
    <3>2. /\ fields' = Append(fields, reader) /\ reader' = <<>>
          /\ at' = CASE ~Parse(fields') -> "error"
                     [] Parse(fields') /\ Len(fields') = 4 -> "exit"
                     [] OTHER -> "field"
      BY <3>1 DEF ReadField
    <3>3. /\ Len(fields') = k + 1 /\ fields'[k + 1] = reader
          /\ \A i \in 1..k : fields'[i] = fields[i]
      BY <2>2, <2>3, <3>2
    <3>4. ASSUME NEW i \in 1..k + 1
          PROVE  Word(fields'[i], 5 + 2 * i)
      <4>1. CASE i = k + 1
        <5>1. 5 + 2 * i = 7 + 2 * k
          BY <2>4, <4>1
        <5> QED
          BY <2>4, <2>6, <3>3, <4>1, <5>1
      <4>2. CASE i \in 1..k
        BY <2>4, <3>3, <4>2
      <4> QED
        BY <2>4, <4>1, <4>2
    <3>5. Parse(fields')
      <4>1. ASSUME Len(fields') = 2, NEW i \in 1..2
            PROVE  Is(fields'[i], Addresses(family))
        <5>0. i \in 1..k + 1
          BY <3>3, <4>1
        <5>1. Word(fields'[i], 5 + 2 * i) /\ 5 + 2 * i \in {7, 9}
          BY <3>4, <4>1, <5>0
        <5>2. Bytes[7] \in Addresses(family) /\ Bytes[9] \in Addresses(family)
          BY <1>4, <2>1 DEF RightTcp, TcpLine
        <5> QED
          BY <5>1, <5>2 DEF Word, Is
      <4>2. ASSUME Len(fields') = 4, NEW i \in 3..4
            PROVE  Is(fields'[i], TakenPorts)
        <5>1. Word(fields'[i], 5 + 2 * i) /\ 5 + 2 * i \in {11, 13}
          BY <2>4, <3>3, <3>4, <4>2
        <5>2. Bytes[11] \in TakenPorts /\ Bytes[13] \in TakenPorts
          BY <1>4 DEF RightTcp, TcpLine
        <5> QED
          BY <5>1, <5>2 DEF Word, Is
      <4> QED
        BY <4>1, <4>2 DEF Parse
    <3>6. CASE k = 3
      <4>1. at' = "exit"
        BY <3>2, <3>3, <3>5, <3>6
      <4> QED
        BY <4>1 DEF TcpOnItsWay
    <3>7. CASE k # 3
      <4>1. k + 1 \in 0..3 /\ k + 1 # 4
        BY <2>4, <3>7
      <4>2. at' = "field"
        BY <3>2, <3>3, <3>5, <4>1
      <4>3. Len(reader') = 0
        BY <3>2
      <4>4. consumed' = 6 + 2 * (k + 1)
        BY <1>1, <2>4, <2>6
      <4>5. \A i \in 1..Len(fields') : Word(fields[i], 5 + 2 * i)'
        BY <1>2, <3>3, <3>4 DEF Word
      <4>6. InWords'
        BY <3>3, <4>1, <4>3, <4>4, <4>5 DEF InWords
      <4> QED
        BY <1>1, <1>2, <2>1, <4>2, <4>6 DEF TcpOnItsWay
    <3> QED
      BY <3>6, <3>7
  <2> QED
    BY <2>4, <2>5, <2>6
<1> QED
  BY <1>2, <1>3, <1>4 DEF OnItsWay

LEMMA ExitOnItsWay == ASSUME HeaderInv, OnItsWay, ReadExit PROVE OnItsWay'
<1>1. UNCHANGED <<input, arrived, ended>> /\ at = "exit"
  BY DEF ReadExit, Reads, Consume
<1>2. (RightTcp' <=> RightTcp) /\ (RightUnknown' <=> RightUnknown)
  BY <1>1, RightStays
<1>3. ~ RightUnknown
  BY <1>1 DEF OnItsWay, UnknownOnItsWay, Cut
<1>4. ASSUME RightTcp
      PROVE  at' = "accepted"
  <2>1. consumed = 14
    BY <1>1, Somewhere DEF HeaderInv, AtExit
  <2>2. consumed + 1 = 15
    BY <2>1
  <2>3. Byte = "LF"
    BY <1>4, <2>2 DEF Byte, RightTcp, TcpLine
  <2> QED
    BY <2>3 DEF ReadExit, AcceptFrom
<1> QED
  BY <1>2, <1>3, <1>4 DEF OnItsWay, TcpOnItsWay

\* Until it is accepted, something of the header is to be read.
LEMMA MoreToCome ==
    ASSUME HeaderInv, OnItsWay, at \notin Over, RightTcp \/ RightUnknown
    PROVE  consumed < Len(input.header)
<1>1. PICK n : n = Len(input.header)
  OBVIOUS
<1>2. consumed \in Nat
  BY DEF HeaderInv
<1>3. CASE RightTcp
  <2>1. n = 15
    BY <1>1, <1>3 DEF RightTcp, TcpLine
  <2>2. TcpOnItsWay /\ at \notin {"accepted", "error"}
    BY <1>3 DEF OnItsWay, Over
  <2>3. \/ at \in {"magic", "family", "version", "exit"}
        \/ at = "field" /\ (skip = 0 => InWords)
    BY <2>2 DEF TcpOnItsWay, Cut
  <2>4. CASE at \in {"magic", "family", "version", "exit"}
    <3>1. AtMagic \/ AtFamily \/ AtVersion \/ AtExit
      BY <2>4, Somewhere DEF HeaderInv
    <3>2. consumed < 15
      BY <1>2, <3>1 DEF AtMagic, AtFamily, AtVersion, AtExit
    <3> QED
      BY <1>1, <2>1, <3>2
  <2>5. CASE at = "field" /\ skip = 0
    <3>1. PICK k, r : k = Len(fields) /\ r = Len(reader)
      OBVIOUS
    <3>2. k \in 0..3 /\ r \in 0..1 /\ consumed = 6 + 2 * k + r
      BY <2>3, <2>5, <3>1 DEF InWords
    <3>3. consumed < 15
      BY ONLY <3>2
    <3> QED
      BY <1>1, <2>1, <3>3
  <2>6. CASE at = "field" /\ skip # 0
    <3>1. consumed = 5
      BY <2>6, Somewhere DEF HeaderInv, AtField
    <3>2. consumed < 15
      BY <3>1
    <3> QED
      BY <1>1, <2>1, <3>2
  <2> QED
    BY <2>3, <2>4, <2>5, <2>6
<1>4. CASE RightUnknown
  <2>1. CASE at = "unknown"
    BY <1>4, <2>1 DEF OnItsWay, UnknownOnItsWay, Cut
  <2>2. CASE at # "unknown"
    <3>1. at = "magic" \/ at = "family"
      BY <1>4, <2>2 DEF OnItsWay, UnknownOnItsWay, Cut, Over
    <3>2. consumed < 2
      BY <3>1, Somewhere DEF HeaderInv, AtMagic, AtFamily
    <3>3. n \in Nat /\ n >= 10
      BY <1>1, <1>4 DEF RightUnknown
    <3>4. consumed < n
      BY <1>2, <3>2, <3>3
    <3> QED
      BY <1>1, <3>4
  <2> QED
    BY <2>1, <2>2
<1> QED
  BY <1>3, <1>4

LEMMA OtherOnItsWay ==
    ASSUME HeaderInv, OnItsWay, Arrive \/ End \/ UnexpectedEnd \/ UNCHANGED headerVars
    PROVE  OnItsWay'
<1>1. UNCHANGED input
  BY DEF Arrive, End, UnexpectedEnd, headerVars
<1>2. /\ Bytes' = Bytes /\ (RightTcp' <=> RightTcp) /\ (RightUnknown' <=> RightUnknown)
  BY <1>1, RightStays
<1>3. CASE UnexpectedEnd
  <2>1. /\ at \notin Over /\ ended' /\ at' = "error"
        /\ arrived' = consumed
    BY <1>3 DEF UnexpectedEnd
  <2>2. RightTcp \/ RightUnknown => Cut'
    BY <1>1, <2>1, MoreToCome DEF Cut
  <2> QED
    BY <1>2, <2>2 DEF OnItsWay, TcpOnItsWay, UnknownOnItsWay
<1>4. CASE Arrive \/ End \/ UNCHANGED headerVars
  <2>1. UNCHANGED <<consumed, at, skip, family, reader, fields>>
    BY <1>4 DEF Arrive, End, headerVars, parser
  <2>2. Cut => Cut'
    BY <1>1, <1>4, <2>1 DEF Cut, Arrive, End, headerVars
  <2>3. InWords' <=> InWords
    BY <1>2, <2>1 DEF InWords, Word
  <2>4. TcpOnItsWay => TcpOnItsWay'
    BY <1>2, <2>1, <2>2, <2>3 DEF TcpOnItsWay
  <2>5. UnknownOnItsWay => UnknownOnItsWay'
    BY <1>1, <2>1, <2>2 DEF UnknownOnItsWay
  <2> QED
    BY <1>2, <2>4, <2>5 DEF OnItsWay
<1> QED
  BY <1>3, <1>4

LEMMA OnItsWayStep ==
    ASSUME HeaderInv, OnItsWay, [HeaderNext]_headerVars
    PROVE  OnItsWay'
  BY SkipOnItsWay, MagicOnItsWay, Version2OnItsWay, FamilyOnItsWay, UnknownReadOnItsWay,
     FieldOnItsWay, ExitOnItsWay, OtherOnItsWay DEF HeaderNext, Parser

LEMMA RightHeaders ==
    ASSUME HeaderInv, input.source # <<>>, ~ ZeroPort
    PROVE  RightTcp \/ RightUnknown
<1>1. PICK sent \in Known \cup Unknown \cup Foreign, rest \in Endings :
         input = [header |-> sent.header, source |-> sent.source, rest |-> rest]
  BY DEF HeaderInv, Sent
<1>2. rest \in Seq(STRING) /\ input.header = sent.header /\ Bytes = sent.header \o rest
  BY <1>1, HeaderAssumption DEF Bytes
<1>3. sent \notin Foreign
  <2>1. ASSUME sent \in Foreign
        PROVE  sent.source = <<>>
    BY <2>1 DEF Foreign
  <2> QED
    BY <1>1, <2>1
<1> QED
  BY <1>1, <1>2, <1>3, KnownIsRight, UnknownIsRight

\* A header that version 1 of the protocol describes, but for a port 0, is
\* refused only when the stream ends within it: whatever the addresses and ports are and whatever follows it.
THEOREM ServerNoneRefused == HeaderSpec => []NoneRefused
<1>1. HeaderInit => OnItsWay
  BY DEF HeaderInit, OnItsWay, TcpOnItsWay, UnknownOnItsWay
<1>2. HeaderInv /\ OnItsWay => NoneRefused
  BY RightHeaders DEF OnItsWay, TcpOnItsWay, UnknownOnItsWay, Cut, NoneRefused
<1> QED
  BY HeaderStarts, HeaderStep, OnItsWayStep, <1>1, <1>2, PTL DEF HeaderSpec
=============================================================================
