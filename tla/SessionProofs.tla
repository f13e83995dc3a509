--------------------------- MODULE SessionProofs ---------------------------
(***************************************************************************)
(* Proofs about module Session: its types, the keep-alive invariants, and  *)
(* that it implements module KeepAliveLoop.                                *)
(***************************************************************************)
EXTENDS Session, TLAPS

USE SessionAssumption

-----------------------------------------------------------------------------
(* Facts about the constants, the packets and the sequences they are in.   *)

\* The next keep-alive number is again a number of the width.
LEMMA NextSeqInId == ASSUME seq \in Id PROVE NextSeq \in Id
  BY Z3 DEF Id, NextSeq

\* Every packet the model names is a packet of its direction.
LEMMA PacketTypes ==
    /\ \A id \in Id : KeepAlive(id) \in Clientbound /\ KeepAlive(id) \in Serverbound
    /\ Data \in Clientbound /\ Shared \in Clientbound /\ Goodbye \in Clientbound
    /\ Absorbed \in Serverbound /\ Forwarded \in Serverbound /\ Bad \in Serverbound
  BY DEF Id, KeepAlive, Data, Shared, Goodbye, Absorbed, Forwarded, Bad,
         Clientbound, Serverbound

\* Reading the head of a queue takes its keep-alive, if it is one, away and
\* leaves at most one when there was at most one.
LEMMA PingsTail ==
    ASSUME NEW S, NEW q \in Seq(S), q # <<>>, AtMostOne(Pings(q))
    PROVE  /\ AtMostOne(Pings(Tail(q)))
           /\ Head(q) = q[1]
           /\ Head(q).kind = "KeepAlive" => 1 \in Pings(q) /\ Pings(Tail(q)) = {}
           /\ Head(q).kind # "KeepAlive" => (Pings(Tail(q)) = {} <=> Pings(q) = {})
           /\ \A i \in Pings(Tail(q)) : i + 1 \in Pings(q) /\ Tail(q)[i] = q[i + 1]
  <1>1. /\ Len(q) \in Nat \ {0} /\ DOMAIN q = 1 .. Len(q) /\ Head(q) = q[1]
        /\ Tail(q) \in Seq(S) /\ Len(Tail(q)) = Len(q) - 1
        /\ DOMAIN Tail(q) = 1 .. Len(q) - 1
        /\ \A i \in 1 .. Len(q) - 1 : Tail(q)[i] = q[i + 1]
    OBVIOUS
  <1>2. \A i \in Pings(Tail(q)) : i \in Nat \ {0} /\ i + 1 \in Pings(q) /\ Tail(q)[i] = q[i + 1]
    BY <1>1 DEF Pings
  <1>3. AtMostOne(Pings(Tail(q)))
    BY <1>2 DEF AtMostOne
  <1>4. ASSUME Head(q).kind = "KeepAlive" PROVE 1 \in Pings(q) /\ Pings(Tail(q)) = {}
    <2>1. 1 \in Pings(q)
      BY <1>1, <1>4 DEF Pings
    <2>2. \A i \in Pings(Tail(q)) : i + 1 = 1
      BY <1>2, <2>1 DEF AtMostOne
    <2>3. QED BY <1>2, <2>1, <2>2
  <1>5. ASSUME Head(q).kind # "KeepAlive", NEW j \in Pings(q) PROVE Pings(Tail(q)) # {}
    <2>1. j \in 2 .. Len(q) /\ q[j].kind = "KeepAlive"
      BY <1>1, <1>5 DEF Pings
    <2>2. j - 1 \in Pings(Tail(q))
      BY <1>1, <2>1 DEF Pings
    <2>3. QED BY <2>2
  <1>6. QED BY <1>1, <1>2, <1>3, <1>4, <1>5

\* Appending a packet adds its position if it is a keep-alive, and else nothing.
LEMMA PingsAppend ==
    ASSUME NEW S, NEW q \in Seq(S), NEW p \in S
    PROVE  /\ p.kind = "KeepAlive" => Pings(Append(q, p)) = Pings(q) \cup {Len(q) + 1}
           /\ p.kind # "KeepAlive" => Pings(Append(q, p)) = Pings(q)
           /\ \A i \in Pings(q) : Append(q, p)[i] = q[i]
           /\ Append(q, p)[Len(q) + 1] = p
  <1>1. /\ Len(q) \in Nat /\ DOMAIN q = 1 .. Len(q)
        /\ DOMAIN Append(q, p) = 1 .. Len(q) + 1
        /\ \A i \in 1 .. Len(q) : Append(q, p)[i] = q[i]
        /\ Append(q, p)[Len(q) + 1] = p
    OBVIOUS
  <1>2. QED BY <1>1 DEF Pings

\* Appending a packet that is no keep-alive moves no keep-alive.
LEMMA PingsAppendOther ==
    ASSUME NEW S, NEW q \in Seq(S), NEW p \in S, p.kind # "KeepAlive"
    PROVE  /\ Pings(Append(q, p)) = Pings(q)
           /\ \A i \in Pings(q) : Append(q, p)[i] = q[i]
  <1>1. Pings(Append(q, p)) = Pings(q)
    BY PingsAppend
  <1>2. \A i \in Pings(q) : Append(q, p)[i] = q[i]
    <2>1. \A i \in 1 .. Len(q) : Append(q, p)[i] = q[i]
      OBVIOUS
    <2>2. Pings(q) \subseteq 1 .. Len(q)
      BY DEF Pings
    <2>3. QED BY <2>1, <2>2
  <1>3. QED BY <1>1, <1>2

\* The empty queue holds no keep-alive.
LEMMA PingsEmpty == Pings(<<>>) = {}
  BY DEF Pings

-----------------------------------------------------------------------------
(* Types.                                                                  *)

\* A queue stays a queue of its packets under the operations on it.
LEMMA QueueTypes ==
    /\ <<>> \in Seq(Clientbound) /\ <<>> \in Seq(Serverbound)
    /\ \A q \in Seq(Clientbound) : \A p \in Clientbound : Append(q, p) \in Seq(Clientbound)
    /\ \A q \in Seq(Serverbound) : \A p \in Serverbound : Append(q, p) \in Seq(Serverbound)
    /\ \A q \in Seq(Clientbound) : q # <<>> => Head(q) \in Clientbound /\ Tail(q) \in Seq(Clientbound)
    /\ \A q \in Seq(Serverbound) : q # <<>> => Head(q) \in Serverbound /\ Tail(q) \in Seq(Serverbound)
  OBVIOUS

\* What TypeOK and CountedOnce say, as the inductive invariant of the types.
TypeInv == TypeOK /\ CountedOnce

LEMMA TypeInit == Init => TypeInv
  BY PacketTypes, QueueTypes DEF Init, Written, TypeInv, TypeOK, CountedOnce, Id, KeepAlive, Clientbound

LEMMA TypeStep == TypeInv /\ [Next]_vars => TypeInv'
  <1> SUFFICES ASSUME TypeInv, [Next]_vars PROVE TypeInv'
    OBVIOUS
  <1> USE PacketTypes DEF TypeInv, TypeOK, CountedOnce, readVars, writeVars, ownerVars, clientVars
  <1>1. CASE ReadTask
    <2>1. CASE ReadKeepAlive
      <3>0. inbound' \in 0 .. MaxQueue
        BY <2>1 DEF ReadKeepAlive, Forward
      <3>1. up # <<>> /\ (up' = Tail(up) \/ up' = <<>>)
        BY <2>1 DEF ReadKeepAlive, StopReader
      <3>1a. up' \in Seq(Serverbound)
        BY <3>1, QueueTypes
      <3>2. seq' \in Id /\ timers' \subseteq Id
        BY <2>1, NextSeqInId DEF ReadKeepAlive, Spawn
      <3>3. /\ reader' \in {"reading", "ended", "mismatch", "unheard"}
            /\ client_count' \in {0, 1}
            /\ CountedOnce'
        BY <2>1 DEF ReadKeepAlive, StopReader
      <3>4. QED BY <2>1, <3>0, <3>1a, <3>2, <3>3 DEF ReadKeepAlive
    <2>2. CASE ReadAbsorbed
      BY <2>2 DEF ReadAbsorbed
    <2>3. CASE ReadForwarded
      <3>0. inbound' \in 0 .. MaxQueue
        BY <2>3 DEF ReadForwarded, Forward
      <3>1. up # <<>> /\ (up' = Tail(up) \/ up' = <<>>)
        BY <2>3 DEF ReadForwarded, StopReader
      <3>1a. up' \in Seq(Serverbound)
        BY <3>1, QueueTypes
      <3>2. QED BY <2>3, <3>0, <3>1a DEF ReadForwarded, StopReader
    <2>4. CASE ReadError
      BY <2>4 DEF ReadError, StopReader
    <2>5. QED BY <1>1, <2>1, <2>2, <2>3, <2>4 DEF ReadTask
  <1>2. ASSUME NEW id \in timers, SendKeepAlive(id) PROVE TypeInv'
    BY <1>2 DEF SendKeepAlive, Enqueue
  <1>3. CASE WriteTask
    <2>1. CASE WritePacketOut
      BY <2>1 DEF WritePacketOut
    <2>2. CASE WriteError
      BY <2>2 DEF WriteError
    <2>3. CASE WriterDrained
      BY <2>3 DEF WriterDrained
    <2>4. QED BY <1>3, <2>1, <2>2, <2>3 DEF WriteTask
  <1>4. CASE Owner
    <2>1. CASE WritePacket
      BY <2>1 DEF WritePacket, Enqueue
    <2>2. CASE Disconnect
      <3>1. outbound' = outbound \/ outbound' = Append(outbound, Goodbye)
        BY <2>2 DEF Disconnect, Enqueue
      <3>2. outbound' \in Seq(Clientbound)
        BY <3>1, QueueTypes
      <3>3. QED BY <2>2, <3>2 DEF Disconnect
    <2>3. CASE NextPacket
      <3>1. inbound' = inbound \/ (inbound > 0 /\ inbound' = inbound - 1)
        BY <2>3 DEF NextPacket
      <3>2. inbound' \in 0 .. MaxQueue
        BY <3>1
      <3>3. QED BY <2>3, <3>2 DEF NextPacket
    <2>4. CASE CloneWriter
      BY <2>4 DEF CloneWriter
    <2>5. CASE WriteShared
      BY <2>5 DEF WriteShared, Enqueue
    <2>6. CASE DropClone
      BY <2>6 DEF DropClone
    <2>7. CASE DropPlayer
      BY <2>7 DEF DropPlayer
    <2>8. QED BY <1>4, <2>1, <2>2, <2>3, <2>4, <2>5, <2>6, <2>7 DEF Owner
  <1>5. CASE Client
    <2>1. CASE ClientAnswer
      <3>1. faithful' \in BOOLEAN
        BY <2>1 DEF ClientAnswer
      <3>2. /\ down # <<>> /\ down' = Tail(down)
            /\ up' = up \/ \E id \in Id : up' = Append(up, KeepAlive(id))
        BY <2>1 DEF ClientAnswer
      <3>3. up' \in Seq(Serverbound) /\ down' \in Seq(Clientbound)
        BY <3>2, QueueTypes
      <3>4. QED BY <2>1, <3>1, <3>3 DEF ClientAnswer
    <2>2. CASE ClientRead
      BY <2>2 DEF ClientRead
    <2>3. CASE ClientLeave
      BY <2>3 DEF ClientLeave, Close
    <2>4. CASE ClientSend
      BY <2>4 DEF ClientSend
    <2>5. CASE ClientCrash
      BY <2>5 DEF ClientCrash, Close
    <2>6. QED BY <1>5, <2>1, <2>2, <2>3, <2>4, <2>5 DEF Client, ClientReads
  <1>6. CASE UNCHANGED vars
    BY <1>6 DEF vars
  <1>7. QED BY <1>1, <1>2, <1>3, <1>4, <1>5, <1>6 DEF Next

\* Every reachable state is well typed, for every width, window and bound.
THEOREM SessionTypes == Spec => []TypeOK
  <1>1. TypeInv => TypeOK
    BY DEF TypeInv
  <1>2. QED BY <1>1, TypeInit, TypeStep, PTL DEF Spec

-----------------------------------------------------------------------------
(* The keep-alive invariants.                                              *)

\* OneKeepAlive over four sets: the places of a keep-alive, without the record.
Single(a, b, c, d) ==
    /\ AtMostOne(a) /\ AtMostOne(b) /\ AtMostOne(c) /\ AtMostOne(d)
    /\ a = {} \/ b = {}
    /\ a = {} \/ c = {}
    /\ a = {} \/ d = {}
    /\ b = {} \/ c = {}
    /\ b = {} \/ d = {}
    /\ c = {} \/ d = {}

LEMMA SingleIff ==
    /\ OneKeepAlive <=> Single(timers, Pings(outbound), Pings(down), Pings(up))
    /\ OneKeepAlive' <=> Single(timers', Pings(outbound'), Pings(down'), Pings(up'))
  BY DEF OneKeepAlive, Single, Places, At

\* One of the places holds a keep-alive.
Some(a, b, c, d) == a # {} \/ b # {} \/ c # {} \/ d # {}

LEMMA SomeIff ==
    /\ (\E p \in Places : At[p] # {}) <=> Some(timers, Pings(outbound), Pings(down), Pings(up))
    /\ (\E p \in Places : At[p] # {})' <=> Some(timers', Pings(outbound'), Pings(down'), Pings(up'))
  BY DEF Some, Places, At

LEMMA KeepAliveInit == Init => KeepAliveInv
  <1> SUFFICES ASSUME Init PROVE KeepAliveInv
    OBVIOUS
  <1>1. TypeOK /\ CountedOnce
    BY TypeInit DEF TypeInv
  <1>2. Pings(outbound) = {} /\ Pings(up) = {} /\ timers = {}
    BY PingsEmpty DEF Init
  <1>3. Pings(down) = {1} /\ down[1] = KeepAlive(0)
    BY DEF Init, Written, Pings, KeepAlive
  <1>4. OneKeepAlive
    BY <1>2, <1>3, SingleIff DEF Single, AtMostOne
  <1>5. InStep
    BY <1>2, <1>3 DEF InStep, Init, Written, KeepAlive
  <1>6. NoFalseKick /\ ChainUnbroken
    BY <1>3, SomeIff DEF Init, NoFalseKick, ChainUnbroken, Some
  <1>7. QED BY <1>1, <1>4, <1>5, <1>6 DEF KeepAliveInv

\* A step that leaves the four places, the sequence number and the states of
\* the tasks and the client alone keeps the invariants.
LEMMA KeepAliveUnchanged ==
    ASSUME OneKeepAlive, InStep, NoFalseKick, ChainUnbroken,
           UNCHANGED <<timers, outbound, down, up, seq, reader, writer, clientVars>>
    PROVE  OneKeepAlive' /\ InStep' /\ NoFalseKick' /\ ChainUnbroken'
  BY DEF OneKeepAlive, InStep, NoFalseKick, ChainUnbroken, Places, At, clientVars

\* The read task ends: the answers it has not read are gone.
LEMMA KeepAliveStopped ==
    ASSUME OneKeepAlive, InStep, up' = <<>>, reader' # "reading",
           UNCHANGED <<timers, outbound, down, seq, writer, clientVars>>
    PROVE  OneKeepAlive' /\ InStep' /\ ChainUnbroken'
  <1>1. Pings(up') = {}
    BY PingsEmpty
  <1>2. OneKeepAlive'
    BY <1>1, SingleIff DEF Single, AtMostOne
  <1>3. InStep' /\ ChainUnbroken'
    BY <1>1 DEF InStep, ChainUnbroken, clientVars
  <1>4. QED BY <1>2, <1>3

\* The read task takes a packet that is no keep-alive.
LEMMA KeepAliveOtherRead ==
    ASSUME TypeOK, OneKeepAlive, InStep, NoFalseKick, ChainUnbroken,
           up # <<>>, Head(up).kind # "KeepAlive", up' = Tail(up),
           UNCHANGED <<timers, outbound, down, seq, reader, writer, clientVars>>
    PROVE  OneKeepAlive' /\ InStep' /\ NoFalseKick' /\ ChainUnbroken'
  <1>1. /\ Single(timers, Pings(outbound), Pings(down), Pings(up))
        /\ up \in Seq(Serverbound)
    BY SingleIff DEF TypeOK
  <1>2. /\ AtMostOne(Pings(up'))
        /\ Pings(up') = {} <=> Pings(up) = {}
        /\ \A i \in Pings(up') : i + 1 \in Pings(up) /\ up'[i] = up[i + 1]
    BY <1>1, PingsTail DEF Single
  <1>3. OneKeepAlive'
    BY <1>1, <1>2, SingleIff DEF Single
  <1>4. InStep'
    <2>1. faithful => \A i \in Pings(up') : up'[i].id = seq
      <3>1. faithful => \A i \in Pings(up) : up[i].id = seq
        BY DEF InStep
      <3>2. QED BY <1>2, <3>1
    <2>2. QED BY <2>1 DEF InStep, clientVars
  <1>5. ChainUnbroken'
    BY <1>2, SomeIff DEF ChainUnbroken, Some, clientVars
  <1>6. QED BY <1>3, <1>4, <1>5 DEF NoFalseKick, clientVars

LEMMA ReadKeepAliveStep ==
    ASSUME TypeOK, OneKeepAlive, InStep, NoFalseKick, ChainUnbroken, ReadKeepAlive
    PROVE  OneKeepAlive' /\ InStep' /\ NoFalseKick' /\ ChainUnbroken'
  <1>1. /\ Single(timers, Pings(outbound), Pings(down), Pings(up))
        /\ up \in Seq(Serverbound) /\ up # <<>> /\ Head(up).kind = "KeepAlive"
    BY SingleIff DEF TypeOK, ReadKeepAlive
  <1>2. 1 \in Pings(up) /\ Head(up) = up[1] /\ Pings(Tail(up)) = {}
    BY <1>1, PingsTail DEF Single
  <1>3. timers = {} /\ Pings(outbound) = {} /\ Pings(down) = {}
    BY <1>1, <1>2 DEF Single
  <1>4. UNCHANGED <<writer, outbound, clientVars, down>>
    BY DEF ReadKeepAlive, writeVars
  <1>5. CASE up' = Tail(up) /\ timers' = timers \cup {NextSeq} /\ seq' = NextSeq /\ reader' = reader
    <2>1. OneKeepAlive'
      BY <1>2, <1>3, <1>4, <1>5, SingleIff DEF Single, AtMostOne
    <2>2. InStep'
      BY <1>2, <1>3, <1>4, <1>5 DEF InStep
    <2>3. ChainUnbroken'
      BY <1>5, SomeIff DEF ChainUnbroken, Some
    <2>4. QED BY <2>1, <2>2, <2>3, <1>4, <1>5 DEF NoFalseKick, clientVars
  <1>6. CASE StopReader("unheard") /\ UNCHANGED <<seq, timers>>
    <2>1. NoFalseKick'
      BY <1>6 DEF StopReader, NoFalseKick
    <2>2. QED BY <2>1, <1>4, <1>6, KeepAliveStopped DEF StopReader
  <1>7. CASE StopReader("mismatch") /\ UNCHANGED <<seq, timers>> /\ Head(up).id # seq
    <2>1. ~faithful
      BY <1>2, <1>7 DEF InStep
    <2>2. NoFalseKick'
      BY <2>1, <1>4 DEF NoFalseKick, clientVars
    <2>3. QED BY <2>2, <1>4, <1>7, KeepAliveStopped DEF StopReader
  <1>8. QED BY <1>5, <1>6, <1>7 DEF ReadKeepAlive, Spawn

LEMMA SendKeepAliveStep ==
    ASSUME TypeOK, OneKeepAlive, InStep, NoFalseKick, ChainUnbroken,
           NEW id \in timers, SendKeepAlive(id)
    PROVE  OneKeepAlive' /\ InStep' /\ NoFalseKick' /\ ChainUnbroken'
  <1>1. /\ Single(timers, Pings(outbound), Pings(down), Pings(up))
        /\ outbound \in Seq(Clientbound) /\ id \in Id /\ Len(outbound) \in Nat
    BY SingleIff DEF TypeOK
  <1>2. /\ timers' = {} /\ id = seq
        /\ Pings(outbound) = {} /\ Pings(down) = {} /\ Pings(up) = {}
    BY <1>1 DEF Single, AtMostOne, SendKeepAlive, InStep
  <1>3. UNCHANGED <<seq, reader, writer, down, up, clientVars>>
    BY DEF SendKeepAlive, readVars
  <1>4. CASE writer = "running"
    <2>1. outbound' = Append(outbound, KeepAlive(id))
      BY <1>4 DEF SendKeepAlive, Enqueue
    <2>2. KeepAlive(id).kind = "KeepAlive" /\ KeepAlive(id).id = id
      BY DEF KeepAlive
    <2>3. /\ Pings(outbound') = {Len(outbound) + 1}
          /\ outbound'[Len(outbound) + 1].id = id
      BY <1>1, <1>2, <2>1, <2>2, PacketTypes, PingsAppend
    <2>4. OneKeepAlive'
      BY <1>2, <1>3, <2>3, SingleIff DEF Single, AtMostOne
    <2>5. InStep'
      BY <1>2, <1>3, <2>3 DEF InStep
    <2>6. ChainUnbroken'
      BY <2>3, SomeIff DEF ChainUnbroken, Some
    <2>7. QED BY <2>4, <2>5, <2>6, <1>3 DEF NoFalseKick, clientVars
  <1>5. CASE writer # "running"
    <2>1. outbound' = outbound
      BY <1>5 DEF SendKeepAlive, Enqueue
    <2>2. OneKeepAlive'
      BY <1>1, <1>2, <1>3, <2>1, SingleIff DEF Single, AtMostOne
    <2>3. InStep' /\ NoFalseKick' /\ ChainUnbroken'
      BY <1>2, <1>3, <1>5, <2>1 DEF InStep, NoFalseKick, ChainUnbroken, clientVars
    <2>4. QED BY <2>2, <2>3
  <1>6. QED BY <1>4, <1>5

LEMMA WritePacketOutStep ==
    ASSUME TypeOK, OneKeepAlive, InStep, NoFalseKick, ChainUnbroken, WritePacketOut
    PROVE  OneKeepAlive' /\ InStep' /\ NoFalseKick' /\ ChainUnbroken'
  <1>1. /\ Single(timers, Pings(outbound), Pings(down), Pings(up))
        /\ outbound \in Seq(Clientbound) /\ outbound # <<>> /\ Head(outbound) \in Clientbound
        /\ down \in Seq(Clientbound) /\ Len(down) \in Nat
        /\ outbound' = Tail(outbound)
    BY SingleIff, QueueTypes DEF TypeOK, WritePacketOut
  <1>2. UNCHANGED <<timers, seq, reader, writer, clientVars, up>>
    BY DEF WritePacketOut, readVars
  <1>3. /\ AtMostOne(Pings(outbound')) /\ Head(outbound) = outbound[1]
        /\ Head(outbound).kind = "KeepAlive" => 1 \in Pings(outbound) /\ Pings(outbound') = {}
        /\ Head(outbound).kind # "KeepAlive" => (Pings(outbound') = {} <=> Pings(outbound) = {})
        /\ \A i \in Pings(outbound') : i + 1 \in Pings(outbound) /\ outbound'[i] = outbound[i + 1]
    BY <1>1, PingsTail DEF Single
  <1>4. NoFalseKick'
    BY <1>2 DEF NoFalseKick, clientVars
  <1>5. CASE client = "closed" /\ down' = down
    <2>1. OneKeepAlive'
      BY <1>1, <1>2, <1>3, <1>5, SingleIff DEF Single, AtMostOne
    <2>2. InStep' /\ ChainUnbroken'
      BY <1>2, <1>3, <1>5 DEF InStep, ChainUnbroken, clientVars
    <2>3. QED BY <1>4, <2>1, <2>2
  <1>6. CASE down' = Append(down, Head(outbound)) /\ Head(outbound).kind = "KeepAlive"
    <2>1. /\ Pings(down') = {Len(down) + 1}
          /\ down'[Len(down) + 1] = outbound[1]
          /\ timers = {} /\ Pings(up) = {} /\ Pings(outbound') = {}
      BY <1>1, <1>3, <1>6, PingsAppend DEF Single
    <2>2. OneKeepAlive'
      BY <1>2, <2>1, SingleIff DEF Single, AtMostOne
    <2>3. InStep'
      BY <1>2, <1>3, <1>6, <2>1 DEF InStep
    <2>4. ChainUnbroken'
      BY <2>1, SomeIff DEF ChainUnbroken, Some
    <2>5. QED BY <1>4, <2>2, <2>3, <2>4
  <1>7. CASE down' = Append(down, Head(outbound)) /\ Head(outbound).kind # "KeepAlive"
    <2>1. Pings(down') = Pings(down) /\ \A i \in Pings(down) : down'[i] = down[i]
      <3> DEFINE p == Head(outbound)
      <3>1. down' = Append(down, p) /\ p \in Clientbound /\ p.kind # "KeepAlive"
        BY <1>1, <1>7
      <3> HIDE DEF p
      <3>2. QED BY <1>1, <3>1, PingsAppendOther
    <2>2. OneKeepAlive'
      BY <1>1, <1>2, <1>3, <1>7, <2>1, SingleIff DEF Single
    <2>3. InStep'
      BY <1>2, <1>3, <2>1 DEF InStep, clientVars
    <2>4. ChainUnbroken'
      BY <1>2, <1>3, <1>7, <2>1, SomeIff DEF ChainUnbroken, Some, clientVars
    <2>5. QED BY <1>4, <2>2, <2>3, <2>4
  <1>8. QED BY <1>5, <1>6, <1>7 DEF WritePacketOut

\* A packet that is no keep-alive joins the write task's channel, or does not.
LEMMA OtherEnqueued ==
    ASSUME TypeOK, OneKeepAlive, InStep, NoFalseKick, ChainUnbroken,
           NEW packet \in Clientbound, packet.kind # "KeepAlive", Enqueue(packet),
           UNCHANGED <<timers, down, up, seq, reader, writer, clientVars>>
    PROVE  OneKeepAlive' /\ InStep' /\ NoFalseKick' /\ ChainUnbroken'
  <1>1. /\ Single(timers, Pings(outbound), Pings(down), Pings(up))
        /\ outbound \in Seq(Clientbound)
    BY SingleIff DEF TypeOK
  <1>2. Pings(outbound') = Pings(outbound) /\ \A i \in Pings(outbound) : outbound'[i] = outbound[i]
    <2>1. /\ Pings(Append(outbound, packet)) = Pings(outbound)
          /\ \A i \in Pings(outbound) : Append(outbound, packet)[i] = outbound[i]
      BY <1>1, PingsAppendOther
    <2>2. outbound' = Append(outbound, packet) \/ outbound' = outbound
      BY DEF Enqueue
    <2>3. QED BY <2>1, <2>2
  <1>3. OneKeepAlive'
    BY <1>1, <1>2, SingleIff DEF Single
  <1>4. InStep'
    BY <1>2 DEF InStep, clientVars
  <1>5. ChainUnbroken'
    BY <1>2, SomeIff DEF ChainUnbroken, Some, clientVars
  <1>6. QED BY <1>3, <1>4, <1>5 DEF NoFalseKick, clientVars

\* The packets still under way are forgotten because the client is gone.
LEMMA KeepAliveClosed ==
    ASSUME OneKeepAlive, InStep, NoFalseKick,
           client' = "closed", down' \in {down, <<>>}, outbound' \in {outbound, <<>>},
           UNCHANGED <<timers, up, seq, reader, faithful>>
    PROVE  OneKeepAlive' /\ InStep' /\ NoFalseKick' /\ ChainUnbroken'
  <1>1. Single(timers, Pings(outbound), Pings(down), Pings(up))
    BY SingleIff
  <1>2. /\ down' = down \/ Pings(down') = {}
        /\ outbound' = outbound \/ Pings(outbound') = {}
    BY PingsEmpty
  <1>3. OneKeepAlive'
    BY <1>1, <1>2, SingleIff DEF Single, AtMostOne
  <1>4. InStep'
    BY <1>2 DEF InStep
  <1>5. NoFalseKick' /\ ChainUnbroken'
    BY DEF NoFalseKick, ChainUnbroken
  <1>6. QED BY <1>3, <1>4, <1>5

LEMMA ClientAnswerStep ==
    ASSUME TypeOK, OneKeepAlive, InStep, NoFalseKick, ChainUnbroken, ClientAnswer
    PROVE  OneKeepAlive' /\ InStep' /\ NoFalseKick' /\ ChainUnbroken'
  <1>1. /\ Single(timers, Pings(outbound), Pings(down), Pings(up))
        /\ down \in Seq(Clientbound) /\ down # <<>> /\ Head(down).kind = "KeepAlive"
        /\ down' = Tail(down)
        /\ up \in Seq(Serverbound) /\ Len(up) \in Nat
    BY SingleIff DEF TypeOK, ClientAnswer
  <1>2. UNCHANGED <<timers, seq, reader, writer, outbound, client>>
    BY DEF ClientAnswer, readVars, writeVars
  <1>3. 1 \in Pings(down) /\ Head(down) = down[1] /\ Pings(down') = {}
    BY <1>1, PingsTail DEF Single
  <1>4. /\ timers = {} /\ Pings(outbound) = {} /\ Pings(up) = {}
        /\ Head(down).id = seq
    BY <1>1, <1>3 DEF Single, InStep
  <1>5. faithful' => faithful
    BY DEF ClientAnswer
  <1>6. NoFalseKick'
    BY <1>2, <1>5 DEF NoFalseKick
  <1>7. CASE up' = up
    <2>1. OneKeepAlive'
      BY <1>1, <1>2, <1>3, <1>4, <1>7, SingleIff DEF Single, AtMostOne
    <2>2. InStep'
      BY <1>2, <1>3, <1>4, <1>7 DEF InStep
    <2>3. reader # "reading" \/ ~faithful'
      <3>1. ASSUME NEW id \in Id, up' = Append(up, KeepAlive(id)) PROVE FALSE
        BY <1>1, <1>7, <3>1, PacketTypes
      <3>2. QED BY <3>1 DEF ClientAnswer
    <2>4. ChainUnbroken'
      BY <1>2, <2>3 DEF ChainUnbroken
    <2>5. QED BY <1>6, <2>1, <2>2, <2>4
  <1>8. ASSUME NEW id \in Id, up' = Append(up, KeepAlive(id)),
               faithful' => id = Head(down).id
        PROVE  OneKeepAlive' /\ InStep' /\ NoFalseKick' /\ ChainUnbroken'
    <2>1. KeepAlive(id).kind = "KeepAlive" /\ KeepAlive(id).id = id
      BY DEF KeepAlive
    <2>2. Pings(up') = {Len(up) + 1} /\ up'[Len(up) + 1].id = id
      BY <1>1, <1>4, <1>8, <2>1, PacketTypes, PingsAppend
    <2>3. OneKeepAlive'
      BY <1>2, <1>3, <1>4, <2>2, SingleIff DEF Single, AtMostOne
    <2>4. InStep'
      BY <1>2, <1>3, <1>4, <1>8, <2>2 DEF InStep
    <2>5. ChainUnbroken'
      BY <2>2, SomeIff DEF ChainUnbroken, Some
    <2>6. QED BY <1>6, <2>3, <2>4, <2>5
  <1>9. up' = up \/ \E id \in Id : up' = Append(up, KeepAlive(id)) /\ (faithful' => id = Head(down).id)
    BY DEF ClientAnswer
  <1>10. QED BY <1>7, <1>8, <1>9

LEMMA ClientReadStep ==
    ASSUME TypeOK, OneKeepAlive, InStep, NoFalseKick, ChainUnbroken, ClientRead
    PROVE  OneKeepAlive' /\ InStep' /\ NoFalseKick' /\ ChainUnbroken'
  <1>1. /\ Single(timers, Pings(outbound), Pings(down), Pings(up))
        /\ down \in Seq(Clientbound) /\ down # <<>> /\ Head(down).kind # "KeepAlive"
        /\ down' = Tail(down)
    BY SingleIff DEF TypeOK, ClientRead
  <1>2. UNCHANGED <<timers, seq, reader, writer, outbound, clientVars, up>>
    BY DEF ClientRead, readVars, writeVars
  <1>3. /\ AtMostOne(Pings(down'))
        /\ Pings(down') = {} <=> Pings(down) = {}
        /\ \A i \in Pings(down') : i + 1 \in Pings(down) /\ down'[i] = down[i + 1]
    BY <1>1, PingsTail DEF Single
  <1>4. OneKeepAlive'
    BY <1>1, <1>2, <1>3, SingleIff DEF Single
  <1>5. InStep'
    BY <1>2, <1>3 DEF InStep, clientVars
  <1>6. ChainUnbroken'
    BY <1>2, <1>3, SomeIff DEF ChainUnbroken, Some, clientVars
  <1>7. QED BY <1>2, <1>4, <1>5, <1>6 DEF NoFalseKick, clientVars

LEMMA ClientSendStep ==
    ASSUME TypeOK, OneKeepAlive, InStep, NoFalseKick, ChainUnbroken, ClientSend
    PROVE  OneKeepAlive' /\ InStep' /\ NoFalseKick' /\ ChainUnbroken'
  <1>1. PICK packet \in {Absorbed, Forwarded, Bad} : up' = Append(up, packet)
    BY DEF ClientSend
  <1>2. packet \in Serverbound /\ packet.kind # "KeepAlive"
    BY PacketTypes DEF Absorbed, Forwarded, Bad
  <1>3. /\ Single(timers, Pings(outbound), Pings(down), Pings(up))
        /\ up \in Seq(Serverbound)
    BY SingleIff DEF TypeOK
  <1>4. Pings(up') = Pings(up) /\ \A i \in Pings(up) : up'[i] = up[i]
    BY <1>1, <1>2, <1>3, PingsAppendOther
  <1>5. UNCHANGED <<timers, seq, reader, writer, outbound, clientVars, down>>
    BY DEF ClientSend, readVars, writeVars
  <1>6. OneKeepAlive'
    BY <1>3, <1>4, <1>5, SingleIff DEF Single
  <1>7. InStep'
    BY <1>4, <1>5 DEF InStep, clientVars
  <1>8. ChainUnbroken'
    BY <1>4, <1>5, SomeIff DEF ChainUnbroken, Some, clientVars
  <1>9. QED BY <1>5, <1>6, <1>7, <1>8 DEF NoFalseKick, clientVars

LEMMA KeepAliveStep == KeepAliveInv /\ [Next]_vars => KeepAliveInv'
  <1> SUFFICES ASSUME KeepAliveInv, [Next]_vars PROVE KeepAliveInv'
    OBVIOUS
  <1>1. TypeOK /\ OneKeepAlive /\ InStep /\ NoFalseKick /\ ChainUnbroken
    BY DEF KeepAliveInv
  <1>2. TypeOK' /\ CountedOnce'
    BY TypeStep DEF TypeInv, KeepAliveInv
  <1> DEFINE Kept == OneKeepAlive' /\ InStep' /\ NoFalseKick' /\ ChainUnbroken'
  <1> SUFFICES Kept
    BY <1>2 DEF KeepAliveInv
  <1> USE DEF readVars, writeVars, ownerVars, clientVars
  <1>3. CASE ReadTask
    <2>1. CASE ReadKeepAlive
      BY <1>1, <2>1, ReadKeepAliveStep
    <2>2. CASE ReadAbsorbed
      BY <1>1, <2>2, KeepAliveOtherRead DEF ReadAbsorbed
    <2>3. CASE ReadForwarded
      <3>1. CASE up' = Tail(up) /\ reader' = reader
        BY <1>1, <2>3, <3>1, KeepAliveOtherRead DEF ReadForwarded
      <3>2. CASE StopReader("unheard")
        <4>1. NoFalseKick'
          BY <3>2 DEF StopReader, NoFalseKick
        <4>2. QED BY <1>1, <2>3, <3>2, <4>1, KeepAliveStopped DEF ReadForwarded, StopReader
      <3>3. QED BY <2>3, <3>1, <3>2 DEF ReadForwarded
    <2>4. CASE ReadError
      <3>1. NoFalseKick'
        BY <2>4 DEF ReadError, StopReader, NoFalseKick
      <3>2. QED BY <1>1, <2>4, <3>1, KeepAliveStopped DEF ReadError, StopReader
    <2>5. QED BY <1>3, <2>1, <2>2, <2>3, <2>4 DEF ReadTask
  <1>4. ASSUME NEW id \in timers, SendKeepAlive(id) PROVE Kept
    BY <1>1, <1>4, SendKeepAliveStep
  <1>5. CASE WriteTask
    <2>1. CASE WritePacketOut
      BY <1>1, <2>1, WritePacketOutStep
    <2>2. CASE WriteError
      <3>1. /\ outbound' = <<>> /\ writer' # "running"
            /\ UNCHANGED <<timers, down, up, seq, reader, faithful>>
        BY <2>2 DEF WriteError
      <3>2. Single(timers, Pings(outbound), Pings(down), Pings(up)) /\ Pings(outbound') = {}
        BY <1>1, <3>1, SingleIff, PingsEmpty
      <3>3. OneKeepAlive'
        BY <3>1, <3>2, SingleIff DEF Single, AtMostOne
      <3>4. InStep' /\ NoFalseKick'
        BY <1>1, <3>1, <3>2 DEF InStep, NoFalseKick
      <3>5. ChainUnbroken'
        BY <3>1 DEF ChainUnbroken
      <3>6. QED BY <3>3, <3>4, <3>5
    <2>3. CASE WriterDrained
      <3>1. UNCHANGED <<timers, outbound, down, up, seq, reader, clientVars>> /\ reader # "reading"
        BY <2>3 DEF WriterDrained, NoSenders
      <3>2. OneKeepAlive' /\ InStep' /\ NoFalseKick'
        BY <1>1, <3>1 DEF OneKeepAlive, InStep, NoFalseKick, Places, At
      <3>3. ChainUnbroken'
        BY <3>1 DEF ChainUnbroken
      <3>4. QED BY <3>2, <3>3
    <2>4. QED BY <1>5, <2>1, <2>2, <2>3 DEF WriteTask
  <1>6. CASE Owner
    <2>1. Data.kind # "KeepAlive" /\ Goodbye.kind # "KeepAlive" /\ Shared.kind # "KeepAlive"
      BY DEF Data, Goodbye, Shared
    <2>2. CASE WritePacket
      BY <1>1, <2>1, <2>2, PacketTypes, OtherEnqueued DEF WritePacket
    <2>3. CASE Disconnect
      BY <1>1, <2>1, <2>3, PacketTypes, OtherEnqueued DEF Disconnect
    <2>4. CASE WriteShared
      BY <1>1, <2>1, <2>4, PacketTypes, OtherEnqueued DEF WriteShared
    <2>5. CASE NextPacket \/ CloneWriter \/ DropClone \/ DropPlayer
      BY <1>1, <2>5, KeepAliveUnchanged DEF NextPacket, CloneWriter, DropClone, DropPlayer
    <2>6. QED BY <1>6, <2>2, <2>3, <2>4, <2>5 DEF Owner
  <1>7. CASE Client
    <2>1. CASE ClientAnswer
      BY <1>1, <2>1, ClientAnswerStep
    <2>2. CASE ClientRead
      BY <1>1, <2>2, ClientReadStep
    <2>3. CASE ClientSend
      BY <1>1, <2>3, ClientSendStep
    <2>4. CASE ClientLeave \/ ClientCrash
      BY <1>1, <2>4, KeepAliveClosed DEF ClientLeave, ClientCrash, Close
    <2>5. QED BY <1>7, <2>1, <2>2, <2>3, <2>4 DEF Client, ClientReads
  <1>8. CASE UNCHANGED vars
    BY <1>1, <1>8, KeepAliveUnchanged DEF vars
  <1>9. QED BY <1>3, <1>4, <1>5, <1>6, <1>7, <1>8 DEF Next

\* The inductive invariant holds in every reachable state.
LEMMA KeepAliveInvariant == Spec => []KeepAliveInv
  BY KeepAliveInit, KeepAliveStep, PTL DEF Spec

\* At most one keep-alive is ever under way, for every width and bound.
THEOREM SessionOneKeepAlive == Spec => []OneKeepAlive
  <1>1. KeepAliveInv => OneKeepAlive
    BY DEF KeepAliveInv
  <1>2. QED BY <1>1, KeepAliveInvariant, PTL

\* Keep-alives on their way carry the number the read task waits for.
THEOREM SessionInStep == Spec => []InStep
  <1>1. KeepAliveInv => InStep
    BY DEF KeepAliveInv
  <1>2. QED BY <1>1, KeepAliveInvariant, PTL

\* A client that answers with the right numbers is never dropped for a wrong one.
THEOREM SessionNoFalseKick == Spec => []NoFalseKick
  <1>1. KeepAliveInv => NoFalseKick
    BY DEF KeepAliveInv
  <1>2. QED BY <1>1, KeepAliveInvariant, PTL

\* The chain of keep-alives does not break while both ends and both tasks live.
THEOREM SessionChainUnbroken == Spec => []ChainUnbroken
  <1>1. KeepAliveInv => ChainUnbroken
    BY DEF KeepAliveInv
  <1>2. QED BY <1>1, KeepAliveInvariant, PTL

-----------------------------------------------------------------------------
(* The owner's view of the end.                                            *)

LEMMA StrandedStep ==
    ASSUME [Next]_vars, active, ~active', inbound > 0
    PROVE  writer # "running" \/ outbound' = Append(outbound, Goodbye)
  <1>1. CASE WritePacket
    BY <1>1 DEF WritePacket
  <1>2. CASE Disconnect
    BY <1>2 DEF Disconnect, Enqueue
  <1>3. CASE NextPacket
    <2>1. inbound # 0
      OBVIOUS
    <2>2. UNCHANGED active
      BY <1>3, <2>1 DEF NextPacket
    <2>3. QED BY <2>2
  <1>4. CASE Owner /\ ~(WritePacket \/ Disconnect \/ NextPacket)
    BY <1>4 DEF Owner, CloneWriter, WriteShared, DropClone, DropPlayer, ownerVars
  <1>5. CASE ReadTask \/ WriteTask \/ Client \/ \E id \in timers : SendKeepAlive(id)
    BY <1>5 DEF ReadTask, ReadKeepAlive, ReadAbsorbed, ReadForwarded, ReadError,
                WriteTask, WritePacketOut, WriteError, WriterDrained, SendKeepAlive,
                Client, ClientReads, ClientAnswer, ClientRead, ClientLeave, ClientSend,
                ClientCrash, ownerVars
  <1>6. CASE UNCHANGED vars
    BY <1>6 DEF vars, ownerVars
  <1>7. QED BY <1>1, <1>2, <1>3, <1>4, <1>5, <1>6 DEF Next

\* PacketLocker::next_packet hands out every packet that the read task has
\* forwarded before it reports the end of the connection.
THEOREM SessionNothingStranded == Spec => NothingStranded
  <1>1. [Next]_vars =>
          [(active /\ ~active' /\ inbound > 0)
              => (writer # "running" \/ outbound' = Append(outbound, Goodbye))]_vars
    BY StrandedStep
  <1>2. QED BY <1>1, PTL DEF Spec, NothingStranded

-----------------------------------------------------------------------------
(* The session implements the keep-alive loop.                             *)

\* Where the ball is, in terms of the places of a keep-alive.
Out == timers # {} \/ Pings(outbound) # {} \/ Pings(down) # {}
Answered == Pings(up) # {}
Right == \A i \in Pings(up) : up[i].id = seq

LEMMA BallIs ==
    /\ Ball = IF Out THEN "out" ELSE IF ~Answered THEN "gone" ELSE IF Right THEN "back" ELSE "wrong"
    /\ Ball' = IF Out' THEN "out" ELSE IF ~Answered' THEN "gone"
               ELSE IF Right' THEN "back" ELSE "wrong"
  BY DEF Ball, At, Out, Answered, Right

\* The ball stays where it is.
LEMMA BallStays ==
    ASSUME UNCHANGED seq, Out' <=> Out,
           Out \/ ((Answered' <=> Answered) /\ (Right' <=> Right))
    PROVE  [Loop!Next]_<<seq, Ball>>
  BY BallIs

\* The ball is lost, if it was not before.
LEMMA BallLost ==
    ASSUME UNCHANGED seq, ~Out', ~Answered'
    PROVE  [Loop!Next]_<<seq, Ball>>
  <1>1. Ball' = "gone"
    BY BallIs
  <1>2. CASE Ball = "gone"
    BY <1>1, <1>2
  <1>3. CASE Ball # "gone"
    BY <1>1, <1>3 DEF Loop!Next, Loop!Lose
  <1>4. QED BY <1>2, <1>3

\* A keep-alive is out or answered, never both.
LEMMA OutOrAnswered ==
    ASSUME OneKeepAlive, Out
    PROVE  ~Answered
  BY SingleIff DEF Single, Out, Answered

\* What is under way to the client may vanish.
LEMMA BallVanishes ==
    ASSUME OneKeepAlive, UNCHANGED <<seq, up>>, Out' => Out
    PROVE  [Loop!Next]_<<seq, Ball>>
  <1>1. (Answered' <=> Answered) /\ (Right' <=> Right)
    BY DEF Answered, Right
  <1>2. CASE Out' <=> Out
    BY <1>1, <1>2, BallStays
  <1>3. CASE Out /\ ~Out'
    BY <1>1, <1>3, OutOrAnswered, BallLost
  <1>4. QED BY <1>2, <1>3

\* The read task ends, and no answer will be read.
LEMMA BallUnread ==
    ASSUME up' = <<>>, UNCHANGED <<seq, timers, outbound, down>>
    PROVE  [Loop!Next]_<<seq, Ball>>
  <1>1. (Out' <=> Out) /\ ~Answered'
    BY PingsEmpty DEF Out, Answered
  <1>2. CASE Out
    BY <1>1, <1>2, BallStays
  <1>3. CASE ~Out
    BY <1>1, <1>3, BallLost
  <1>4. QED BY <1>2, <1>3

\* The read task takes a packet that is no keep-alive.
LEMMA BallOtherRead ==
    ASSUME TypeOK, OneKeepAlive, up # <<>>, Head(up).kind # "KeepAlive", up' = Tail(up),
           UNCHANGED <<seq, timers, outbound, down>>
    PROVE  [Loop!Next]_<<seq, Ball>>
  <1>1. AtMostOne(Pings(up)) /\ up \in Seq(Serverbound)
    BY SingleIff DEF TypeOK, Single
  <1>2. /\ Pings(up') = {} <=> Pings(up) = {}
        /\ \A i \in Pings(up') : i + 1 \in Pings(up) /\ up'[i] = up[i + 1]
    BY <1>1, PingsTail
  <1>3. (Out' <=> Out) /\ (Answered' <=> Answered)
    BY <1>2 DEF Out, Answered
  <1>4. Right => Right'
    BY <1>2 DEF Right
  <1>5. ASSUME Right' PROVE Right
    <2> SUFFICES ASSUME NEW j \in Pings(up) PROVE up[j].id = seq
      BY DEF Right
    <2>1. PICK i \in Pings(up') : i + 1 \in Pings(up) /\ up'[i] = up[i + 1]
      BY <1>2
    <2>2. j = i + 1
      BY <1>1, <2>1 DEF AtMostOne
    <2>3. QED BY <1>5, <2>1, <2>2 DEF Right
  <1>6. QED BY <1>3, <1>4, <1>5, BallStays

\* An answer is read: the right one starts the next round.
LEMMA BallRead ==
    ASSUME TypeOK, OneKeepAlive, ReadKeepAlive
    PROVE  [Loop!Next]_<<seq, Ball>>
  <1>1. /\ Single(timers, Pings(outbound), Pings(down), Pings(up))
        /\ up \in Seq(Serverbound) /\ up # <<>> /\ Head(up).kind = "KeepAlive"
        /\ UNCHANGED <<outbound, down>>
    BY SingleIff DEF TypeOK, ReadKeepAlive, writeVars
  <1>2. 1 \in Pings(up) /\ Head(up) = up[1]
    BY <1>1, PingsTail DEF Single
  <1>3. ~Out /\ Answered
    BY <1>1, <1>2 DEF Single, Out, Answered
  <1>4. CASE Head(up).id = seq /\ seq' = NextSeq /\ timers' = timers \cup {NextSeq}
    <2>1. Right
      BY <1>1, <1>2, <1>4 DEF Right, Single, AtMostOne
    <2>2. Ball = "back"
      BY <1>3, <2>1, BallIs
    <2>3. Ball' = "out"
      BY <1>4, BallIs DEF Out
    <2>4. seq' = (seq + 1) % SeqMod
      BY <1>4 DEF NextSeq
    <2>5. QED BY <2>2, <2>3, <2>4 DEF Loop!Next, Loop!Renew
  <1>5. CASE up' = <<>> /\ UNCHANGED <<seq, timers>>
    BY <1>1, <1>5, BallUnread
  <1>6. QED BY <1>4, <1>5 DEF ReadKeepAlive, Spawn, StopReader

\* A sleep ends: the keep-alive is queued, or lost with the write task.
LEMMA BallSent ==
    ASSUME TypeOK, OneKeepAlive, NEW id \in timers, SendKeepAlive(id)
    PROVE  [Loop!Next]_<<seq, Ball>>
  <1>1. UNCHANGED <<seq, up>> /\ Out
    BY DEF SendKeepAlive, readVars, Out
  <1>2. QED BY <1>1, BallVanishes

\* The write task takes a packet out of its channel.
LEMMA BallWritten ==
    ASSUME TypeOK, OneKeepAlive, WritePacketOut
    PROVE  [Loop!Next]_<<seq, Ball>>
  <1>1. /\ Single(timers, Pings(outbound), Pings(down), Pings(up))
        /\ outbound \in Seq(Clientbound) /\ outbound # <<>> /\ Head(outbound) \in Clientbound
        /\ down \in Seq(Clientbound)
        /\ outbound' = Tail(outbound)
        /\ UNCHANGED <<timers, seq, up>>
    BY SingleIff, QueueTypes DEF TypeOK, WritePacketOut, readVars
  <1>2. /\ Head(outbound).kind = "KeepAlive" => 1 \in Pings(outbound)
        /\ Head(outbound).kind # "KeepAlive" => (Pings(outbound') = {} <=> Pings(outbound) = {})
    BY <1>1, PingsTail DEF Single
  <1>3. CASE Head(outbound).kind = "KeepAlive"
    <2>1. Out
      BY <1>2, <1>3 DEF Out
    <2>2. QED BY <1>1, <2>1, BallVanishes
  <1>4. CASE Head(outbound).kind # "KeepAlive"
    <2>1. Pings(down') = Pings(down)
      <3>1. CASE down' = down
        BY <3>1
      <3>2. CASE down' = Append(down, Head(outbound))
        BY <1>1, <1>4, <3>2, PingsAppendOther
      <3>3. QED BY <3>1, <3>2 DEF WritePacketOut
    <2>2. Out' => Out
      BY <1>1, <1>2, <1>4, <2>1 DEF Out
    <2>3. QED BY <1>1, <2>2, BallVanishes
  <1>5. QED BY <1>3, <1>4

\* A packet that is no keep-alive joins the write task's channel, or does not.
LEMMA BallPassed ==
    ASSUME TypeOK, OneKeepAlive, NEW packet \in Clientbound, packet.kind # "KeepAlive",
           Enqueue(packet), UNCHANGED <<seq, timers, down, up>>
    PROVE  [Loop!Next]_<<seq, Ball>>
  <1>1. Pings(outbound') = Pings(outbound)
    <2>1. Pings(Append(outbound, packet)) = Pings(outbound)
      BY PingsAppendOther DEF TypeOK
    <2>2. QED BY <2>1 DEF Enqueue
  <1>2. Out' => Out
    BY <1>1 DEF Out
  <1>3. QED BY <1>2, BallVanishes

\* The client takes a keep-alive, and answers it right, wrong or not at all.
LEMMA BallAnswered ==
    ASSUME TypeOK, OneKeepAlive, ClientAnswer
    PROVE  [Loop!Next]_<<seq, Ball>>
  <1>1. /\ Single(timers, Pings(outbound), Pings(down), Pings(up))
        /\ down \in Seq(Clientbound) /\ down # <<>> /\ Head(down).kind = "KeepAlive"
        /\ down' = Tail(down)
        /\ up \in Seq(Serverbound) /\ Len(up) \in Nat
        /\ UNCHANGED <<timers, outbound, seq>>
    BY SingleIff DEF TypeOK, ClientAnswer, readVars, writeVars
  <1>2. 1 \in Pings(down) /\ Pings(down') = {}
    BY <1>1, PingsTail DEF Single
  <1>3. Out /\ ~Out' /\ Pings(up) = {}
    BY <1>1, <1>2 DEF Single, Out
  <1>4. CASE up' = up
    BY <1>1, <1>3, <1>4, BallVanishes
  <1>5. ASSUME NEW id \in Id, up' = Append(up, KeepAlive(id))
        PROVE  [Loop!Next]_<<seq, Ball>>
    <2>1. Answered'
      <3>1. KeepAlive(id) \in Serverbound /\ KeepAlive(id).kind = "KeepAlive"
        BY PacketTypes DEF KeepAlive
      <3>2. Pings(up') = Pings(up) \cup {Len(up) + 1}
        BY <1>1, <1>5, <3>1, PingsAppend
      <3>3. QED BY <3>2 DEF Answered
    <2>2. Ball = "out" /\ Ball' \in {"back", "wrong"}
      BY <1>3, <2>1, BallIs
    <2>3. QED BY <1>1, <2>2 DEF Loop!Next, Loop!Answer
  <1>6. up' = up \/ \E id \in Id : up' = Append(up, KeepAlive(id))
    BY DEF ClientAnswer
  <1>7. QED BY <1>4, <1>5, <1>6

\* The client reads any other packet.
LEMMA BallPassedOn ==
    ASSUME TypeOK, OneKeepAlive, ClientRead
    PROVE  [Loop!Next]_<<seq, Ball>>
  <1>1. /\ down \in Seq(Clientbound) /\ down # <<>> /\ Head(down).kind # "KeepAlive"
        /\ down' = Tail(down) /\ AtMostOne(Pings(down))
        /\ UNCHANGED <<timers, outbound, seq, up>>
    BY SingleIff DEF TypeOK, Single, ClientRead, readVars, writeVars
  <1>2. Pings(down') = {} <=> Pings(down) = {}
    BY <1>1, PingsTail
  <1>3. Out' => Out
    BY <1>1, <1>2 DEF Out
  <1>4. QED BY <1>1, <1>3, BallVanishes

\* The client sends any other packet.
LEMMA BallIgnored ==
    ASSUME TypeOK, ClientSend
    PROVE  [Loop!Next]_<<seq, Ball>>
  <1>1. PICK packet \in {Absorbed, Forwarded, Bad} : up' = Append(up, packet)
    BY DEF ClientSend
  <1>2. packet \in Serverbound /\ packet.kind # "KeepAlive" /\ up \in Seq(Serverbound)
    BY PacketTypes DEF Absorbed, Forwarded, Bad, TypeOK
  <1>3. Pings(up') = Pings(up) /\ \A i \in Pings(up) : up'[i] = up[i]
    BY <1>1, <1>2, PingsAppendOther
  <1>4. UNCHANGED <<seq, timers, outbound, down>>
    BY DEF ClientSend, readVars, writeVars
  <1>5. (Out' <=> Out) /\ (Answered' <=> Answered) /\ (Right' <=> Right)
    BY <1>3, <1>4 DEF Out, Answered, Right
  <1>6. QED BY <1>4, <1>5, BallStays

\* The four places are left alone.
LEMMA BallUntouched ==
    ASSUME UNCHANGED <<seq, timers, outbound, down, up>>
    PROVE  [Loop!Next]_<<seq, Ball>>
  BY BallStays DEF Out, Answered, Right

LEMMA LoopInit == Init => Loop!Init
  <1> SUFFICES ASSUME Init PROVE Loop!Init
    OBVIOUS
  <1>1. 1 \in Pings(down)
    BY DEF Init, Written, Pings, KeepAlive
  <1>2. Ball = "out"
    BY <1>1, BallIs DEF Out
  <1>3. QED BY <1>2 DEF Init, Loop!Init

LEMMA LoopStep == KeepAliveInv /\ [Next]_vars => [Loop!Next]_<<seq, Ball>>
  <1> SUFFICES ASSUME KeepAliveInv, [Next]_vars PROVE [Loop!Next]_<<seq, Ball>>
    OBVIOUS
  <1>1. TypeOK /\ OneKeepAlive
    BY DEF KeepAliveInv
  <1> USE DEF readVars, writeVars, ownerVars, clientVars
  <1>2. CASE ReadTask
    <2>1. CASE ReadKeepAlive
      BY <1>1, <2>1, BallRead
    <2>2. CASE ReadAbsorbed
      BY <1>1, <2>2, BallOtherRead DEF ReadAbsorbed
    <2>3. CASE ReadForwarded
      <3>1. CASE up' = Tail(up)
        BY <1>1, <2>3, <3>1, BallOtherRead DEF ReadForwarded
      <3>2. CASE up' = <<>>
        BY <2>3, <3>2, BallUnread DEF ReadForwarded
      <3>3. QED BY <2>3, <3>1, <3>2 DEF ReadForwarded, StopReader
    <2>4. CASE ReadError
      BY <2>4, BallUnread DEF ReadError, StopReader
    <2>5. QED BY <1>2, <2>1, <2>2, <2>3, <2>4 DEF ReadTask
  <1>3. ASSUME NEW id \in timers, SendKeepAlive(id)
        PROVE  [Loop!Next]_<<seq, Ball>>
    BY <1>1, <1>3, BallSent
  <1>4. CASE WriteTask
    <2>1. CASE WritePacketOut
      BY <1>1, <2>1, BallWritten
    <2>2. CASE WriteError
      <3>1. Out' => Out
        BY <2>2, PingsEmpty DEF WriteError, Out
      <3>2. QED BY <1>1, <2>2, <3>1, BallVanishes DEF WriteError
    <2>3. CASE WriterDrained
      BY <2>3, BallUntouched DEF WriterDrained
    <2>4. QED BY <1>4, <2>1, <2>2, <2>3 DEF WriteTask
  <1>5. CASE Owner
    <2>1. Data.kind # "KeepAlive" /\ Goodbye.kind # "KeepAlive" /\ Shared.kind # "KeepAlive"
      BY DEF Data, Goodbye, Shared
    <2>2. CASE WritePacket
      BY <1>1, <2>1, <2>2, PacketTypes, BallPassed DEF WritePacket
    <2>3. CASE Disconnect
      BY <1>1, <2>1, <2>3, PacketTypes, BallPassed DEF Disconnect
    <2>4. CASE WriteShared
      BY <1>1, <2>1, <2>4, PacketTypes, BallPassed DEF WriteShared
    <2>5. CASE NextPacket \/ CloneWriter \/ DropClone \/ DropPlayer
      BY <2>5, BallUntouched DEF NextPacket, CloneWriter, DropClone, DropPlayer
    <2>6. QED BY <1>5, <2>2, <2>3, <2>4, <2>5 DEF Owner
  <1>6. CASE Client
    <2>1. CASE ClientAnswer
      BY <1>1, <2>1, BallAnswered
    <2>2. CASE ClientRead
      BY <1>1, <2>2, BallPassedOn
    <2>3. CASE ClientSend
      BY <1>1, <2>3, BallIgnored
    <2>4. CASE ClientLeave \/ ClientCrash
      <3>1. down' = <<>> /\ UNCHANGED <<seq, timers, outbound, up>>
        BY <2>4 DEF ClientLeave, ClientCrash, Close
      <3>2. Out' => Out
        BY <3>1, PingsEmpty DEF Out
      <3>3. QED BY <1>1, <3>1, <3>2, BallVanishes
    <2>5. QED BY <1>6, <2>1, <2>2, <2>3, <2>4 DEF Client, ClientReads
  <1>7. CASE UNCHANGED vars
    BY <1>7, BallUntouched DEF vars
  <1>8. QED BY <1>2, <1>3, <1>4, <1>5, <1>6, <1>7 DEF Next

\* keep_alive() with its three tasks, two channels and socket is the loop of
\* module KeepAliveLoop: one ball, thrown and thrown back, never doubled.
THEOREM SessionImplementsLoop == Spec => ImplementsLoop
  <1>1. QED BY LoopInit, LoopStep, KeepAliveInvariant, PTL DEF Spec, ImplementsLoop, Loop!Spec
=============================================================================
