----------------------------- MODULE LoginProofs -----------------------------
(***************************************************************************)
(* Proofs about module Login: whom a connection is handed out for, and     *)
(* what is written under which cipher, and whom the login turns away, for  *)
(* any accounts and secrets and any number of packets.                     *)
(***************************************************************************)
EXTENDS Login, TLAPS

USE LoginAssumption

Plain(type) == [type |-> type, under |-> None]
Enciphered(type) == [type |-> type, under |-> secret]
Greeting(c) == [type |-> "Hello", challenge |-> c, under |-> None]

\* What the task has got so far, where it is.
Stages ==
    /\ task = "new" => login = None /\ down = <<>>
    /\ task = "reading" => Len(down) = IF login = None THEN 0 ELSE 1
    /\ task \in {"auth", "connected"} => login # None /\ Len(down) = 1
    /\ task = "playing" => Len(down) >= 2
    /\ task \in {"new", "reading", "auth"} => profile = None
    /\ task \in {"connected", "playing"} => profile # None
    /\ task = "auth" => secret \in Secrets

\* The i-th packet is in its place: a packet that ends the exchange is the
\* last one, and so the task has ended.
InPlace(i) ==
    \/ i = 1 /\ login # None /\ down[i] = Greeting(login.challenge)
    \/ i = 2 /\ profile # None /\ down[i] = Enciphered("LoginGameProfile")
    \/ /\ i > 2 /\ profile # None /\ down[i] = Enciphered("Play")
       /\ down[2].type = "LoginGameProfile"
    \/ /\ i = Len(down) /\ task = "ended"
       /\ \/ i = 2 /\ profile # None /\ down[i] = Enciphered("LoginCompression")
          \/ profile = None /\ down[i] = Plain("LoginDisconnect")

Shape == \A i \in DOMAIN down : InPlace(i)

\* The server takes a client that keeps to the protocol for whom it says it is.
Agreed ==
    /\ claim \in Hellos
    /\ login # None /\ login.name = claim.name /\ login.id = claim.id

\* A client that keeps to the protocol and the server are in step.
Honest ==
    /\ client = "new" =>
          /\ up = <<>> /\ login = None
          /\ cipher = None /\ secret = None /\ profile = None
    /\ client = "greeted" =>
          /\ claim \in Hellos
          /\ cipher = None /\ secret = None /\ profile = None
          /\ \/ up = <<claim>> /\ login = None
             \/ up = <<>> /\ task = "reading" /\ Agreed
    /\ client = "keyed" =>
          /\ cipher \in GoodSecrets /\ Agreed
          /\ \/ /\ up = <<[type |-> "Key", challenge |-> login.challenge,
                           secret |-> cipher, under |-> None]>>
                /\ task = "reading" /\ profile = None
             \/ up = <<>> /\ secret = cipher
    /\ client = "playing" => cipher \in GoodSecrets /\ secret = cipher /\ profile # None
    /\ client = "left" => task = "ended"

LoginInv == TypeOK /\ Stages /\ Shape /\ Authenticated /\ Honest /\ Readable

-----------------------------------------------------------------------------
(* Queues.                                                                 *)

LEMMA AppendFacts ==
    ASSUME NEW S, NEW q \in Seq(S), NEW p \in S
    PROVE  /\ Append(q, p) \in Seq(S) /\ Len(Append(q, p)) = Len(q) + 1
           /\ \A i \in 1..Len(q) : Append(q, p)[i] = q[i]
           /\ Append(q, p)[Len(q) + 1] = p
           /\ DOMAIN q = 1..Len(q) /\ Len(q) \in Nat
           /\ DOMAIN Append(q, p) = 1..Len(q) + 1
  OBVIOUS

LEMMA TailFacts ==
    ASSUME NEW S, NEW q \in Seq(S), q # <<>>
    PROVE  /\ Tail(q) \in Seq(S) /\ Len(Tail(q)) = Len(q) - 1
           /\ \A i \in 1..Len(q) - 1 : Tail(q)[i] = q[i + 1]
           /\ Head(q) = q[1] /\ Head(q) \in S /\ Len(q) >= 1
           /\ DOMAIN q = 1..Len(q) /\ Len(q) \in Nat
           /\ DOMAIN Tail(q) = 1..Len(q) - 1
  OBVIOUS

\* The server's writing.
LEMMA WriteFacts ==
    ASSUME TypeOK, NEW p \in DownPackets, down' = Append(down, p), NEW n, n = Len(down)
    PROVE  /\ n \in Nat /\ DOMAIN down = 1..n /\ DOMAIN down' = 1..n + 1 /\ Len(down') = n + 1
           /\ \A i \in 1..n : down'[i] = down[i]
           /\ down'[n + 1] = p
           /\ down' \in Seq(DownPackets)
           /\ seen \in 0..n + 1
  <1>1. down \in Seq(DownPackets) /\ seen \in 0..n
    BY DEF TypeOK
  <1>2. QED BY <1>1, AppendFacts

LEMMA Written ==
    ASSUME NEW u \in Secrets \cup {None}, NEW t \in {"LoginDisconnect", "LoginCompression",
                                                     "LoginGameProfile", "Play"}
    PROVE  [type |-> t, under |-> u] \in DownPackets
  BY DEF DownPackets

LEMMA Greetings ==
    ASSUME NEW c \in Challenges
    PROVE  Greeting(c) \in DownPackets
  BY DEF DownPackets, Greeting

\* Only the task's end lets a packet be the last one of the exchange.
LEMMA OpenEnded ==
    ASSUME TypeOK, Shape, task # "ended", NEW i \in DOMAIN down
    PROVE  /\ \/ i = 1 /\ login # None /\ down[i] = Greeting(login.challenge)
              \/ i = 2 /\ profile # None /\ down[i] = Enciphered("LoginGameProfile")
              \/ /\ i > 2 /\ profile # None /\ down[i] = Enciphered("Play")
                 /\ down[2].type = "LoginGameProfile"
           /\ down[i].type # "LoginDisconnect"
  BY DEF Shape, InPlace, Greeting, Enciphered

-----------------------------------------------------------------------------
(* The server's steps keep the packets in their places.                    *)

\* Before the task's end a step that sends nothing moves none, as long as it
\* leaves a connection's cipher alone.
LEMMA ShapeStays ==
    ASSUME TypeOK, Shape, task # "ended",
           UNCHANGED <<login, down>>,
           profile # None => UNCHANGED <<profile, secret>>
    PROVE  Shape'
  <1> SUFFICES ASSUME NEW i \in DOMAIN down
               PROVE  InPlace(i)'
    BY DEF Shape
  <1>1. QED BY OpenEnded DEF InPlace, Greeting, Enciphered

\* One that sends a packet has to put it in its place.
LEMMA ShapeAppend ==
    ASSUME TypeOK, Shape, task # "ended",
           NEW p \in DownPackets, down' = Append(down, p), NEW n, n = Len(down),
           login # None => UNCHANGED login,
           profile # None => UNCHANGED <<profile, secret>>,
           InPlace(n + 1)'
    PROVE  Shape'
  <1>1. /\ n \in Nat /\ DOMAIN down = 1..n /\ DOMAIN down' = 1..n + 1
        /\ \A i \in 1..n : down'[i] = down[i]
    BY WriteFacts
  <1>2. ASSUME NEW i \in 1..n
        PROVE  InPlace(i)'
    <2>1. /\ \/ i = 1 /\ login # None /\ down[i] = Greeting(login.challenge)
             \/ i = 2 /\ profile # None /\ down[i] = Enciphered("LoginGameProfile")
             \/ /\ i > 2 /\ profile # None /\ down[i] = Enciphered("Play")
                /\ down[2].type = "LoginGameProfile"
          /\ down'[i] = down[i]
          /\ i > 2 => down'[2] = down[2]
      BY <1>1, OpenEnded
    <2>2. QED BY <2>1 DEF InPlace, Greeting, Enciphered
  <1>3. \A i \in 1..n + 1 : i \in 1..n \/ i = n + 1
    BY <1>1
  <1>4. QED BY <1>1, <1>2, <1>3 DEF Shape

\* A client that keeps to the protocol reads on.  (The exception for what was
\* sent before needs no care: it was the last packet.)
LEMMA ReadableStays ==
    ASSUME TypeOK, Shape, Readable, task # "ended",
           UNCHANGED <<client, cipher, seen, down>>,
           client \in Keeping => \A i \in DOMAIN up' : up'[i].under = ServerCipher'
    PROVE  Readable'
  <1> SUFFICES ASSUME client \in Keeping,
                      NEW i \in seen + 1 .. Len(down)
               PROVE  down[i].under = cipher
    BY DEF Readable
  <1>1. i \in DOMAIN down
    BY DEF TypeOK
  <1>2. down[i].type # "LoginDisconnect"
    BY <1>1, OpenEnded
  <1>3. QED BY <1>2 DEF Readable

LEMMA ReadableAppend ==
    ASSUME TypeOK, Shape, Readable, task # "ended",
           UNCHANGED <<client, cipher, seen>>,
           NEW p \in DownPackets, down' = Append(down, p),
           client \in Keeping => \/ p.under = cipher
                                 \/ Mismatch' /\ p.type = "LoginDisconnect",
           client \in Keeping => \A i \in DOMAIN up' : up'[i].under = ServerCipher'
    PROVE  Readable'
  <1> PICK n : n = Len(down)
    OBVIOUS
  <1>1. /\ n \in Nat /\ DOMAIN down = 1..n /\ Len(down') = n + 1
        /\ \A i \in 1..n : down'[i] = down[i]
        /\ down'[n + 1] = p
        /\ seen \in 0..n
    BY WriteFacts DEF TypeOK
  <1> SUFFICES ASSUME client \in Keeping,
                      NEW i \in seen + 1 .. n + 1
               PROVE  \/ down'[i].under = cipher
                      \/ Mismatch' /\ down'[i].type = "LoginDisconnect"
    BY <1>1 DEF Readable
  <1>2. CASE i = n + 1
    BY <1>1, <1>2
  <1>3. CASE i \in seen + 1 .. n
    <2>1. i \in DOMAIN down /\ down'[i] = down[i]
      BY <1>1, <1>3
    <2>2. down[i].type # "LoginDisconnect"
      BY <2>1, OpenEnded
    <2>3. QED BY <1>1, <1>3, <2>1, <2>2 DEF Readable
  <1>4. QED BY <1>1, <1>2, <1>3

-----------------------------------------------------------------------------
(* One lemma per action of the server.                                     *)

\* What the server's steps need of the state.
LEMMA Unended ==
    ASSUME LoginInv, task # "ended"
    PROVE  client # "left" /\ TypeOK /\ Stages /\ Shape /\ Authenticated /\ Honest /\ Readable
  BY DEF LoginInv, Honest

\* A LoginDisconnect in the clear is in its place, if it is the last thing
\* that a task without a connection does.
LEMMA Rejected ==
    ASSUME LoginInv, task # "ended", profile = None, Reject,
           UNCHANGED <<config, login, logged_in, player>>,
           secret' \in Secrets \cup {None}, profile' = None,
           up' \in Seq(UpPackets), answer' \in Profiles \cup {None, Refused},
           client \in Keeping => cipher = None \/ Mismatch',
           client \in Keeping => \A i \in DOMAIN up' : up'[i].under = None
    PROVE  /\ TypeOK' /\ Stages' /\ Shape' /\ Authenticated' /\ Readable'
           /\ task' = "ended"
  <1> DEFINE p == [type |-> "LoginDisconnect", under |-> None]
  <1> PICK n : n = Len(down)
    OBVIOUS
  <1>1. p \in DownPackets /\ down' = Append(down, p) /\ task' = "ended"
    BY Written DEF Reject, Write
  <1> HIDE DEF p
  <1>2. TypeOK
    BY DEF LoginInv
  <1>3. /\ n \in Nat /\ Len(down') = n + 1 /\ down'[n + 1] = p
        /\ down' \in Seq(DownPackets) /\ seen \in 0..n + 1
    BY <1>1, <1>2, WriteFacts
  <1>4. TypeOK'
    BY <1>1, <1>2, <1>3 DEF TypeOK, config, player, Tasks
  <1>5. Stages'
    BY <1>1 DEF Stages
  <1>6. InPlace(n + 1)'
    BY <1>1, <1>3 DEF InPlace, p, Plain
  <1>7. Shape'
    BY <1>1, <1>2, <1>6, ShapeAppend DEF LoginInv
  <1>8. Authenticated'
    BY DEF Authenticated
  <1>9. /\ p.under = None /\ p.type = "LoginDisconnect"
        /\ ServerCipher' = None
    BY DEF p, ServerCipher
  <1>10. Readable'
    BY <1>1, <1>2, <1>9, ReadableAppend DEF LoginInv, player
  <1>11. QED BY <1>1, <1>4, <1>5, <1>7, <1>8, <1>10

LEMMA CheckVersionKeeps ==
    ASSUME LoginInv, CheckVersion
    PROVE  LoginInv'
  <1>1. /\ task = "new" /\ task # "ended"
        /\ UNCHANGED <<config, login, conn, up, player, answer>>
    BY DEF CheckVersion
  <1>2. /\ client # "left" /\ TypeOK /\ Stages /\ Shape /\ Authenticated /\ Honest /\ Readable
    BY <1>1, Unended
  <1>3. login = None /\ down = <<>> /\ profile = None
    BY <1>1, <1>2 DEF Stages
  <1>4. client \in Keeping => /\ cipher = None /\ ServerCipher = None
                              /\ client \notin {"keyed", "playing"}
    BY <1>2, <1>3 DEF Honest, Agreed, ServerCipher, Keeping
  <1>5. Honest'
    BY <1>1, <1>2, <1>3, <1>4 DEF Honest, Agreed, Keeping, config, conn, player
  <1>6. \A i \in DOMAIN up : client \in Keeping => up[i].under = None
    BY <1>2, <1>4 DEF Readable
  <1>7. CASE current
    <2>1. task' = "reading" /\ UNCHANGED down
      BY <1>7 DEF CheckVersion
    <2>2. TypeOK'
      BY <1>1, <1>2, <2>1 DEF TypeOK, Tasks, config, conn, player
    <2>3. Stages' /\ Shape' /\ Authenticated'
      BY <1>1, <1>3, <2>1 DEF Stages, Shape, Authenticated, conn
    <2>4. ServerCipher' = ServerCipher
      BY <1>1 DEF ServerCipher, conn
    <2>5. Readable'
      BY <1>1, <1>2, <2>1, <2>4, <1>4, <1>6, ReadableStays DEF player
    <2>6. QED BY <1>5, <2>2, <2>3, <2>5 DEF LoginInv
  <1>8. CASE ~current
    <2>1. Reject
      BY <1>8 DEF CheckVersion
    <2>2. /\ TypeOK' /\ Stages' /\ Shape' /\ Authenticated' /\ Readable'
      BY <1>1, <1>2, <1>3, <1>4, <1>6, <2>1, Rejected DEF TypeOK, conn
    <2>3. QED BY <1>5, <2>2 DEF LoginInv
  <1>9. QED BY <1>7, <1>8

\* What a reading task has at hand.
LEMMA Taken ==
    ASSUME LoginInv, NEW S, Take(S)
    PROVE  /\ task = "reading" /\ task # "ended" /\ profile = None /\ ServerCipher = None
           /\ TypeOK /\ Stages /\ Shape /\ Authenticated /\ Honest /\ Readable
           /\ client \notin {"left", "playing"}
           /\ up # <<>> /\ Head(up) \in S /\ Head(up) \in UpPackets /\ up' = Tail(up)
           /\ up' \in Seq(UpPackets)
           /\ \A i \in DOMAIN up' : client \in Keeping => up'[i].under = None
           /\ up = <<Head(up)>> => up' = <<>>
  <1>1. task = "reading" /\ task # "ended" /\ up # <<>> /\ Head(up) \in S /\ up' = Tail(up)
    BY DEF Take
  <1>2. TypeOK /\ Stages /\ Shape /\ Authenticated /\ Honest /\ Readable
    BY DEF LoginInv
  <1>3. profile = None /\ ServerCipher = None
    BY <1>1, <1>2 DEF Stages, ServerCipher
  <1>4. client \notin {"left", "playing"}
    BY <1>1, <1>2, <1>3 DEF Honest
  <1>5. /\ up' \in Seq(UpPackets) /\ Head(up) \in UpPackets
        /\ \A i \in DOMAIN up' : i \in 1..Len(up) - 1 /\ up'[i] = up[i + 1]
        /\ DOMAIN up = 1..Len(up) /\ Len(up) \in Nat
    BY <1>1, <1>2, TailFacts DEF TypeOK
  <1>6. \A i \in DOMAIN up' : i + 1 \in DOMAIN up /\ up'[i] = up[i + 1]
    BY <1>5
  <1>7. \A i \in DOMAIN up' : client \in Keeping => up'[i].under = None
    BY <1>2, <1>3, <1>6 DEF Readable
  <1>8. up = <<Head(up)>> => up' = <<>>
    <2>1. Len(up') = Len(up) - 1
      BY <1>1, <1>2, TailFacts DEF TypeOK
    <2>2. up = <<Head(up)>> => Len(up) = 1
      OBVIOUS
    <2>3. QED BY <1>5, <2>1, <2>2
  <1>9. QED BY <1>1, <1>2, <1>3, <1>4, <1>5, <1>7, <1>8

\* A client that keeps to the protocol has its one packet under way: a Hello
\* for the login, or the Key that answers its challenge.
LEMMA FirstOfKeeping ==
    ASSUME Honest, up # <<>>, task = "reading", profile = None, client \in Keeping
    PROVE  \/ /\ client = "greeted" /\ Head(up) = claim /\ up = <<Head(up)>>
              /\ claim \in Hellos /\ login = None /\ cipher = None /\ secret = None
           \/ /\ client = "keyed" /\ up = <<Head(up)>>
              /\ Head(up) = [type |-> "Key", challenge |-> login.challenge,
                             secret |-> cipher, under |-> None]
              /\ cipher \in GoodSecrets /\ Agreed
  <1>1. client \in {"greeted", "keyed"}
    BY DEF Honest, Keeping
  <1>2. CASE client = "greeted"
    <2>1. up = <<claim>> /\ login = None /\ claim \in Hellos /\ cipher = None /\ secret = None
      BY <1>2 DEF Honest
    <2>2. QED BY <1>2, <2>1
  <1>3. CASE client = "keyed"
    <2>1. up = <<[type |-> "Key", challenge |-> login.challenge,
                  secret |-> cipher, under |-> None]>> /\ cipher \in GoodSecrets /\ Agreed
      BY <1>3 DEF Honest
    <2>2. QED BY <1>3, <2>1
  <1>4. QED BY <1>1, <1>2, <1>3

LEMMA HelloKeeps ==
    ASSUME LoginInv, ReadHello
    PROVE  LoginInv'
  <1>1. Take(Hellos) /\ UNCHANGED <<config, conn, player, answer>>
    BY DEF ReadHello
  <1>2. /\ task = "reading" /\ task # "ended" /\ profile = None /\ ServerCipher = None
        /\ TypeOK /\ Stages /\ Shape /\ Authenticated /\ Honest /\ Readable
        /\ client \notin {"left", "playing"}
        /\ up # <<>> /\ Head(up) \in Hellos
        /\ up' \in Seq(UpPackets)
        /\ \A i \in DOMAIN up' : client \in Keeping => up'[i].under = None
        /\ up = <<Head(up)>> => up' = <<>>
    BY <1>1, Taken
  <1>3. client \in Keeping =>
            /\ client = "greeted" /\ Head(up) = claim /\ up' = <<>>
            /\ claim \in Hellos /\ login = None /\ cipher = None /\ secret = None
    <2>1. Head(up).type = "Hello"
      BY <1>2 DEF Hellos
    <2>2. QED BY <1>2, <2>1, FirstOfKeeping
  <1>4. CASE /\ login = None
             /\ \E c \in Challenges :
                   /\ login' = [challenge |-> c, name |-> Head(up).name, id |-> Head(up).id]
                   /\ down' = Append(down, [type |-> "Hello", challenge |-> c, under |-> None])
             /\ UNCHANGED task
    <2>1. PICK c \in Challenges :
              /\ login' = [challenge |-> c, name |-> Head(up).name, id |-> Head(up).id]
              /\ down' = Append(down, Greeting(c))
      BY <1>4 DEF Greeting
    <2>2. login' \in LoginStates /\ login' # None /\ login'.challenge = c
          /\ login'.name = Head(up).name /\ login'.id = Head(up).id
      BY <1>2, <2>1 DEF Hellos, LoginStates
    <2>3. Len(down) = 0 /\ Greeting(c) \in DownPackets
      BY <1>2, <1>4, Greetings DEF Stages
    <2>4. /\ Len(down') = 1 /\ down'[1] = Greeting(c) /\ down' \in Seq(DownPackets)
          /\ seen \in 0..Len(down')
      BY <1>2, <2>1, <2>3, WriteFacts
    <2>5. TypeOK'
      BY <1>1, <1>2, <1>4, <2>2, <2>4 DEF TypeOK, config, conn, player
    <2>6. Stages'
      BY <1>1, <1>2, <1>4, <2>2, <2>4 DEF Stages, conn
    <2>7. InPlace(1)'
      BY <2>2, <2>4 DEF InPlace, Greeting
    <2>8. Shape'
      BY <1>1, <1>2, <1>4, <2>1, <2>3, <2>7, ShapeAppend DEF conn
    <2>9. Authenticated'
      BY <1>1, <1>2 DEF Authenticated, conn
    <2>10. Honest'
      <3>1. client \in Keeping => Agreed'
        BY <1>1, <1>3, <2>2 DEF Agreed, player
      <3>2. client \in Keeping => /\ client = "greeted" /\ up' = <<>> /\ task' = "reading"
                                  /\ UNCHANGED <<client, cipher, secret, profile, claim>>
                                  /\ cipher = None /\ secret = None /\ profile = None
                                  /\ claim \in Hellos
        BY <1>1, <1>2, <1>3, <1>4 DEF player, conn
      <3>3. client' = client
        BY <1>1 DEF player
      <3>4. QED BY <3>1, <3>2, <3>3 DEF Honest, Keeping
    <2>11. Readable'
      <3>1. ServerCipher' = None /\ Greeting(c).under = None
        BY <1>1, <1>2 DEF ServerCipher, conn, Greeting
      <3>2. UNCHANGED <<client, cipher, seen>>
        BY <1>1 DEF player
      <3>3. QED BY <1>2, <1>3, <2>1, <2>3, <3>1, <3>2, ReadableAppend
    <2>12. QED BY <2>5, <2>6, <2>8, <2>9, <2>10, <2>11 DEF LoginInv
  <1>5. CASE login # None /\ Reject /\ UNCHANGED login
    <2>1. client \notin Keeping /\ client' = client
      BY <1>1, <1>3, <1>5 DEF player
    <2>2. Honest'
      BY <2>1 DEF Honest, Keeping
    <2>3. /\ UNCHANGED <<config, login, logged_in, player>>
          /\ secret' \in Secrets \cup {None} /\ profile' = None
          /\ answer' \in Profiles \cup {None, Refused}
      BY <1>1, <1>2, <1>5 DEF TypeOK, conn
    <2>4. TypeOK' /\ Stages' /\ Shape' /\ Authenticated' /\ Readable'
      BY <1>2, <1>5, <2>1, <2>3, Rejected
    <2>5. QED BY <2>2, <2>4 DEF LoginInv
  <1>6. QED BY <1>4, <1>5 DEF ReadHello

\* A packet that a client that keeps to the protocol has not sent, or that the
\* task rejects or ends with.
LEMMA RejectKeeps ==
    ASSUME LoginInv, NEW S, Take(S), Reject, client \notin Keeping,
           UNCHANGED <<config, login, conn, player, answer>>
    PROVE  LoginInv'
  <1>1. /\ task # "ended" /\ profile = None /\ TypeOK /\ up' \in Seq(UpPackets)
    BY Taken
  <1>2. /\ UNCHANGED <<config, login, logged_in, player, client>>
        /\ secret' \in Secrets \cup {None} /\ profile' = None
        /\ answer' \in Profiles \cup {None, Refused}
    BY <1>1 DEF TypeOK, conn, player
  <1>3. TypeOK' /\ Stages' /\ Shape' /\ Authenticated' /\ Readable'
    BY <1>1, <1>2, Rejected
  <1>4. Honest'
    BY <1>2 DEF Honest, Keeping
  <1>5. QED BY <1>3, <1>4 DEF LoginInv

\* The task ends without a packet: a client that keeps to the protocol only
\* lets it while the session server is asked.
LEMMA EndKeeps ==
    ASSUME LoginInv, task # "ended", task' = "ended",
           UNCHANGED <<config, login, conn, down, player>>,
           up' \in Seq(UpPackets), answer' \in Profiles \cup {None, Refused},
           client \in Keeping => task = "auth" /\ up' = up
    PROVE  LoginInv'
  <1>1. /\ TypeOK /\ Stages /\ Shape /\ Authenticated /\ Honest /\ Readable
        /\ client # "left"
    BY Unended
  <1>2. TypeOK'
    BY <1>1 DEF TypeOK, config, conn, player, Tasks
  <1>3. Stages'
    BY DEF Stages
  <1>4. Shape'
    BY <1>1, ShapeStays DEF conn
  <1>5. Authenticated'
    BY <1>1 DEF Authenticated, conn, player
  <1>6. Honest'
    <2>1. client' = client
      BY DEF player
    <2>2. CASE client \notin Keeping
      BY <2>1, <2>2 DEF Honest, Keeping
    <2>3. CASE client \in Keeping
      <3>1. task = "auth" /\ up' = up /\ login # None /\ profile = None /\ secret \in Secrets
        BY <1>1, <2>3 DEF Stages
      <3>2. client = "keyed"
        BY <1>1, <2>3, <3>1 DEF Honest, Keeping
      <3>3. cipher \in GoodSecrets /\ Agreed /\ up = <<>> /\ secret = cipher
        BY <1>1, <3>1, <3>2 DEF Honest
      <3>4. Agreed' /\ cipher' = cipher /\ secret' = secret
        BY <3>3 DEF Agreed, player, conn
      <3>5. QED BY <2>1, <3>1, <3>2, <3>3, <3>4 DEF Honest
    <2>4. QED BY <2>2, <2>3
  <1>7. Readable'
    <2>1. UNCHANGED <<client, cipher, seen, ServerCipher>>
      BY DEF player, conn, ServerCipher
    <2>2. client \in Keeping => \A i \in DOMAIN up' : up'[i].under = ServerCipher'
      BY <1>1, <2>1 DEF Readable
    <2>3. QED BY <1>1, <2>1, <2>2, ReadableStays
  <1>8. QED BY <1>2, <1>3, <1>4, <1>5, <1>6, <1>7 DEF LoginInv

LEMMA QueryKeeps ==
    ASSUME LoginInv, ReadQuery
    PROVE  LoginInv'
  <1>1. Take(Queries) /\ Reject /\ UNCHANGED <<config, login, conn, player, answer>>
    BY DEF ReadQuery
  <1>2. /\ task = "reading" /\ profile = None /\ Honest /\ up # <<>> /\ Head(up) \in Queries
    BY <1>1, Taken
  <1>3. client \notin Keeping
    BY <1>2, FirstOfKeeping DEF Queries, Hellos
  <1>4. QED BY <1>1, <1>3, RejectKeeps

LEMMA KeyKeeps ==
    ASSUME LoginInv, ReadKey
    PROVE  LoginInv'
  <1> DEFINE key == Head(up)
  <1>1. Take(Keys) /\ UNCHANGED <<config, login, profile, logged_in, player, answer>>
    BY DEF ReadKey
  <1>2. /\ task = "reading" /\ task # "ended" /\ profile = None /\ ServerCipher = None
        /\ TypeOK /\ Stages /\ Shape /\ Authenticated /\ Honest /\ Readable
        /\ client \notin {"left", "playing"}
        /\ up # <<>> /\ key \in Keys
        /\ up' \in Seq(UpPackets)
        /\ up = <<key>> => up' = <<>>
    BY <1>1, Taken
  <1>3. client \in Keeping =>
            /\ client = "keyed" /\ up' = <<>>
            /\ key.challenge = login.challenge /\ key.secret = cipher
            /\ cipher \in GoodSecrets /\ Agreed
    <2>1. key.type = "Key"
      BY <1>2 DEF Keys
    <2>2. QED BY <1>2, <2>1, FirstOfKeeping DEF Hellos
  <1>4. login # None => login.challenge \in Challenges
    BY <1>2 DEF TypeOK, LoginStates
  <1> HIDE DEF key
  <1>5. CASE Reject /\ UNCHANGED secret
             /\ (login = None \/ key.challenge \in Challenges \ {login.challenge})
    <2>1. client \notin Keeping
      BY <1>3, <1>5 DEF Agreed
    <2>2. QED BY <1>1, <1>5, <2>1, RejectKeeps DEF conn
  <1>6. CASE /\ login # None
             /\ \/ key.challenge = Garbled
                \/ key.challenge = login.challenge /\ key.secret = Garbled
             /\ task' = "ended" /\ UNCHANGED <<down, secret>>
    <2>1. client \notin Keeping
      BY <1>3, <1>4, <1>6
    <2>2. QED BY <1>1, <1>2, <1>6, <2>1, EndKeeps DEF conn, TypeOK
  <1>7. CASE /\ login # None /\ key.challenge = login.challenge /\ key.secret # Garbled
             /\ secret' = key.secret /\ task' = "auth" /\ UNCHANGED down
    <2>1. secret' \in Secrets
      BY <1>2, <1>7 DEF Keys
    <2>2. TypeOK'
      BY <1>1, <1>2, <1>7, <2>1 DEF TypeOK, Tasks, config, player
    <2>3. Stages'
      BY <1>1, <1>2, <1>7, <2>1 DEF Stages
    <2>4. Shape'
      BY <1>1, <1>2, <1>7, ShapeStays
    <2>5. Authenticated'
      BY <1>1, <1>2 DEF Authenticated
    <2>6. Honest'
      <3>1. client' = client /\ cipher' = cipher /\ (Agreed => Agreed')
        BY <1>1 DEF player, Agreed
      <3>2. QED BY <1>3, <1>7, <3>1 DEF Honest, Keeping
    <2>7. Readable'
      <3>1. client \in Keeping => \A i \in DOMAIN up' : up'[i].under = ServerCipher'
        BY <1>3
      <3>2. QED BY <1>1, <1>2, <1>7, <3>1, ReadableStays DEF player
    <2>8. QED BY <2>2, <2>3, <2>4, <2>5, <2>6, <2>7 DEF LoginInv
  <1>8. QED BY <1>5, <1>6, <1>7 DEF ReadKey, key

LEMMA ErrorKeeps ==
    ASSUME LoginInv, ReadError
    PROVE  LoginInv'
  <1>1. /\ up # <<>> /\ task \in {"reading", "playing"} /\ task # "ended" /\ task' = "ended"
        /\ UNCHANGED <<config, login, conn, down, up, player, answer>>
    BY DEF ReadError
  <1>2. TypeOK /\ Stages /\ Honest /\ Readable
    BY DEF LoginInv
  <1>3. client \notin Keeping
    <2>1. CASE task = "reading" /\ Head(up) \in PlayPackets
      <3>1. profile = None /\ Head(up).type = "Play"
        BY <1>2, <2>1 DEF Stages, PlayPackets
      <3>2. QED BY <1>1, <1>2, <2>1, <3>1, FirstOfKeeping DEF Hellos
    <2>2. CASE task = "playing" /\ Head(up).under # secret
      <3>1. ServerCipher = secret /\ 1 \in DOMAIN up /\ up[1].under # secret
        BY <1>1, <1>2, <2>2, TailFacts DEF Stages, ServerCipher, TypeOK
      <3>2. QED BY <1>2, <3>1 DEF Readable
    <2>3. QED BY <2>1, <2>2 DEF ReadError
  <1>4. QED BY <1>1, <1>2, <1>3, EndKeeps DEF TypeOK

LEMMA SocketKeeps ==
    ASSUME LoginInv, SocketError
    PROVE  LoginInv'
  <1>1. /\ task # "ended" /\ task' = "ended" /\ client \in {"left", "gone"}
        /\ UNCHANGED <<config, login, conn, down, up, player, answer>>
    BY DEF SocketError
  <1>2. client # "left" /\ TypeOK
    BY <1>1, Unended
  <1>3. client \notin Keeping
    BY <1>1, <1>2 DEF Keeping
  <1>4. QED BY <1>1, <1>2, <1>3, EndKeeps DEF TypeOK

LEMMA UnconfirmedKeeps ==
    ASSUME LoginInv, Unconfirmed
    PROVE  LoginInv'
  <1>1. /\ task = "auth" /\ task # "ended" /\ task' = "ended" /\ answer' = Refused
        /\ UNCHANGED <<config, login, conn, down, up, player>>
    BY DEF Unconfirmed
  <1>2. up \in Seq(UpPackets)
    BY DEF LoginInv, TypeOK
  <1>3. QED BY <1>1, <1>2, EndKeeps

\* The session server's answer: the login's own comparison is what makes the
\* connection the claimed account's.
LEMMA ConfirmedKeeps ==
    ASSUME LoginInv, NEW p \in Profiles, Confirmed(p)
    PROVE  LoginInv'
  <1>1. /\ task = "auth" /\ task # "ended" /\ <<p, secret>> \in joined /\ answer' = p
        /\ UNCHANGED <<config, login, secret, logged_in, up, player>>
    BY DEF Confirmed
  <1>2. /\ client # "left"
        /\ TypeOK /\ Stages /\ Shape /\ Authenticated /\ Honest /\ Readable
    BY <1>1, Unended
  <1>3. login # None /\ Len(down) = 1 /\ profile = None /\ secret \in Secrets
    BY <1>1, <1>2 DEF Stages
  <1>4. client \in Keeping =>
            client = "keyed" /\ up = <<>> /\ secret = cipher /\ cipher \in GoodSecrets /\ Agreed
    BY <1>1, <1>2, <1>3 DEF Honest, Keeping
  <1>5. UNCHANGED <<client, claim, cipher, joined, seen>> /\ (Agreed => Agreed')
    BY <1>1 DEF player, Agreed
  <1>6. client \in Keeping => \A i \in DOMAIN up' : up'[i].under = ServerCipher'
    BY <1>1, <1>4
  <1>7. Honest'
    BY <1>1, <1>4, <1>5 DEF Honest, Keeping
  <1>8. CASE ~Matches(p) /\ Reject /\ UNCHANGED profile
    <2>1. client \in Keeping => Mismatch'
      BY <1>1, <1>4, <1>5, <1>8 DEF Mismatch, Matches, Agreed
    <2>2. client \in Keeping => \A i \in DOMAIN up' : up'[i].under = None
      BY <1>1, <1>4
    <2>3. /\ UNCHANGED <<config, login, logged_in, player>>
          /\ secret' \in Secrets \cup {None} /\ profile' = None
          /\ up' \in Seq(UpPackets) /\ answer' \in Profiles \cup {None, Refused}
      BY <1>1, <1>2, <1>3, <1>8 DEF TypeOK
    <2>4. TypeOK' /\ Stages' /\ Shape' /\ Authenticated' /\ Readable'
      BY <1>1, <1>3, <1>8, <2>1, <2>2, <2>3, Rejected
    <2>5. QED BY <1>7, <2>4 DEF LoginInv
  <1>9. CASE Matches(p) /\ NewConnection(p) /\ UNCHANGED down
    <2>1. \/ secret \in GoodSecrets /\ task' = "connected" /\ profile' = p
          \/ task' = "ended" /\ profile' = None
      BY <1>3, <1>9 DEF NewConnection
    <2>2. TypeOK'
      BY <1>1, <1>2, <1>9, <2>1 DEF TypeOK, Tasks, config, player
    <2>3. Stages'
      BY <1>1, <1>3, <1>9, <2>1 DEF Stages
    <2>4. Shape'
      BY <1>1, <1>2, <1>3, <1>9, ShapeStays
    <2>5. Authenticated'
      BY <1>1, <1>5, <1>9, <2>1 DEF Authenticated, Matches
    <2>6. Readable'
      BY <1>1, <1>2, <1>5, <1>6, <1>9, ReadableStays
    <2>7. QED BY <1>7, <2>2, <2>3, <2>4, <2>5, <2>6 DEF LoginInv
  <1>10. QED BY <1>8, <1>9 DEF Confirmed

\* A client that keeps to the protocol and has a connection.
LEMMA Connected ==
    ASSUME LoginInv, task \in {"connected", "playing"}
    PROVE  /\ task # "ended" /\ client # "left"
           /\ TypeOK /\ Stages /\ Shape /\ Authenticated /\ Honest /\ Readable
           /\ profile # None /\ secret \in GoodSecrets /\ login # None /\ ServerCipher = secret
           /\ client \in Keeping =>
                 /\ client \in {"keyed", "playing"} /\ secret = cipher /\ cipher \in GoodSecrets
                 /\ client = "keyed" => up = <<>> /\ Agreed
           /\ down # <<>> /\ InPlace(1) /\ Len(down) \in Nat
           /\ task = "connected" => Len(down) = 1
           /\ task = "playing" => Len(down) > 1
  <1>1. /\ task # "ended" /\ client # "left"
        /\ TypeOK /\ Stages /\ Shape /\ Authenticated /\ Honest /\ Readable
    BY Unended
  <1>2. profile # None /\ secret \in GoodSecrets /\ ServerCipher = secret
    BY <1>1 DEF Stages, Authenticated, ServerCipher
  <1>3. client \in Keeping =>
            /\ client \in {"keyed", "playing"} /\ secret = cipher /\ cipher \in GoodSecrets
            /\ client = "keyed" => up = <<>> /\ Agreed
    BY <1>1, <1>2 DEF Honest, Keeping
  <1>4. /\ Len(down) \in Nat /\ DOMAIN down = 1..Len(down)
        /\ task = "connected" => Len(down) = 1
        /\ task = "playing" => Len(down) > 1
    BY <1>1 DEF Stages, TypeOK
  <1>5. down # <<>> /\ InPlace(1)
    BY <1>1, <1>4 DEF Shape
  <1>6. login # None
    BY <1>1, <1>5, <1>4, OpenEnded
  <1>7. QED BY <1>1, <1>2, <1>3, <1>4, <1>5, <1>6

\* What a connection writes is enciphered, and read by such a client.
LEMMA ConnectionWrites ==
    ASSUME LoginInv, task \in {"connected", "playing"},
           NEW type \in {"LoginCompression", "LoginGameProfile", "Play"}, Write(type, secret),
           UNCHANGED <<config, login, secret, profile, up, player, answer>>,
           logged_in' \in BOOLEAN, task' \in {"playing", "ended"},
           NEW n, n = Len(down),
           down' = Append(down, Enciphered(type)) => InPlace(n + 1)'
    PROVE  LoginInv'
  <1>1. /\ task # "ended" /\ client # "left"
        /\ TypeOK /\ Stages /\ Shape /\ Authenticated /\ Honest /\ Readable
        /\ profile # None /\ secret \in GoodSecrets /\ ServerCipher = secret
        /\ client \in Keeping =>
                 /\ client \in {"keyed", "playing"} /\ secret = cipher /\ cipher \in GoodSecrets
                 /\ client = "keyed" => up = <<>> /\ Agreed
        /\ n \in Nat /\ n >= 1
    BY Connected
  <1>2. Enciphered(type) \in DownPackets /\ down' = Append(down, Enciphered(type))
    BY <1>1, Written DEF Write, Enciphered
  <1>3. /\ Len(down') = n + 1 /\ down' \in Seq(DownPackets) /\ seen \in 0..n + 1
    BY <1>1, <1>2, WriteFacts
  <1>4. TypeOK'
    BY <1>1, <1>3 DEF TypeOK, Tasks, config, player
  <1>5. Stages'
    BY <1>1, <1>3 DEF Stages
  <1>6. Shape'
    BY <1>1, <1>2, ShapeAppend
  <1>7. Authenticated'
    BY <1>1 DEF Authenticated, player
  <1>8. UNCHANGED <<client, claim, cipher, seen>> /\ (Agreed => Agreed')
    BY DEF player, Agreed
  <1>9. Honest'
    BY <1>1, <1>8 DEF Honest, Keeping
  <1>10. Readable'
    <2>1. client \in Keeping => Enciphered(type).under = cipher
      BY <1>1 DEF Enciphered
    <2>2. client \in Keeping => \A i \in DOMAIN up' : up'[i].under = ServerCipher'
      BY <1>1 DEF Readable, ServerCipher
    <2>3. QED BY <1>1, <1>2, <1>8, <2>1, <2>2, ReadableAppend
  <1>11. QED BY <1>4, <1>5, <1>6, <1>7, <1>9, <1>10 DEF LoginInv

LEMMA CompleteKeeps ==
    ASSUME LoginInv, CompleteLogin
    PROVE  LoginInv'
  <1>1. /\ task = "connected" /\ task' = "playing" /\ Write("LoginGameProfile", secret)
        /\ logged_in' = TRUE
        /\ UNCHANGED <<config, login, secret, profile, up, player, answer>>
    BY DEF CompleteLogin
  <1>2. TypeOK /\ profile # None /\ Len(down) = 1 /\ secret \in GoodSecrets
    BY <1>1, Connected
  <1>3. Enciphered("LoginGameProfile") \in DownPackets
    BY <1>2, Written DEF Enciphered
  <1>4. ASSUME down' = Append(down, Enciphered("LoginGameProfile"))
        PROVE  InPlace(2)'
    <2>1. down'[2] = Enciphered("LoginGameProfile")
      BY <1>2, <1>3, <1>4, WriteFacts
    <2>2. QED BY <1>1, <1>2, <2>1 DEF InPlace, Enciphered
  <1>5. QED BY <1>1, <1>2, <1>4, ConnectionWrites

LEMMA CompressKeeps ==
    ASSUME LoginInv, CompressAndCompleteLogin
    PROVE  LoginInv'
  <1>1. /\ task = "connected" /\ task' = "ended" /\ Write("LoginCompression", secret)
        /\ UNCHANGED <<config, login, conn, up, player, answer>>
    BY DEF CompressAndCompleteLogin
  <1>2. TypeOK /\ profile # None /\ Len(down) = 1 /\ secret \in GoodSecrets
    BY <1>1, Connected
  <1>3. Enciphered("LoginCompression") \in DownPackets
    BY <1>2, Written DEF Enciphered
  <1>4. ASSUME down' = Append(down, Enciphered("LoginCompression"))
        PROVE  InPlace(2)'
    <2>1. down'[2] = Enciphered("LoginCompression") /\ Len(down') = 2
      BY <1>2, <1>3, <1>4, WriteFacts
    <2>2. QED BY <1>1, <1>2, <2>1 DEF InPlace, Enciphered, conn
  <1>5. QED BY <1>1, <1>2, <1>4, ConnectionWrites DEF conn, TypeOK

LEMMA PlayKeeps ==
    ASSUME LoginInv, WritePlayPacket
    PROVE  LoginInv'
  <1>1. /\ task = "playing" /\ task' = "playing" /\ Write("Play", secret)
        /\ UNCHANGED <<config, login, conn, up, player, answer>>
    BY DEF WritePlayPacket
  <1> PICK n : n = Len(down)
    OBVIOUS
  <1>2. TypeOK /\ Shape /\ profile # None /\ n \in Nat /\ n > 1 /\ secret \in GoodSecrets
    BY <1>1, Connected
  <1>3. Enciphered("Play") \in DownPackets
    BY <1>2, Written DEF Enciphered
  <1>4. 2 \in DOMAIN down /\ down[2].type = "LoginGameProfile"
    <2>1. 2 \in DOMAIN down
      BY <1>2 DEF TypeOK
    <2>2. QED BY <1>1, <1>2, <2>1, OpenEnded DEF Enciphered
  <1>5. ASSUME down' = Append(down, Enciphered("Play"))
        PROVE  InPlace(n + 1)'
    <2>1. down'[n + 1] = Enciphered("Play") /\ down'[2] = down[2]
      BY <1>2, <1>3, <1>5, WriteFacts
    <2>2. QED BY <1>1, <1>2, <1>4, <2>1 DEF InPlace, Enciphered, conn
  <1>6. QED BY <1>1, <1>2, <1>5, ConnectionWrites DEF conn, TypeOK

LEMMA ReadPacketKeeps ==
    ASSUME LoginInv, ReadPacket
    PROVE  LoginInv'
  <1>1. /\ task = "playing" /\ up # <<>> /\ up' = Tail(up)
        /\ UNCHANGED <<config, task, login, conn, down, player, answer>>
    BY DEF ReadPacket
  <1>2. /\ task # "ended" /\ client # "left"
        /\ TypeOK /\ Stages /\ Shape /\ Authenticated /\ Honest /\ Readable
        /\ profile # None /\ secret \in GoodSecrets /\ ServerCipher = secret
        /\ client \in Keeping =>
                 /\ client \in {"keyed", "playing"} /\ secret = cipher /\ cipher \in GoodSecrets
                 /\ client = "keyed" => up = <<>> /\ Agreed
    BY <1>1, Connected
  <1>3. /\ up' \in Seq(UpPackets)
        /\ \A i \in DOMAIN up' : i + 1 \in DOMAIN up /\ up'[i] = up[i + 1]
    <2>1. /\ up' \in Seq(UpPackets)
          /\ DOMAIN up' = 1..Len(up) - 1 /\ DOMAIN up = 1..Len(up) /\ Len(up) \in Nat
          /\ \A i \in 1..Len(up) - 1 : up'[i] = up[i + 1]
      BY <1>1, <1>2, TailFacts DEF TypeOK
    <2>2. QED BY <2>1
  <1>4. UNCHANGED <<client, cipher, seen, ServerCipher>>
    BY <1>1 DEF player, conn, ServerCipher
  <1>5. TypeOK' /\ Stages' /\ Shape' /\ Authenticated'
    <2>1. TypeOK'
      BY <1>1, <1>2, <1>3 DEF TypeOK, config, conn, player
    <2>2. Stages' /\ Authenticated'
      BY <1>1, <1>2 DEF Stages, Authenticated, conn, player
    <2>3. QED BY <1>1, <1>2, <2>1, <2>2, ShapeStays DEF conn
  <1>6. client \in Keeping => client = "playing"
    BY <1>1, <1>2
  <1>7. Honest'
    BY <1>1, <1>2, <1>4, <1>6 DEF Honest, Keeping, conn
  <1>8. client \in Keeping => \A i \in DOMAIN up' : up'[i].under = ServerCipher'
    BY <1>2, <1>3, <1>4 DEF Readable
  <1>9. Readable'
    BY <1>1, <1>2, <1>4, <1>8, ReadableStays
  <1>10. QED BY <1>5, <1>7, <1>9 DEF LoginInv

-----------------------------------------------------------------------------
(* One lemma per action of the client.                                     *)

\* What no client can touch.
LEMMA ServerStays ==
    ASSUME LoginInv, UNCHANGED <<config, task, login, conn, down, answer>>,
           joined \subseteq joined'
    PROVE  /\ TypeOK /\ Stages /\ Shape /\ Authenticated /\ Honest /\ Readable
           /\ Stages' /\ Shape' /\ Authenticated' /\ ServerCipher' = ServerCipher
  <1>1. /\ TypeOK /\ Stages /\ Shape /\ Authenticated /\ Honest /\ Readable
    BY DEF LoginInv
  <1>2. Stages' /\ ServerCipher' = ServerCipher
    BY <1>1 DEF Stages, ServerCipher, conn
  <1>3. Authenticated'
    BY <1>1 DEF Authenticated, conn
  <1>4. Shape'
    BY <1>1 DEF Shape, InPlace, Greeting, Enciphered, Plain, conn
  <1>5. QED BY <1>1, <1>2, <1>3, <1>4

LEMMA Sent ==
    ASSUME TypeOK, NEW p \in UpPackets, Send(p)
    PROVE  /\ up' = Append(up, p) /\ up' \in Seq(UpPackets)
           /\ \A i \in DOMAIN up' : up'[i] = p \/ (i \in DOMAIN up /\ up'[i] = up[i])
  <1>1. up \in Seq(UpPackets) /\ up' = Append(up, p)
    BY DEF TypeOK, Send
  <1>2. /\ up' \in Seq(UpPackets)
        /\ \A i \in 1..Len(up) : up'[i] = up[i]
        /\ up'[Len(up) + 1] = p
        /\ DOMAIN up = 1..Len(up) /\ Len(up) \in Nat
        /\ DOMAIN up' = 1..Len(up) + 1
    BY <1>1, AppendFacts
  <1>3. \A i \in 1..Len(up) + 1 : i \in 1..Len(up) \/ i = Len(up) + 1
    BY <1>2
  <1>4. ASSUME NEW i \in DOMAIN up'
        PROVE  up'[i] = p \/ (i \in DOMAIN up /\ up'[i] = up[i])
    <2>1. i \in 1..Len(up) + 1
      BY <1>2
    <2>2. CASE i \in 1..Len(up)
      BY <1>2, <2>2
    <2>3. CASE i = Len(up) + 1
      BY <1>2, <2>3
    <2>4. QED BY <1>3, <2>1, <2>2, <2>3
  <1>5. QED BY <1>1, <1>2, <1>4

LEMMA SendHelloKeeps ==
    ASSUME LoginInv, NEW p \in Profiles, SendHello(p)
    PROVE  LoginInv'
  <1>1. /\ client = "new" /\ client' = "greeted"
        /\ UNCHANGED <<config, task, login, conn, down, seen, cipher, joined, answer>>
    BY DEF SendHello
  <1>2. PICK hello : /\ \E id \in {None, p.id} :
                           hello = [type |-> "Hello", name |-> p.name, id |-> id, under |-> None]
                     /\ Send(hello) /\ claim' = hello
    BY DEF SendHello
  <1>3. /\ TypeOK /\ Stages /\ Shape /\ Authenticated /\ Honest /\ Readable
        /\ Stages' /\ Shape' /\ Authenticated' /\ ServerCipher' = ServerCipher
    BY <1>1, ServerStays
  <1>4. hello \in Hellos /\ hello.under = None
    BY <1>2 DEF Hellos, Names, Ids
  <1>5. hello \in UpPackets
    BY <1>4 DEF UpPackets
  <1>6. up = <<>> /\ login = None /\ cipher = None /\ secret = None /\ profile = None
    BY <1>1, <1>3 DEF Honest
  <1>7. up' = <<hello>> /\ up' \in Seq(UpPackets)
    BY <1>2, <1>3, <1>5, <1>6, Sent
  <1>8. TypeOK'
    BY <1>1, <1>2, <1>3, <1>4, <1>7 DEF TypeOK, Keeping, config, conn
  <1>9. Honest'
    BY <1>1, <1>2, <1>4, <1>6, <1>7 DEF Honest, conn
  <1>10. \A i \in DOMAIN down : down[i].under = None
    BY <1>3, <1>6 DEF Shape, InPlace, Plain
  <1>11. seen + 1 .. Len(down) \subseteq DOMAIN down
    BY <1>3 DEF TypeOK
  <1>12. ServerCipher' = None
    BY <1>3, <1>6 DEF ServerCipher
  <1>13. Readable'
    BY <1>1, <1>4, <1>6, <1>7, <1>10, <1>11, <1>12 DEF Readable
  <1>14. QED BY <1>3, <1>8, <1>9, <1>13 DEF LoginInv

LEMMA SendKeyKeeps ==
    ASSUME LoginInv, NEW p \in Profiles, NEW s \in GoodSecrets, SendKey(p, s)
    PROVE  LoginInv'
  <1> DEFINE key == [type |-> "Key", challenge |-> down[seen + 1].challenge,
                     secret |-> s, under |-> None]
  <1>1. /\ client = "greeted" /\ client' = "keyed" /\ cipher' = s
        /\ joined' = joined \cup {<<p, s>>}
        /\ Incoming("Hello") /\ Send(key)
        /\ UNCHANGED <<config, task, login, conn, down, claim, answer>>
    BY DEF SendKey
  <1>2. /\ TypeOK /\ Stages /\ Shape /\ Authenticated /\ Honest /\ Readable
        /\ Stages' /\ Shape' /\ Authenticated' /\ ServerCipher' = ServerCipher
    BY <1>1, ServerStays
  <1>3. /\ seen < Len(down) /\ seen' = seen + 1 /\ down[seen + 1].type = "Hello"
        /\ seen \in Nat /\ Len(down) \in Nat /\ seen + 1 \in DOMAIN down
    BY <1>1, <1>2 DEF Incoming, TypeOK
  <1>4. seen + 1 = 1 /\ login # None /\ down[seen + 1].challenge = login.challenge
    BY <1>2, <1>3 DEF Shape, InPlace, Greeting, Enciphered, Plain
  <1>5. login \in LoginStates /\ login.challenge \in Challenges
    BY <1>2, <1>4 DEF TypeOK, LoginStates
  <1>6. up = <<>> /\ task = "reading" /\ Agreed /\ profile = None
    BY <1>1, <1>2, <1>4 DEF Honest
  <1>7. /\ key \in Keys /\ key.under = None
        /\ key = [type |-> "Key", challenge |-> login.challenge, secret |-> s, under |-> None]
    BY <1>4, <1>5 DEF Keys
  <1>8. key \in UpPackets
    BY <1>7 DEF UpPackets
  <1> HIDE DEF key
  <1>9. up' = <<key>> /\ up' \in Seq(UpPackets)
    BY <1>1, <1>2, <1>6, <1>8, Sent
  <1>10. Len(down) = 1
    BY <1>2, <1>4, <1>6 DEF Stages
  <1>11. TypeOK'
    BY <1>1, <1>2, <1>3, <1>9 DEF TypeOK, Keeping, config, conn
  <1>12. Honest'
    <2>1. Agreed' /\ login' = login /\ task' = "reading" /\ profile' = None
      BY <1>1, <1>6 DEF Agreed, conn
    <2>2. QED BY <1>1, <1>7, <1>9, <2>1 DEF Honest
  <1>13. Readable'
    <2>1. ServerCipher' = None
      BY <1>2, <1>6 DEF ServerCipher
    <2>2. seen' = 1 /\ Len(down') = 1
      BY <1>1, <1>3, <1>4, <1>10
    <2>3. seen' + 1 .. Len(down') = {}
      BY <2>2
    <2>4. \A i \in DOMAIN up' : up'[i].under = None
      BY <1>7, <1>9
    <2>5. QED BY <2>1, <2>3, <2>4 DEF Readable
  <1>14. QED BY <1>2, <1>11, <1>12, <1>13 DEF LoginInv

\* Whoever reads a LoginDisconnect reads it from a task that has ended.
LEMMA ReceiveKeeps ==
    ASSUME LoginInv, Receive
    PROVE  LoginInv'
  <1> PICK type : Incoming(type) /\ \/ type = "LoginDisconnect" /\ client' = "left"
                                    \/ type = "LoginGameProfile" /\ client' = "playing"
                                    \/ type \in {"LoginCompression", "Play"} /\ client' = client
    BY DEF Receive
  <1>1. /\ client \in Keeping
        /\ UNCHANGED <<config, task, login, conn, down, up, claim, cipher, joined, answer>>
    BY DEF Receive
  <1>2. /\ TypeOK /\ Stages /\ Shape /\ Authenticated /\ Honest /\ Readable
        /\ Stages' /\ Shape' /\ Authenticated' /\ ServerCipher' = ServerCipher
    BY <1>1, ServerStays
  <1>3. /\ seen' = seen + 1 /\ down[seen + 1].type = type /\ down[seen + 1].under = cipher
        /\ seen \in Nat /\ Len(down) \in Nat /\ seen + 1 \in DOMAIN down
        /\ seen' \in 0..Len(down)
    BY <1>2 DEF Incoming, TypeOK
  <1>4. client' \in Keeping
    BY <1>1 DEF Keeping
  <1>5. TypeOK'
    BY <1>1, <1>2, <1>3, <1>4 DEF TypeOK, config, conn
  <1>6. Honest'
    <2>1. CASE type = "LoginDisconnect" /\ client' = "left"
      <3>1. task = "ended"
        BY <1>2, <1>3, <2>1, OpenEnded
      <3>2. QED BY <1>1, <2>1, <3>1 DEF Honest
    <2>2. CASE type = "LoginGameProfile" /\ client' = "playing"
      <3>1. profile # None /\ secret = cipher
        BY <1>2, <1>3, <2>2 DEF Shape, InPlace, Greeting, Enciphered, Plain
      <3>2. QED BY <1>1, <1>2, <2>2, <3>1 DEF Honest, Authenticated, conn
    <2>3. CASE client' = client
      BY <1>1, <1>2, <2>3 DEF Honest, Agreed, conn
    <2>4. QED BY <2>1, <2>2, <2>3
  <1>7. Readable'
    <2>1. \A i \in seen' + 1 .. Len(down) : i \in seen + 1 .. Len(down)
      BY <1>3
    <2>2. (Mismatch <=> Mismatch')
      BY <1>1 DEF Mismatch
    <2>3. QED BY <1>1, <1>2, <2>1, <2>2 DEF Readable
  <1>8. QED BY <1>2, <1>5, <1>6, <1>7 DEF LoginInv

LEMMA GiveUpKeeps ==
    ASSUME LoginInv, GiveUp
    PROVE  LoginInv'
  <1>1. /\ client \in Keeping /\ client' = "left"
        /\ UNCHANGED <<config, task, login, conn, down, up, seen, claim, cipher, joined, answer>>
    BY DEF GiveUp
  <1>2. /\ TypeOK /\ Stages /\ Shape /\ Authenticated /\ Honest /\ Readable
        /\ Stages' /\ Shape' /\ Authenticated' /\ ServerCipher' = ServerCipher
    BY <1>1, ServerStays
  <1>3. task = "ended"
    <2>1. CASE seen < Len(down)
      <3>1. seen + 1 \in seen + 1 .. Len(down) /\ seen + 1 \in DOMAIN down
        BY <1>2, <2>1 DEF TypeOK
      <3>2. down[seen + 1].under # cipher
        BY <2>1 DEF GiveUp
      <3>3. down[seen + 1].type = "LoginDisconnect"
        BY <1>1, <1>2, <3>1, <3>2 DEF Readable
      <3>4. QED BY <1>2, <3>1, <3>3, OpenEnded
    <2>2. QED BY <2>1 DEF GiveUp
  <1>4. TypeOK'
    BY <1>1, <1>2 DEF TypeOK, Keeping, config, conn
  <1>5. Honest'
    BY <1>1, <1>3 DEF Honest
  <1>6. Readable'
    BY <1>1, <1>2 DEF Readable, Mismatch
  <1>7. QED BY <1>2, <1>4, <1>5, <1>6 DEF LoginInv

LEMMA SendPlayKeeps ==
    ASSUME LoginInv, SendPlayPacket
    PROVE  LoginInv'
  <1> DEFINE packet == [type |-> "Play", under |-> cipher]
  <1>1. /\ client = "playing" /\ Send(packet)
        /\ UNCHANGED <<config, task, login, conn, down, player, answer>>
    BY DEF SendPlayPacket
  <1>2. /\ TypeOK /\ Stages /\ Shape /\ Authenticated /\ Honest /\ Readable
        /\ Stages' /\ Shape' /\ Authenticated' /\ ServerCipher' = ServerCipher
    BY <1>1, ServerStays DEF player
  <1>3. cipher \in GoodSecrets /\ ServerCipher = cipher
    BY <1>1, <1>2 DEF Honest, ServerCipher
  <1>4. packet \in UpPackets /\ packet.under = cipher
    BY <1>3 DEF UpPackets, PlayPackets
  <1> HIDE DEF packet
  <1>5. /\ up' \in Seq(UpPackets)
        /\ \A i \in DOMAIN up' : up'[i] = packet \/ (i \in DOMAIN up /\ up'[i] = up[i])
    BY <1>1, <1>2, <1>4, Sent
  <1>6. TypeOK'
    BY <1>1, <1>2, <1>5 DEF TypeOK, config, conn, player
  <1>7. Honest'
    BY <1>1, <1>2 DEF Honest, conn, player
  <1>8. Readable'
    <2>1. client \in Keeping
      BY <1>1 DEF Keeping
    <2>2. \A i \in DOMAIN up' : up'[i].under = ServerCipher'
      BY <1>2, <1>3, <1>4, <1>5, <2>1 DEF Readable
    <2>3. UNCHANGED <<client, claim, cipher, seen, down, answer>>
      BY <1>1 DEF player
    <2>4. QED BY <1>2, <2>2, <2>3 DEF Readable, Mismatch
  <1>9. QED BY <1>2, <1>6, <1>7, <1>8 DEF LoginInv

\* Of a client that does not keep to the protocol only its types matter.
LEMMA StrayKeeps ==
    ASSUME LoginInv, client' \in {"stray", "gone"},
           UNCHANGED <<config, task, login, conn, down, answer>>,
           joined \subseteq joined', joined' \subseteq Profiles \X Secrets,
           claim' \in {claim, None}, cipher' \in {cipher, None}, seen' \in {seen, 0},
           up' \in Seq(UpPackets)
    PROVE  LoginInv'
  <1>1. TypeOK /\ Stages' /\ Shape' /\ Authenticated'
    BY ServerStays
  <1>2. TypeOK'
    BY <1>1 DEF TypeOK, config, conn
  <1>3. client' \notin Keeping
    BY DEF Keeping
  <1>4. QED BY <1>1, <1>2, <1>3 DEF LoginInv, Honest, Readable, Keeping

-----------------------------------------------------------------------------
(* The invariant.                                                          *)

LEMMA LoginInit == Init => LoginInv
  <1> SUFFICES ASSUME Init PROVE LoginInv
    OBVIOUS
  <1>1. TypeOK
    <2>1. down \in Seq(DownPackets) /\ up \in Seq(UpPackets) /\ seen \in 0..Len(down)
      BY DEF Init
    <2>2. joined \subseteq Profiles \X Secrets
      BY DEF Init
    <2>3. QED BY <2>1, <2>2 DEF Init, TypeOK, Tasks, Keeping
  <1>2. Stages /\ Shape /\ Authenticated /\ Readable
    BY DEF Init, Stages, Shape, Authenticated, Readable
  <1>3. Honest
    BY DEF Init, Honest
  <1>4. QED BY <1>1, <1>2, <1>3 DEF LoginInv

LEMMA LoginNext == LoginInv /\ [Next]_vars => LoginInv'
  <1> SUFFICES ASSUME LoginInv, [Next]_vars PROVE LoginInv'
    OBVIOUS
  <1> TypeOK
    BY DEF LoginInv
  <1>1. CASE ServerStep
    BY <1>1, CheckVersionKeeps, HelloKeeps, KeyKeeps, QueryKeeps, ErrorKeeps, SocketKeeps,
       CompleteKeeps, CompressKeeps, ReadPacketKeeps DEF ServerStep
  <1>2. CASE WritePlayPacket
    BY <1>2, PlayKeeps
  <1>3. CASE Answers
    BY <1>3, UnconfirmedKeeps, ConfirmedKeeps DEF Answers
  <1>4. CASE Keeps
    BY <1>4, SendHelloKeeps, SendKeyKeeps, ReceiveKeeps, GiveUpKeeps DEF Keeps
  <1>5. CASE SendPlayPacket
    BY <1>5, SendPlayKeeps
  <1>6. CASE HangUp
    BY <1>6, StrayKeeps DEF HangUp, TypeOK
  <1>7. ASSUME NEW packet \in UpPackets, SendStray(packet)
        PROVE  LoginInv'
    BY <1>7, Sent, StrayKeeps DEF SendStray, Stray, TypeOK
  <1>8. ASSUME NEW p \in Profiles, NEW s \in Secrets, JoinStray(p, s)
        PROVE  LoginInv'
    <2>1. joined' = joined \cup {<<p, s>>} /\ Stray /\ UNCHANGED up
      BY <1>8 DEF JoinStray
    <2>2. joined \subseteq joined' /\ joined' \subseteq Profiles \X Secrets
      BY <2>1 DEF TypeOK
    <2>3. QED BY <2>1, <2>2, StrayKeeps DEF Stray, TypeOK
  <1>9. CASE UNCHANGED vars
    BY <1>9 DEF vars, config, conn, player, LoginInv, TypeOK, Stages, Shape, InPlace, Greeting,
                Enciphered, Plain, Authenticated, Honest, Agreed, Readable, Mismatch, ServerCipher
  <1>10. QED
    BY <1>1, <1>2, <1>3, <1>4, <1>5, <1>6, <1>7, <1>8, <1>9 DEF Next

LEMMA LoginAlways == Spec => []LoginInv
  BY LoginInit, LoginNext, PTL DEF Spec

-----------------------------------------------------------------------------
\* The variables hold what their declarations in the code say.
THEOREM LoginTypes == Spec => []TypeOK
  <1>1. LoginInv => TypeOK
    BY DEF LoginInv
  <1>2. QED BY <1>1, LoginAlways, PTL

\* login_client hands a connection out only for an account that has joined
\* with the connection's own secret, and that the Hello of the login named.
THEOREM LoginAuthenticated == Spec => []Authenticated
  <1>1. LoginInv => Authenticated
    BY DEF LoginInv
  <1>2. QED BY <1>1, LoginAlways, PTL

\* A client that keeps to the protocol can read what login_client and
\* MCConnection send it, and is read, across the change to encryption.
THEOREM LoginReadable == Spec => []Readable
  <1>1. LoginInv => Readable
    BY DEF LoginInv
  <1>2. QED BY <1>1, LoginAlways, PTL

\* login_client and MCConnection send the packets of a login in the order of
\* the protocol, whatever the client sends.
THEOREM LoginProtocol == Spec => []Protocol
  <1>1. LoginInv => Protocol
    <2> SUFFICES ASSUME LoginInv,
                        NEW i \in DOMAIN down, NEW j \in DOMAIN down, i < j
                 PROVE  /\ down[i].type \notin {"LoginDisconnect", "LoginCompression"}
                        /\ down[j].type # "Hello"
                        /\ down[j].type = "LoginGameProfile" => i = 1
                        /\ down[j].type = "Play" => down[2].type = "LoginGameProfile"
                        /\ down[j].type # "LoginDisconnect" => down[j].under = secret
      BY DEF Protocol
    <2>1. /\ InPlace(i) /\ InPlace(j)
          /\ DOMAIN down = 1..Len(down) /\ Len(down) \in Nat
      BY DEF LoginInv, Shape, TypeOK
    <2>2. i # Len(down) /\ j # 1 /\ i \in Nat /\ j \in Nat
      BY <2>1
    <2>3. QED BY <2>1, <2>2 DEF InPlace, Greeting, Enciphered, Plain
  <1>2. QED BY <1>1, LoginAlways, PTL

-----------------------------------------------------------------------------
(* Whom the login turns away.                                              *)

\* Nothing has been said of a client that has not joined yet.
Unanswered == client \in {"new", "greeted"} => answer = None

Excused == ~current \/ compression \/ answer = Refused \/ Mismatch

\* The task ends on a client that keeps to the protocol only for one of the
\* reasons in Excused: at every other end the client has left or strayed, as
\* LoginInv says what the packet that the task reads may be.
LEMMA EndsExcused ==
    ASSUME LoginInv, ServerStep \/ Answers, task # "ended", task' = "ended", client \in Keeping
    PROVE  Excused'
  <1>1. /\ client # "left" /\ UNCHANGED <<current, compression, claim>>
        /\ TypeOK /\ Stages /\ Honest /\ Readable
    <2>1. UNCHANGED <<current, compression, claim>>
      BY DEF ServerStep, Answers, CheckVersion, ReadHello, ReadKey, ReadQuery, ReadError,
             SocketError, CompleteLogin, CompressAndCompleteLogin, ReadPacket, Unconfirmed,
             Confirmed, config, player
    <2>2. QED BY <2>1, Unended
  <1>2. CASE CheckVersion
    BY <1>1, <1>2 DEF CheckVersion, Excused
  <1>3. CASE task = "reading" /\ up # <<>> /\ (ReadHello \/ ReadKey \/ ReadQuery \/ ReadError)
    <2>1. profile = None
      BY <1>1, <1>3 DEF Stages
    <2>2. CASE client = "greeted" /\ Head(up) \in Hellos /\ login = None
      <3>1. Head(up).type = "Hello"
        BY <2>2 DEF Hellos
      <3>2. ReadHello
        BY <1>3, <3>1 DEF ReadKey, ReadQuery, ReadError, Take, Keys, Queries, PlayPackets
      <3>3. QED BY <1>3, <2>2, <3>2 DEF ReadHello
    <2>3. CASE /\ client = "keyed" /\ Agreed /\ cipher \in GoodSecrets
               /\ Head(up) = [type |-> "Key", challenge |-> login.challenge,
                              secret |-> cipher, under |-> None]
      <3>1. /\ Head(up).type = "Key" /\ Head(up).challenge = login.challenge
            /\ Head(up).secret = cipher
        BY <2>3
      <3>2. ReadKey
        BY <1>3, <3>1 DEF ReadHello, ReadQuery, ReadError, Take, Hellos, Queries, PlayPackets
      <3>3. login # None /\ login.challenge \in Challenges /\ cipher # Garbled
        BY <1>1, <2>3 DEF Agreed, TypeOK, LoginStates
      <3>4. QED BY <1>3, <3>1, <3>2, <3>3 DEF ReadKey
    <2>4. QED BY <1>1, <1>3, <2>1, <2>2, <2>3, FirstOfKeeping
  <1>4. CASE ReadError /\ task = "playing"
    <2>1. ServerCipher = secret /\ up # <<>> /\ Head(up).under # secret
      BY <1>1, <1>4 DEF Stages, ServerCipher, ReadError
    <2>2. 1 \in DOMAIN up /\ Head(up) = up[1]
      BY <1>1, <2>1, TailFacts DEF TypeOK
    <2>3. QED BY <1>1, <2>1, <2>2 DEF Readable
  <1>5. CASE SocketError
    BY <1>1, <1>5 DEF SocketError, Keeping
  <1>6. CASE CompressAndCompleteLogin
    BY <1>1, <1>6 DEF CompressAndCompleteLogin, Excused
  <1>7. CASE Unconfirmed
    BY <1>7 DEF Unconfirmed, Excused
  <1>8. ASSUME NEW p \in Profiles, Confirmed(p)
        PROVE  Excused'
    <2>1. /\ task = "auth" /\ answer' = p /\ login # None /\ profile = None
          /\ ~Matches(p) \/ (secret \notin GoodSecrets)
      BY <1>1, <1>8 DEF Confirmed, NewConnection, Stages
    <2>2. client = "keyed" /\ secret = cipher /\ cipher \in GoodSecrets /\ Agreed
      BY <1>1, <2>1 DEF Honest, Keeping
    <2>3. QED BY <1>1, <2>1, <2>2 DEF Matches, Agreed, Mismatch, Excused
  <1>9. CASE CompleteLogin \/ ReadPacket
    BY <1>9 DEF CompleteLogin, ReadPacket
  <1>10. \/ task = "reading" /\ up # <<>>
         \/ ~(ReadHello \/ ReadKey \/ ReadQuery)
    BY DEF ReadHello, ReadKey, ReadQuery, Take
  <1>11. ReadError => task \in {"reading", "playing"} /\ up # <<>>
    BY DEF ReadError
  <1>12. QED
    BY <1>2, <1>3, <1>4, <1>5, <1>6, <1>7, <1>8, <1>9, <1>10, <1>11 DEF ServerStep, Answers

\* Only the session server answers, and only for a client that has joined.
LEMMA UnansweredNext ==
    ASSUME LoginInv, Unanswered, Next
    PROVE  Unanswered'
  <1>1. CASE Answers
    <2>1. task = "auth" /\ UNCHANGED client
      BY <1>1 DEF Answers, Unconfirmed, Confirmed, player
    <2>2. client \notin {"new", "greeted"}
      BY <2>1 DEF LoginInv, Stages, Honest
    <2>3. QED BY <2>1, <2>2 DEF Unanswered
  <1>2. CASE ServerStep \/ WritePlayPacket
    BY <1>2 DEF ServerStep, WritePlayPacket, CheckVersion, ReadHello, ReadKey, ReadQuery, ReadError,
                SocketError, CompleteLogin, CompressAndCompleteLogin, ReadPacket, player, Unanswered
  <1>3. CASE Keeps
    BY <1>3 DEF Keeps, SendHello, SendKey, Receive, GiveUp, Unanswered
  <1>4. CASE SendPlayPacket
    BY <1>4 DEF SendPlayPacket, player, Unanswered
  <1>5. CASE HangUp
    BY <1>5 DEF HangUp, Unanswered
  <1>6. CASE \E packet \in UpPackets : SendStray(packet)
    BY <1>6 DEF SendStray, Stray, Unanswered
  <1>7. CASE \E p \in Profiles, s \in Secrets : JoinStray(p, s)
    BY <1>7 DEF JoinStray, Stray, Unanswered
  <1>8. QED BY <1>1, <1>2, <1>3, <1>4, <1>5, <1>6, <1>7 DEF Next

LEMMA TurnedAwayNext ==
    ASSUME LoginInv, Unanswered, NeverTurnedAway, Next
    PROVE  NeverTurnedAway'
  <1> SUFFICES ASSUME client' \in Keeping, task' = "ended" PROVE Excused'
    BY DEF NeverTurnedAway, Excused
  <1>1. CASE ServerStep \/ Answers
    <2>1. UNCHANGED <<current, compression, client, claim>>
      BY <1>1 DEF ServerStep, Answers, CheckVersion, ReadHello, ReadKey, ReadQuery, ReadError,
                  SocketError, CompleteLogin, CompressAndCompleteLogin, ReadPacket, Unconfirmed,
                  Confirmed, config, player
    <2>2. CASE task # "ended"
      BY <1>1, <2>1, <2>2, EndsExcused
    <2>3. CASE task = "ended"
      BY <1>1, <2>3 DEF ServerStep, Answers, CheckVersion, ReadHello, ReadKey, ReadQuery, ReadError,
                        SocketError, CompleteLogin, CompressAndCompleteLogin, ReadPacket,
                        Unconfirmed, Confirmed, Take
    <2>4. QED BY <2>2, <2>3
  <1>2. CASE WritePlayPacket
    BY <1>2 DEF WritePlayPacket
  <1>3. ASSUME NEW p \in Profiles, SendHello(p)
        PROVE  Excused'
    <2>1. /\ client \in Keeping /\ task = "ended" /\ answer = None
          /\ UNCHANGED <<current, compression, answer>>
      BY <1>3 DEF SendHello, Unanswered, Keeping, config
    <2>2. QED BY <2>1 DEF NeverTurnedAway, Mismatch, Excused
  <1>4. CASE /\ client \in Keeping
             /\ UNCHANGED <<current, compression, task, claim, answer>>
    BY <1>4 DEF NeverTurnedAway, Mismatch, Excused
  <1>5. CASE client' \in {"stray", "gone"}
    BY <1>5 DEF Keeping
  <1>6. CASE Keeps
    BY <1>3, <1>4, <1>6 DEF Keeps, SendKey, Receive, GiveUp, Keeping, config
  <1>7. CASE SendPlayPacket
    BY <1>4, <1>7 DEF SendPlayPacket, Keeping, config, player
  <1>8. CASE HangUp
    BY <1>5, <1>8 DEF HangUp
  <1>9. CASE \E packet \in UpPackets : SendStray(packet)
    BY <1>5, <1>9 DEF SendStray, Stray
  <1>10. CASE \E p \in Profiles, s \in Secrets : JoinStray(p, s)
    BY <1>5, <1>10 DEF JoinStray, Stray
  <1>11. QED BY <1>1, <1>2, <1>6, <1>7, <1>8, <1>9, <1>10 DEF Next

\* login_client ends on a client that keeps to the protocol only if it speaks
\* another version, the threshold is set, or the session server does not
\* confirm its account.
THEOREM LoginNeverTurnedAway == Spec => []NeverTurnedAway
  <1> DEFINE Inv == Unanswered /\ NeverTurnedAway
  <1>1. Init => Inv
    BY DEF Init, Unanswered, NeverTurnedAway
  <1>2. LoginInv /\ Inv /\ [Next]_vars => Inv'
    <2>1. LoginInv /\ Inv /\ Next => Inv'
      BY UnansweredNext, TurnedAwayNext
    <2>2. Inv /\ UNCHANGED vars => Inv'
      BY DEF vars, config, player, Unanswered, NeverTurnedAway, Mismatch
    <2>3. QED BY <2>1, <2>2
  <1>3. Inv => NeverTurnedAway
    OBVIOUS
  <1> HIDE DEF Inv
  <1>4. QED BY <1>1, <1>2, <1>3, LoginAlways, PTL DEF Spec
=============================================================================
