-------------------------------- MODULE Login --------------------------------
(***************************************************************************)
(* One login: login_client with its call of the session server             *)
(* (src/phase/login.rs), and what MCConnection does until the player is    *)
(* logged in (src/client.rs): which packets are sent, what they are        *)
(* encrypted with, and what was compared before a connection is handed     *)
(* out.                                                                    *)
(*                                                                         *)
(* The client either keeps to the protocol or, once it strays, sends what  *)
(* it likes.  A packet is encrypted under a shared secret, or under None.  *)
(* The client, the session server and the acceptor are the environment.    *)
(* down is all the server has sent, of which the client has read the first *)
(* seen packets; answer is history.                                        *)
(***************************************************************************)
EXTENDS Naturals, Sequences, FiniteSets

CONSTANTS
    Profiles,      \* the accounts: records of a name and an id
    Challenges,    \* what rand::thread_rng() may make
    Secrets,       \* what a client may take for a shared secret ...
    GoodSecrets,   \* ... and those of them that have the length of a key
    None, Garbled, \* no value; bytes that do not decrypt;
    Refused,       \* and what is no profile
    MaxUp,         \* bound: packets of the client under way
    MaxJoined,     \* bound: how often a stray client joins
    MaxPlay        \* bound: play packets of the server

Names == {p.name : p \in Profiles}
Ids == {p.id : p \in Profiles}
LoginStates == [challenge : Challenges, name : Names, id : Ids \cup {None}]

ASSUME LoginAssumption ==
    /\ None \notin Secrets \cup Challenges /\ Garbled \notin Secrets \cup Challenges
    /\ GoodSecrets \subseteq Secrets
    /\ None \notin Profiles /\ Refused \notin Profiles \cup {None}
    /\ None \notin Ids /\ None \notin LoginStates
    /\ MaxUp \in Nat /\ MaxJoined \in Nat /\ MaxPlay \in Nat

VARIABLES
    current,       \* the client speaks CURRENT_PROTOCOL_VERSION
    compression,   \* the server's configuration has a compression threshold
    task,          \* where the connection's task is
    login,         \* LoginState: None is ExpectingHello, else ExpectingKeyResponse
    secret,        \* shared_secret, once decrypted
    profile,       \* MCConnection.profile: None while there is no connection
    logged_in,     \* MCConnection.logged_in
    down, seen,    \* all packets to the client, and how many it has read
    up,            \* packets to the server
    client,        \* where the client is
    claim,         \* what the client's own Hello said
    cipher,        \* what the client encrypts and decrypts with
    joined,        \* <<account, secret>> the session server has been told of
    answer         \* history: the session server's answer

config == <<current, compression>>
conn == <<secret, profile, logged_in>>
player == <<client, claim, cipher, joined, seen>>
vars == <<config, task, login, conn, down, up, player, answer>>

Hellos == [type : {"Hello"}, name : Names, id : Ids \cup {None}, under : {None}]
Keys == [type : {"Key"}, challenge : Challenges \cup {Garbled},
         secret : Secrets \cup {Garbled}, under : {None}]
Queries == [type : {"CustomQuery"}, under : {None}]
PlayPackets == [type : {"Play"}, under : Secrets]
UpPackets == Hellos \cup Keys \cup Queries \cup PlayPackets

DownPackets ==
    [type : {"Hello"}, challenge : Challenges, under : {None}]
        \cup [type : {"LoginDisconnect", "LoginCompression", "LoginGameProfile", "Play"},
              under : Secrets \cup {None}]

\* A client that keeps to the protocol is at one of these; one that does not
\* is "stray", and "gone" when it has hung up.
Keeping == {"new", "greeted", "keyed", "playing", "left"}

Tasks == {"new", "reading", "auth", "connected", "playing", "ended"}

TypeOK ==
    /\ current \in BOOLEAN /\ compression \in BOOLEAN /\ logged_in \in BOOLEAN
    /\ task \in Tasks
    /\ login \in LoginStates \cup {None}
    /\ secret \in Secrets \cup {None}
    /\ profile \in Profiles \cup {None}
    /\ down \in Seq(DownPackets)
    /\ seen \in 0..Len(down)
    /\ up \in Seq(UpPackets)
    /\ client \in Keeping \cup {"stray", "gone"}
    /\ claim \in Hellos \cup {None}
    /\ cipher \in Secrets \cup {None}
    /\ joined \subseteq Profiles \X Secrets
    /\ answer \in Profiles \cup {None, Refused}

Init ==
    /\ current \in BOOLEAN /\ compression \in BOOLEAN
    /\ task = "new" /\ login = None
    /\ secret = None /\ profile = None /\ logged_in = FALSE
    /\ down = <<>> /\ seen = 0 /\ up = <<>>
    /\ client = "new" /\ claim = None /\ cipher = None
    /\ joined = {} /\ answer = None

\* The server writes: login_client with no cipher, MCConnection under its own.
Write(type, under) == down' = Append(down, [type |-> type, under |-> under])

\* A LoginDisconnect, and the error that ends the task.
Reject ==
    /\ Write("LoginDisconnect", None)
    /\ task' = "ended"

-----------------------------------------------------------------------------
(* login_client.                                                           *)

CheckVersion ==
    /\ task = "new"
    /\ IF current THEN task' = "reading" /\ UNCHANGED down ELSE Reject
    /\ UNCHANGED <<config, login, conn, up, player, answer>>

\* Read the next packet, which is not encrypted yet.
Take(Set) ==
    /\ task = "reading" /\ up # <<>>
    /\ Head(up) \in Set
    /\ up' = Tail(up)

\* The first Hello is answered by a challenge; a second one is an error.
ReadHello ==
    /\ Take(Hellos)
    /\ \/ /\ login = None
          /\ \E c \in Challenges :
                /\ login' = [challenge |-> c, name |-> Head(up).name, id |-> Head(up).id]
                /\ down' = Append(down, [type |-> "Hello", challenge |-> c, under |-> None])
          /\ UNCHANGED task
       \/ login # None /\ Reject /\ UNCHANGED login
    /\ UNCHANGED <<config, conn, player, answer>>

ReadKeyAnyway ==                                    \* faulty: goes on after the LoginDisconnect
    /\ Take(Keys)
    /\ LET key == Head(up) IN
       \/ login = None /\ Reject /\ UNCHANGED secret
       \/ /\ login # None /\ key.challenge \in Challenges \ {login.challenge}
          /\ key.secret # Garbled
          /\ Write("LoginDisconnect", None)
          /\ secret' = key.secret
          /\ task' = "auth"
       \/ /\ login # None /\ key.challenge = login.challenge /\ key.secret # Garbled
          /\ secret' = key.secret
          /\ task' = "auth"
          /\ UNCHANGED down
    /\ UNCHANGED <<config, login, profile, logged_in, player, answer>>

\* The Key packet, up to the call of the session server.  Bytes that do not
\* decrypt end the login without a packet, a wrong challenge with one.
ReadKey ==
    /\ Take(Keys)
    /\ LET key == Head(up) IN
       \/ login = None /\ Reject /\ UNCHANGED secret
       \/ /\ login # None /\ key.challenge \in Challenges \ {login.challenge}
          /\ Reject /\ UNCHANGED secret
       \/ /\ login # None
          /\ \/ key.challenge = Garbled
             \/ key.challenge = login.challenge /\ key.secret = Garbled
          /\ task' = "ended"
          /\ UNCHANGED <<down, secret>>
       \/ /\ login # None /\ key.challenge = login.challenge /\ key.secret # Garbled
          /\ secret' = key.secret
          /\ task' = "auth"
          /\ UNCHANGED down
    /\ UNCHANGED <<config, login, profile, logged_in, player, answer>>

ReadQuery ==
    /\ Take(Queries)
    /\ Reject
    /\ UNCHANGED <<config, login, conn, player, answer>>

\* A packet that does not decode, or is not encrypted as the server expects.
ReadError ==
    /\ up # <<>>
    /\ \/ task = "reading" /\ Head(up) \in PlayPackets
       \/ task = "playing" /\ Head(up).under # secret
    /\ task' = "ended"
    /\ UNCHANGED <<config, login, conn, down, up, player, answer>>

\* The end of the stream, or a failed write; the session server's answer is
\* waited for all the same.
SocketError ==
    /\ client \in {"left", "gone"}
    /\ task \in {"new", "reading", "connected", "playing"}
    /\ task' = "ended"
    /\ UNCHANGED <<config, login, conn, down, up, player, answer>>

\* Any other status than 200, a redirect that leads nowhere, a failed
\* request, or a body that is no profile.  (A redirect with a Location is
\* followed, for as long as they come: the task stays where it is.)
Unconfirmed ==
    /\ task = "auth"
    /\ task' = "ended"
    /\ answer' = Refused
    /\ UNCHANGED <<config, login, conn, down, up, player>>

MatchesNow(p) ==                                    \* faulty: whatever id the client claimed
    p.name = login.name

MatchesStrictly(p) ==                               \* faulty: an id that was not claimed
    p.name = login.name /\ login.id = p.id

\* What the login compares with the profile that the session server returns.
Matches(p) == p.name = login.name /\ login.id \in {None, p.id}

\* MCConnection::new, with a cipher of the secret for each direction.  It
\* panics when the secret is no key.
NewConnection(p) ==
    \/ secret \in GoodSecrets /\ task' = "connected" /\ profile' = p
    \/ secret \notin GoodSecrets /\ task' = "ended" /\ UNCHANGED profile

\* The profile of an account that has joined with the hash of this secret:
\* the one asked for, or one that the session server takes for it.
Confirmed(p) ==
    /\ task = "auth" /\ <<p, secret>> \in joined
    /\ answer' = p
    /\ \/ ~Matches(p) /\ Reject /\ UNCHANGED profile
       \/ Matches(p) /\ NewConnection(p) /\ UNCHANGED down
    /\ UNCHANGED <<config, login, secret, logged_in, up, player>>

-----------------------------------------------------------------------------
(* MCConnection: both directions have a cipher of their own, made of the   *)
(* shared secret.                                                          *)

CompletePlainly ==                                  \* faulty: the writer has no cipher
    /\ task = "connected" /\ ~compression
    /\ Write("LoginGameProfile", None)
    /\ logged_in' = TRUE /\ task' = "playing"
    /\ UNCHANGED <<config, login, secret, profile, up, player, answer>>

CompleteSilently ==                                 \* faulty: logged in before the profile is written
    /\ task = "connected" /\ ~compression
    /\ logged_in' = TRUE /\ task' = "playing"
    /\ UNCHANGED <<config, login, secret, profile, down, up, player, answer>>

\* complete_login, called by bootstrap_client.  For a player that is logged
\* in it is an error that changes nothing.
CompleteLogin ==
    /\ task = "connected" /\ ~compression /\ ~logged_in
    /\ Write("LoginGameProfile", secret)
    /\ logged_in' = TRUE /\ task' = "playing"
    /\ UNCHANGED <<config, login, secret, profile, up, player, answer>>

\* compress_and_complete_login: announces the threshold, and panics, as
\* write_compressed_packet is todo!().
CompressAndCompleteLogin ==
    /\ task = "connected" /\ compression /\ ~logged_in
    /\ Write("LoginCompression", secret)
    /\ task' = "ended"
    /\ UNCHANGED <<config, login, conn, up, player, answer>>

\* The play phase in short: module Session has the rest.
ReadPacket ==
    /\ task = "playing" /\ up # <<>> /\ Head(up).under = secret
    /\ up' = Tail(up)
    /\ UNCHANGED <<config, task, login, conn, down, player, answer>>

Plays == Len(SelectSeq(down, LAMBDA packet : packet.type = "Play"))

WritePlayPacket ==
    /\ task = "playing" /\ Plays < MaxPlay
    /\ Write("Play", secret)
    /\ UNCHANGED <<config, task, login, conn, up, player, answer>>

-----------------------------------------------------------------------------
(* The client.                                                             *)

Send(packet) == Len(up) < MaxUp /\ up' = Append(up, packet)

\* A client that keeps to the protocol logs in to an account of its own.
SendHello(p) ==
    /\ client = "new"
    /\ \E id \in {None, p.id} :
          LET hello == [type |-> "Hello", name |-> p.name, id |-> id, under |-> None]
          IN  Send(hello) /\ claim' = hello
    /\ client' = "greeted"
    /\ UNCHANGED <<config, task, login, conn, down, seen, cipher, joined, answer>>

\* The next packet that the client has not read, under its own cipher.
Incoming(type) ==
    /\ seen < Len(down)
    /\ down[seen + 1].type = type /\ down[seen + 1].under = cipher
    /\ seen' = seen + 1

\* The answer to a challenge: it joins with a new secret, sends it, and
\* encrypts and decrypts from then on.
SendKey(p, s) ==
    /\ client = "greeted" /\ Incoming("Hello")
    /\ p.name = claim.name /\ claim.id \in {None, p.id}
    /\ joined' = joined \cup {<<p, s>>}
    /\ Send([type |-> "Key", challenge |-> down[seen + 1].challenge,
             secret |-> s, under |-> None])
    /\ cipher' = s
    /\ client' = "keyed"
    /\ UNCHANGED <<config, task, login, conn, down, claim, answer>>

\* Any other packet that it can read.
Receive ==
    /\ client \in Keeping \ {"left"}
    /\ \/ Incoming("LoginDisconnect") /\ client' = "left"
       \/ Incoming("LoginGameProfile") /\ client' = "playing"
       \/ Incoming("LoginCompression") /\ UNCHANGED client
       \/ Incoming("Play") /\ UNCHANGED client
    /\ UNCHANGED <<config, task, login, conn, down, up, claim, cipher, joined, answer>>

\* A packet that it cannot read, or the end of the stream.
GiveUp ==
    /\ client \in Keeping \ {"left"}
    /\ IF seen < Len(down) THEN down[seen + 1].under # cipher ELSE task = "ended"
    /\ client' = "left"
    /\ UNCHANGED <<config, task, login, conn, down, up, seen, claim, cipher, joined, answer>>

SendPlayPacket ==
    /\ client = "playing"
    /\ Send([type |-> "Play", under |-> cipher])
    /\ UNCHANGED <<config, task, login, conn, down, player, answer>>

\* A client that leaves the protocol sends anything, in any order, and joins
\* with any secret.  It is not asked what it reads.
Stray ==
    /\ client' = "stray"
    /\ claim' = None /\ cipher' = None /\ seen' = 0
    /\ UNCHANGED <<config, task, login, conn, down, answer>>

SendStray(packet) ==
    /\ client \notin {"left", "gone"}
    /\ Send(packet)
    /\ Stray /\ UNCHANGED joined

JoinStray(p, s) ==
    /\ client = "stray" /\ Cardinality(joined) < MaxJoined
    /\ joined' = joined \cup {<<p, s>>}
    /\ Stray /\ UNCHANGED up

HangUp ==
    /\ client \notin {"left", "gone"}
    /\ client' = "gone"
    /\ UNCHANGED <<config, task, login, conn, down, up, seen, claim, cipher, joined, answer>>

-----------------------------------------------------------------------------
ServerStep ==
    \/ CheckVersion \/ ReadHello \/ ReadKey \/ ReadQuery \/ ReadError \/ SocketError
    \/ CompleteLogin \/ CompressAndCompleteLogin \/ ReadPacket

Answers == Unconfirmed \/ \E p \in Profiles : Confirmed(p)

Keeps ==
    \/ \E p \in Profiles : SendHello(p) \/ \E s \in GoodSecrets : SendKey(p, s)
    \/ Receive \/ GiveUp

Next ==
    \/ ServerStep \/ WritePlayPacket \/ Answers
    \/ Keeps \/ SendPlayPacket \/ HangUp
    \/ \E packet \in UpPackets : SendStray(packet)
    \/ \E p \in Profiles, s \in Secrets : JoinStray(p, s)

\* The task is polled, the session server answers in the end, and the client
\* goes on with what it began.
Fairness == WF_vars(ServerStep) /\ WF_vars(Answers) /\ WF_vars(Keeps)

Spec == Init /\ [][Next]_vars /\ Fairness

-----------------------------------------------------------------------------
(* Properties.                                                             *)

\* A connection is handed out only for an account that has joined with the
\* very secret the connection is encrypted with, and the account is the one
\* that the Hello of this login named.
Authenticated ==
    profile # None =>
        /\ <<profile, secret>> \in joined
        /\ profile.name = login.name /\ login.id \in {None, profile.id}
        /\ secret \in GoodSecrets

\* The session server's answer is not what the client claimed.
Mismatch ==
    /\ answer \in Profiles
    /\ answer.name # claim.name \/ claim.id \notin {None, answer.id}

\* The cipher that the server reads with.
ServerCipher == IF profile = None THEN None ELSE secret

\* A client that keeps to the protocol can read all it is sent, and is read
\* by the server, although both change to encryption in the middle of the
\* exchange.  The exception: what the session server says of the player is
\* known only after the client has changed, and a LoginDisconnect for that
\* is sent in the clear.
Readable ==
    client \in Keeping =>
        /\ \A i \in seen + 1 .. Len(down) :
              down[i].under = cipher \/ (Mismatch /\ down[i].type = "LoginDisconnect")
        /\ \A i \in DOMAIN up : up[i].under = ServerCipher

\* Whatever the client sends: nothing follows a LoginDisconnect, the game
\* profile is sent once, after a challenge and before all play packets, and
\* nothing but a connection's packets is encrypted.
Protocol ==
    \A i, j \in DOMAIN down :
        i < j => /\ down[i].type \notin {"LoginDisconnect", "LoginCompression"}
                 /\ down[j].type # "Hello"
                 /\ down[j].type = "LoginGameProfile" => i = 1
                 /\ down[j].type = "Play" => down[2].type = "LoginGameProfile"
                 /\ down[j].type # "LoginDisconnect" => down[j].under = secret

\* The login of a client that keeps to the protocol ends for no other reason
\* than that it speaks another version, the server announces a compression
\* it lacks, or the session server does not confirm the account: none of the
\* comparisons and errors in between is its end, nor is the change of cipher.
NeverTurnedAway ==
    client \in Keeping /\ task = "ended" =>
        ~current \/ compression \/ answer = Refused \/ Mismatch

\* A client that keeps to the protocol is logged in, unless the session
\* server says otherwise, or the server announces a compression it lacks.
LogsIn ==
    (client = "greeted" /\ current /\ ~compression)
        ~> \/ client \in {"playing", "stray", "gone"}
           \/ client = "left" /\ (answer = Refused \/ Mismatch)
=============================================================================
