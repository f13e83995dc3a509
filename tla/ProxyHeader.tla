----------------------------- MODULE ProxyHeader -----------------------------
(***************************************************************************)
(* What a server behind a proxy does with a new connection before the      *)
(* handshake: parse_proxy_protocol (src/proxy_protocol.rs), and the        *)
(* address that the server takes from it (src/server.rs).                  *)
(*                                                                         *)
(* The bytes come one after another and may stop at any time.  Nothing but *)
(* the header may be read: what follows it is the client's handshake.      *)
(* Each of the two blocks of six bytes that tell the version is one        *)
(* element here, and so is each word of an address or a port.              *)
(* Anything may be sent: the parser does not look at every byte, nor does  *)
(* u16's parse take only what the protocol writes for a port.              *)
(***************************************************************************)
EXTENDS Naturals, Sequences

CONSTANTS
    Socket,        \* the address of the proxy, who has opened the connection
    V4, V6,        \* texts that are addresses, of either family
    Ports,         \* texts that the protocol has for a port, "0" among them
    Numbers,       \* texts that u16's parse takes: "+80" and "080", too
    ZeroFirst,     \* texts that begin with a 0
    UnknownWords,  \* bound: what a line of an unknown source may say
    Others,        \* bound: what else may be sent, whatever it is
    Endings        \* bound: what may follow the header

\* No line ends among these.
NoEndWithin(words) ==
    /\ words \in Seq(STRING)
    /\ \A k \in 2..Len(words) : ~ (words[k - 1] = "CR" /\ words[k] = "LF")

ASSUME HeaderAssumption ==
    /\ Socket # <<>>
    /\ Ports \subseteq Numbers
    /\ {" ", "CR"} \cap (V4 \cup V6 \cup Numbers) = {}
    /\ \A words \in UnknownWords : NoEndWithin(words)
    /\ Endings \subseteq Seq(STRING)

VARIABLES
    input,         \* what the proxy sends: the header, its source, and the rest
    arrived,       \* how many bytes have arrived
    ended,         \* no more will
    consumed,      \* how many bytes were read
    at,            \* what is read next
    skip,          \* bytes to be skipped before that
    family,        \* "4" or "6"
    cr,            \* the last byte was a CR
    reader,        \* the field that is read
    fields,        \* those that were
    addr           \* the address that the server goes on with

parser == <<skip, family, cr, reader, fields, addr>>
headerVars == <<input, arrived, ended, consumed, at, parser>>

Bytes == input.header \o input.rest

-----------------------------------------------------------------------------
(* What is sent: the headers that the protocol describes, and others.      *)

Line(fam, src, dst, sp, dp, exit) ==
    <<"PROXY ", "T", "C", "P", fam, " ", src, " ", dst, " ", sp, " ", dp, "CR", exit>>

Addresses(fam) == IF fam = "4" THEN V4 ELSE V6

\* A line as the protocol describes it, and its source; the address of the
\* socket stands for an unknown one.
KnownOf(fam) ==
    {[header |-> Line(fam, src, dst, sp, dp, "LF"), source |-> <<src, sp>>] :
        src \in Addresses(fam), dst \in Addresses(fam), sp \in Ports, dp \in Ports}

Known == KnownOf("4") \cup KnownOf("6")

Unknown ==
    {[header |-> <<"PROXY ", "U", "N", "K", "N", "O", "W", "N">> \o words \o <<"CR", "LF">>,
      source |-> Socket] : words \in UnknownWords}

\* Lines that it does not describe, the second version, and anything else;
\* <<>> stands for no source.
Foreign == {[header |-> other, source |-> <<>>] : other \in Others}

HeaderInit ==
    /\ \E sent \in Known \cup Unknown \cup Foreign, rest \in Endings :
          input = [header |-> sent.header, source |-> sent.source, rest |-> rest]
    /\ arrived = 0 /\ ended = FALSE /\ consumed = 0
    /\ at = "magic" /\ skip = 0 /\ family = "" /\ cr = FALSE
    /\ reader = <<>> /\ fields = <<>> /\ addr = <<>>

Arrive ==
    /\ ~ended /\ arrived < Len(Bytes)
    /\ arrived' = arrived + 1
    /\ UNCHANGED <<input, ended, consumed, at, parser>>

End ==
    /\ ~ended
    /\ ended' = TRUE
    /\ UNCHANGED <<input, arrived, consumed, at, parser>>

-----------------------------------------------------------------------------
(* The parser.                                                             *)

Over == {"accepted", "error", "panic"}

Byte == Bytes[consumed + 1]

Consume ==
    /\ consumed < arrived
    /\ consumed' = consumed + 1
    /\ UNCHANGED <<input, arrived, ended>>

\* skip!.
Skip ==
    /\ at \notin Over /\ skip > 0
    /\ Consume
    /\ skip' = skip - 1
    /\ UNCHANGED <<at, family, cr, reader, fields, addr>>

Reads(what) == at = what /\ skip = 0 /\ Consume

\* parse_proxy_protocol.
ReadMagic ==
    /\ \/ Reads("magic") /\ at' = (IF Byte = "PROXY " THEN "family" ELSE "second")
       \/ /\ Reads("second")
          /\ at' = IF Bytes[1] = "v2 first" /\ Byte = "v2 second" THEN "v2" ELSE "error"
    /\ UNCHANGED parser

\* parse_v2_protocol, which is not there yet (todo!).
ReadVersion2 ==
    /\ Reads("v2")
    /\ at' = IF Byte = "2" THEN "panic" ELSE "error"
    /\ UNCHANGED parser

\* parse_v1_protocol: TCP4 and TCP6 by their first and last letter.
ReadFamily ==
    /\ \/ /\ Reads("family")
          /\ at' = CASE Byte = "T" -> "version" [] Byte = "U" -> "unknown" [] OTHER -> "error"
          /\ skip' = CASE Byte = "T" -> 2 [] Byte = "U" -> 6 [] OTHER -> 0
          /\ UNCHANGED family
       \/ /\ Reads("version")
          /\ IF Byte \in {"4", "6"}
             THEN at' = "field" /\ family' = Byte /\ skip' = 1
             ELSE at' = "error" /\ UNCHANGED <<family, skip>>
    /\ UNCHANGED <<cr, reader, fields, addr>>

\* What the server makes of a header that was parsed.
AcceptFrom(source) == at' = "accepted" /\ addr' = source

AfterOneCR == Byte = "CR" /\ ~ cr                   \* faulty: the second of two CRs counts as none
SeesCR == cr \/ Byte = "CR"                         \* faulty: once a CR, always

\* The flag that an LF ends the line with.
AfterCR == Byte = "CR"

ReadUnknown ==
    /\ Reads("unknown")
    /\ IF cr /\ Byte = "LF"
       THEN AcceptFrom(Socket) /\ UNCHANGED cr
       ELSE cr' = AfterCR /\ UNCHANGED <<at, addr>>
    /\ UNCHANGED <<skip, family, reader, fields>>

\* Whether the fields read so far are what they should be: both addresses
\* are parsed before the ports are read, and both ports after that.
Is(text, Texts) == Len(text) = 1 /\ text[1] \in Texts

TakenPorts == Numbers \ ZeroFirst

ParseAsV4(read) ==                                  \* faulty: every address is parsed as IPv4
    CASE Len(read) = 2 -> \A i \in 1..2 : Is(read[i], V4)
      [] Len(read) = 4 -> \A i \in 3..4 : Is(read[i], TakenPorts)
      [] OTHER -> TRUE

Parse(read) ==
    CASE Len(read) = 2 -> \A i \in 1..2 : Is(read[i], Addresses(family))
      [] Len(read) = 4 -> \A i \in 3..4 : Is(read[i], TakenPorts)
      [] OTHER -> TRUE

\* read_to, for the four fields.
ReadField ==
    /\ Reads("field")
    /\ IF Byte = (IF Len(fields) = 3 THEN "CR" ELSE " ")
       THEN /\ fields' = Append(fields, reader)
            /\ reader' = <<>>
            /\ at' = CASE ~Parse(fields') -> "error"
                       [] Parse(fields') /\ Len(fields') = 4 -> "exit"
                       [] OTHER -> "field"
       ELSE reader' = Append(reader, Byte) /\ UNCHANGED <<at, fields>>
    /\ UNCHANGED <<skip, family, cr, addr>>

ReadExit ==
    /\ Reads("exit")
    /\ IF Byte = "LF"
       THEN AcceptFrom(<<fields[1][1], fields[3][1]>>)
       ELSE at' = "error" /\ UNCHANGED addr
    /\ UNCHANGED <<skip, family, cr, reader, fields>>

\* The end of the stream within the header.
UnexpectedEnd ==
    /\ at \notin Over /\ ended /\ consumed = arrived
    /\ at' = "error"
    /\ UNCHANGED <<input, arrived, ended, consumed, parser>>

Parser ==
    \/ Skip \/ ReadMagic \/ ReadVersion2 \/ ReadFamily \/ ReadUnknown
    \/ ReadField \/ ReadExit \/ UnexpectedEnd

HeaderNext == Arrive \/ End \/ Parser

\* The connection's task is polled when bytes have arrived.
HeaderSpec == HeaderInit /\ [][HeaderNext]_headerVars /\ WF_headerVars(Parser)

-----------------------------------------------------------------------------
(* Properties.                                                             *)

\* A line with addresses, as far as the parser looks: it skips the two bytes
\* after the T and the one before the source, whatever they are.
TcpLine ==
    /\ Bytes[1] = "PROXY " /\ Bytes[2] = "T" /\ Bytes[5] \in {"4", "6"}
    /\ Bytes[7] \in Addresses(Bytes[5]) /\ Bytes[9] \in Addresses(Bytes[5])
    /\ Bytes[11] \in TakenPorts /\ Bytes[13] \in TakenPorts
    /\ Bytes[8] = " " /\ Bytes[10] = " " /\ Bytes[12] = " "
    /\ Bytes[14] = "CR" /\ Bytes[15] = "LF"

\* A line without addresses that ends, for the first time, at the n-th byte:
\* the six bytes after the U may be any, even the end of a line.
UnknownLine(n) ==
    /\ Bytes[1] = "PROXY " /\ Bytes[2] = "U"
    /\ n >= 10 /\ Bytes[n - 1] = "CR" /\ Bytes[n] = "LF"
    /\ \A i \in 10..n - 1 : ~ (Bytes[i - 1] = "CR" /\ Bytes[i] = "LF")

\* Whatever is sent, it is accepted only as a whole line that is right wherever
\* the parser looks, with its source, and no byte behind it was read: one that
\* the protocol describes is never taken for another, shorter or longer.  (The
\* bytes that are skipped, and a port with a plus sign, are not refused.)
OnlyTheHeader ==
    at = "accepted" =>
        /\ \/ TcpLine /\ consumed = 15 /\ addr = <<Bytes[7], Bytes[11]>>
           \/ UnknownLine(consumed) /\ addr = Socket
        /\ input.source # <<>> => addr = input.source /\ consumed = Len(input.header)

\* One of the ports is 0, which the protocol has and the code refuses.
ZeroPort ==
    input.header[2] = "T" /\ {input.header[11], input.header[13]} \cap ZeroFirst # {}

\* A header that version 1 of the protocol describes, but for a port 0, is
\* refused only when the stream ends within it, whatever its family and its
\* texts are and however it is cut into pieces.
NoneRefused ==
    input.source # <<>> /\ ~ ZeroPort /\ at \in {"error", "panic"} =>
        ended /\ arrived < Len(input.header)

\* Such a header is accepted as soon as it has come, whatever comes after it
\* or does not.
EveryHeader ==
    (input.source # <<>> /\ ~ ZeroPort /\ arrived >= Len(input.header)) ~> (at = "accepted")
=============================================================================
