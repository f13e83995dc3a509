---------------------------- MODULE MCProxyHeader ----------------------------
(* Small instance of module ProxyHeader for TLC.  The texts are such that no *)
(* two of them together, nor one of them and a byte, are an address or a     *)
(* port; and a word, which is many bytes, never stands where the parser      *)
(* skips single ones.                                                        *)
EXTENDS ProxyHeader

MCSocket == <<"10.0.0.1", "9">>
MCEndings == {<<>>, <<"CR", "LF", "handshake">>}
MCUnknownWords ==
    {<<>>, <<" ", "x">>, <<"LF">>, <<"CR">>, <<" ", "CR", "x", "LF", "x">>, <<"CR", "CR">>}

Bad == {"x", " ", "CR", "LF"}

\* One line of each family, with one element replaced: a word by another word
\* or a byte, a byte by another byte.
Words == {7, 9, 11, 13}
Replaced(line) ==
    {[line EXCEPT ![i] = word] :
        i \in Words, word \in V4 \cup V6 \cup Numbers \cup {"70000"} \cup Bad}
    \cup {[line EXCEPT ![i] = byte] :
        i \in 2..Len(line) \ Words, byte \in Bad \cup {"T", "U", "4", "6"}}

\* And with one lost, where no word comes to be skipped.
Lost(line) ==
    {SubSeq(line, 1, i - 1) \o SubSeq(line, i + 1, Len(line)) : i \in 7..Len(line)}

Lines ==
    {Line("4", "10.0.0.255", "10.0.1.255", "80", "80", "LF"),
     Line("6", "2001:db8::ffff", "2001:db8::ffff", "80", "80", "LF")}

\* Unknown sources with other bytes after the U, and too few of them.
Unnamed ==
    {<<"PROXY ", "U">> \o skipped \o <<"CR", "LF">> :
        skipped \in {<<"x", "x", "x", "x", "x", "x">>, <<"CR", "LF", "x", "x", "x", "CR">>,
                     <<"N", "K", "CR", "LF">>, <<>>}}

MCOthers ==
    (UNION {Replaced(line) \cup Lost(line) : line \in Lines} \ {known.header : known \in Known})
    \cup Unnamed
    \cup {<<"PROXY ", "x">>, <<"not v1", "x">>, <<"v2 first", "x">>}
    \cup {<<"v2 first", "v2 second", version>> : version \in {"2", "x"}}
=============================================================================
