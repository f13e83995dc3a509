--------------------------- MODULE KeepAliveLoop ---------------------------
(***************************************************************************)
(* What a session promises about keep-alives, with the channels, the       *)
(* socket and the tasks left out: there is one ball.  The server throws it *)
(* with the number of the current round, the client throws it back, and    *)
(* only a ball that came back with the number of the round starts the next *)
(* round.  A lost ball stays lost.  Module Session implements this.        *)
(***************************************************************************)
EXTENDS Integers

CONSTANT SeqMod

VARIABLES
    round,   \* number of the current round
    ball     \* "out", "back" (right number), "wrong" (wrong number) or "gone"

TypeOK ==
    /\ round \in 0 .. SeqMod - 1
    /\ ball \in {"out", "back", "wrong", "gone"}

Init == round = 0 /\ ball = "out"

Answer == ball = "out" /\ ball' \in {"back", "wrong"} /\ UNCHANGED round

Renew == ball = "back" /\ ball' = "out" /\ round' = (round + 1) % SeqMod

Lose == ball # "gone" /\ ball' = "gone" /\ UNCHANGED round

Next == Answer \/ Renew \/ Lose

Spec == Init /\ [][Next]_<<round, ball>>
=============================================================================
