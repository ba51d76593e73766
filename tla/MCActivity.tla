----------------------------- MODULE MCActivity -----------------------------
(* Two accounts, two transfers to one of two chains, room for one record    *)
(* each, and errors that mention up to two things.                         *)
EXTENDS Activity

CONSTANTS here, there

ToHere == [t \in Transfers |-> here]

Mentions == {Clues[i].mentions : i \in DOMAIN Clues}

UpToTwo == {thrown \in SUBSET Mentions : Cardinality(thrown) <= 2}
=============================================================================
