------------------------------ MODULE MCClient ------------------------------
(***************************************************************************)
(* The two programs that follow a transfer: the client, in the two         *)
(* directions between a collateral chain and the hub, where the asset is   *)
(* synthetic; and the indexer, whose two passes overlap and have a         *)
(* transfer in front that is never mined and whose chain may never answer. *)
(* They share no state: a behaviour is one of either, while the other      *)
(* stays as it is.                                                         *)
(***************************************************************************)
EXTENDS Client, Indexer

CONSTANTS ethereum, ark, t1, t2

VARIABLE part

followersVars == <<part, clientVars, indexerVars>>

BothWays == {[source |-> ethereum, destination |-> ark], [source |-> ark, destination |-> ethereum]}

InLine == <<t1, t2>>

FollowersInit ==
    /\ part \in {"client", "indexer"}
    /\ ClientInit /\ IndexerInit
    /\ part = "indexer" => selected.source = ethereum /\ network = ethereum

ClientMoves == part = "client" /\ ClientNext /\ UNCHANGED <<part, indexerVars>>

IndexerMoves == part = "indexer" /\ IndexerNext /\ UNCHANGED <<part, clientVars>>

FollowersNext == ClientMoves \/ IndexerMoves

\* Passes are started and go on; a reachable transfer is again and again
\* observed by nodes that have caught up.  The chains owe nothing.
IndexerFairness ==
    /\ \A p \in Passes : /\ WF_indexerVars(part = "indexer" /\ StartPass(p))
                         /\ WF_indexerVars(part = "indexer" /\ PassStep(p))
    /\ \A t \in Reachable :
           SF_indexerVars(part = "indexer" /\ \E p \in Passes : TrackFully(p, t))

FollowersSpec ==
    /\ FollowersInit /\ [][FollowersNext]_followersVars
    /\ ClientFairness /\ IndexerFairness
=============================================================================
