------------------------------- MODULE MCParts -------------------------------
(* Every part of the system that runs by itself, for TLC: the panel's and the  *)
(* AIS feeds' (MCFeeds), the identification of a window (MCIdentify), and the  *)
(* detector, of which 2 active frames of the last 3 open a segment (3 of 5 in  *)
(* the code) that is flushed at 6 frames, closed by 2 or 3 silent frames and   *)
(* rejected below 3 active ones.  The parts share no state, so a behaviour     *)
(* moves one and leaves the others as they started.                            *)
EXTENDS MCFeeds, MCIdentify, Vad

VARIABLE part     \* what this behaviour is about

SmallSilences == {2, 3}

partsVars == <<feedsVars, vars, vadVars, part>>

PartsInit ==
    /\ MCInit /\ IdentifyInit /\ VadInit
    /\ part \in {"feeds", "window", "detector"}
    /\ part # "feeds" => moving = "pages"

PartsNext ==
    \/ part = "feeds" /\ MCNext /\ UNCHANGED <<vars, vadVars, part>>
    \/ part = "window" /\ IdentifyNext /\ UNCHANGED <<feedsVars, vadVars, part>>
    \/ part = "detector" /\ VadNext /\ UNCHANGED <<feedsVars, vars, part>>

PartsSpec == PartsInit /\ [][PartsNext]_partsVars
=============================================================================
