---------------------------- MODULE MCConversations ----------------------------
(***************************************************************************)
(* Small instances of Conversations.tla.  The two channel values are the     *)
(* ones whisper-proxy.py journals, "160.650" and "160,650"; they are treated *)
(* alike everywhere, so the channels are interchangeable.                    *)
(***************************************************************************)
EXTENDS Conversations, TLC

CONSTANTS dot, comma

BothChannels == {dot, comma}
OneChannel   == {dot}

ChannelSymmetry == Permutations({dot, comma})
===============================================================================
