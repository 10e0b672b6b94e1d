-------------------------------- MODULE Ledger --------------------------------
(***************************************************************************)
(* What the proxy promises about the maritime transmissions it journals,   *)
(* with none of how: a transmission heard is held until it is either filed  *)
(* in exactly one conversation or lost for good.  The journal, the          *)
(* windows, the resolver and the stores of Conversations.tla implement it.  *)
(***************************************************************************)
EXTENDS Naturals

VARIABLES heard,  \* how many transmissions have been recorded: they are 1..heard
          held,   \* recorded, not yet filed
          filed,  \* the conversations, each the set of transmissions it is made of
          lost    \* recorded, and in no conversation ever

vars == <<heard, held, filed, lost>>

(* The conversations C share out the transmissions S among themselves.      *)
SharesOut(C, S) ==
    /\ UNION C = S
    /\ {} \notin C
    /\ \A a, b \in C : a # b => a \intersect b = {}

Init == heard = 0 /\ held = {} /\ filed = {} /\ lost = {}

Hear ==
    /\ heard' = heard + 1
    /\ held' = held \union {heard'}
    /\ UNCHANGED <<filed, lost>>

File ==
    \E S \in SUBSET held : \E C \in SUBSET SUBSET S :
        /\ SharesOut(C, S)
        /\ filed' = filed \union C
        /\ held' = held \ S
        /\ UNCHANGED <<heard, lost>>

Lose ==
    \E S \in SUBSET held :
        /\ lost' = lost \union S
        /\ held' = held \ S
        /\ UNCHANGED <<heard, filed>>

Next == Hear \/ File \/ Lose

Spec == Init /\ [][Next]_vars
===============================================================================
