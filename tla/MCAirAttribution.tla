----------------------------- MODULE MCAirAttribution -----------------------------
(***************************************************************************)
(* A small instance of AirAttribution.tla: two aircraft, of which a pilot    *)
(* may name one, and one number to hear.  Polls come every two ticks, a      *)
(* transmission's window is five back and two on, and the ring reaches back  *)
(* that far only if stage 2 is prompt; a late pass reads the log.            *)
(***************************************************************************)
EXTENDS AirAttribution, TLC

Reports(s, g) == [sel |-> s, ground |-> g]

BothElsewhere == [h \in {"a1", "a2"} |-> Reports(Other, FALSE)]

SomeSkies ==
    {("a1" :> Reports(Other, FALSE)) @@ ("a2" :> Reports("n1", FALSE)),
     [h \in {"a1", "a2"} |-> Reports("n1", FALSE)],
     "a2" :> Reports("n1", TRUE)}

Say(c, numbers) == [callsign |-> c, numbers |-> numbers]

Utterances == ("x1" :> {Say(Nobody, {})}) @@
              ("x2" :> {Say("a1", {"n1"}), Say(Nobody, {"n1"})})

Targets == {Flight("a2")}
===============================================================================
