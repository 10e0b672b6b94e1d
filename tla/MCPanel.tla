-------------------------------- MODULE MCPanel --------------------------------
(***************************************************************************)
(* A small instance of Panel.tla: the proxy and the counter, two threads that *)
(* act on them, two that save.  The bounds are spent in four ways: three      *)
(* requests; two, with a save; two, with a stranger and a restart of the     *)
(* panel; one, with two saves at once and a restart of the panel.            *)
(***************************************************************************)
EXTENDS Panel, TLC

SomeNumbers  == [t \in {"9000", "9001", " 9001", "0", "10111", "70000"} |->
                    CASE t = "9000" -> 9000 [] t = "0" -> 0 [] t = "10111" -> 10111
                      [] t = "70000" -> 70000 [] OTHER -> 9001]
SomeStripped == [t \in {"  ", " 9001"} |-> IF t = "  " THEN "" ELSE "9001"]
SomeCorners  == [t \in {"sea", "inverted"} |->
                    IF t = "sea" THEN <<51, 52, 2, 4>> ELSE <<52, 51, 2, 4>>]

SomeStored ==
    {[ANTHROPIC_API_KEY |-> "k1", PROXY_PORT |-> "70000", WEBAPP_PORT |-> "8787"]}

Forms ==
    {[PROXY_PORT |-> " 9001", ANTHROPIC_API_KEY |-> "  "],
     [ANTHROPIC_API_KEY |-> CLEAR, PROXY_ENABLED |-> "off"],
     [AIS_BBOX |-> "inverted"], [AIS_SOURCE |-> "aishub", PROXY_PORT |-> "0"],
     [LOG_DIR |-> "logs2", AIS_STATION_NMEA_PORT |-> "9001"], [WEBAPP_BIND_HOST |-> "0.0.0.0", ANTHROPIC_API_KEY |-> MASK],
     [NO_SUCH |-> "x"]}

SpentBounds ==
    {[requests |-> 0, saves |-> 2, strangers |-> 1, panelRestarts |-> 1],
     [requests |-> 1, saves |-> 2, strangers |-> 0, panelRestarts |-> 0],
     [requests |-> 1, saves |-> 1, strangers |-> 1, panelRestarts |-> 1],
     [requests |-> 2, saves |-> 0, strangers |-> 1, panelRestarts |-> 0]}

PanelSymmetry == Permutations(Pid) \union Permutations(Req) \union Permutations(Saver)
=============================================================================
