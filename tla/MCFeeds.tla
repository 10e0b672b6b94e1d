------------------------------- MODULE MCFeeds -------------------------------
(* The feeds and what is said of them, for MCParts: the panel's logins and its *)
(* views (PanelFeeds), aisstream's coroutines (AisStream), the station        *)
(* counter (StationCounter), the aircraft an airband transmission names       *)
(* (FlightIdentify) and the operator's verdicts (Labels).  The parts share no *)
(* state, so a behaviour moves one and leaves the others as they started.     *)
EXTENDS PanelFeeds, AisStream, StationCounter, FlightIdentify, Labels

CONSTANTS ShortClock, \* bound: the clock where sessions and readers interleave
          LoginClock, \* bound: the clock where logins interleave
          MaxMade,    \* bound: objects of attempts made there
          MaxSignIns  \* bound: logins that succeed there

VARIABLE moving     \* the part this behaviour is about

First(mmsi)  == [known |-> TRUE, fragment |-> 1, mmsi |-> mmsi]
Second(mmsi) == [known |-> TRUE, fragment |-> 2, mmsi |-> mmsi]
Foreign(mmsi) == [known |-> FALSE, fragment |-> 1, mmsi |-> mmsi]

MCStream == {<<First(1), Second(1)>>, <<Foreign(2), First(2)>>, <<First(1)>>}

Ship(sector, km)  == [sector |-> sector, km |-> km, kind |-> "ship"]
Base(sector, km)  == [sector |-> sector, km |-> km, kind |-> "base"]
MCPage == {{Ship(225, 30), Ship(0, 90)}, {Base(225, 40), Ship(0, 20)},
           {Ship(225, 10), Ship(225, 20)}}

(* One connection sends two sentences, the other one.                          *)
Other == CHOOSE c \in Conn : TRUE

(* KLM with a second spelling, Delta, which is also a spelled letter, and two  *)
(* words for JetBlue; words that are digits, a ten, a pressure and an altitude. *)
KLM == <<"K", "L", "M">>
MCTelephony == [w \in {"klm", "kalm"} |-> KLM] @@ ("delta" :> <<"D", "A", "L">>)
               @@ ("speedbird" :> <<"B", "A", "W">>) @@ ("jetblue" :> <<"J", "B", "U">>)
MCResembles == "spedbird" :> "speedbird"
MCPhrases   == <<<<"jet", "blue", "jetblue">>>>
MCGlued     == "klm28" :> <<"klm", "28">>
MCSpokenChars == ("two" :> <<"2">>) @@ ("eight" :> <<"8">>) @@ ("november" :> <<"N">>)
                 @@ ("delta" :> <<"D">>)
MCTens      == "twenty" :> <<"2">>
MCNumeral   == ("28" :> <<"2", "8">>) @@ ("1013" :> <<"1", "0", "1", "3">>)
MCPressure  == {<<"1", "0", "1", "3">>}
MCTransmission ==
    {opening \o number \o ending :
        opening \in {<<>>, <<"klm">>, <<"jet", "blue">>, <<"delta">>, <<"spedbird">>,
                     <<"klm28">>, <<"qnh">>},
        number  \in UNION {[1..n -> {"two", "eight", "november", "for", "twenty", "28", "1013"}] :
                             n \in 0..2},
        ending  \in {<<>>, <<"eight", "thousand">>, <<"qnh", "28">>}}
MCTraffic ==
    {("h1" :> (KLM \o <<"2", "8">>)) @@ ("h2" :> <<"B", "A", "W", "2", "8">>),
     ("h1" :> (KLM \o <<"2">>)) @@ ("h2" :> (KLM \o <<"2", "4">>)),
     ("h1" :> (KLM \o <<"2", "8">>)) @@ ("h2" :> (KLM \o <<"2", "8">>)),
     ("h1" :> <<"J", "B", "U", "2">>) @@ ("h2" :> (KLM \o <<"1", "0", "1", "3">>))
        @@ ("h3" :> <<"D", "A", "L", "2", "8">>)}

(* A conversation, one of the same second on another channel, known with two    *)
(* ends and once with none, and one over midnight; a verdict on a ship by       *)
(* number, by a name two ships have, by a name typed over two lines, and by a   *)
(* typing error.                                                                *)
TalkA      == [id |-> "a", start |-> "s1", end |-> "e1", channel |-> "main",
               mmsi |-> "2440", turns |-> {10, 12}]
TalkB(end) == [id |-> "b", start |-> "s1", end |-> end, channel |-> "other",
               mmsi |-> "2441", turns |-> {10, 11}]
TalkC      == [id |-> "c", start |-> "s2", end |-> "e3", channel |-> "main",
               mmsi |-> "-", turns |-> {18, 21}]
MCTimeOf   == [s1 |-> 10, e1 |-> 12, e2 |-> 11, s2 |-> 18, e3 |-> 21]
MCRec  == {TalkA, TalkB("e2"), TalkB(""), TalkC}
MCFile == {<<TalkA>>, <<TalkB("e2"), TalkB("")>>}
MCDay  == {{"s1", "s2"}, {}}
MCTruth == {<<>>, <<"-">>, <<"2440">>, <<"sp", "orion", "nl">>, <<"pechora", "nl", "star">>,
            <<"2440", "tab", "2441">>, <<"typo">>}
MCNote == {<<>>, <<"first", "nl", "second">>, <<"x", "sep", "y">>}
MCMmsisOf == [v \in {<<"orion">>} |-> {"2440", "2441"}]
             @@ (<<"pechora", "sp", "star">> :> {"2441"})

feedsVars == <<loginVars, feedVars, streamVars, counterVars, flightVars, labelVars, moving>>

MCInit ==
    /\ LoginInit /\ FeedsInit /\ StreamInit /\ CounterInit /\ FlightInit /\ LabelInit
    /\ moving \in {"logins", "sessions", "view", "aishub", "heartbeats", "aisstream", "sentences", "pages",
                   "airband", "verdicts"}
    /\ moving # "heartbeats" => ~counterUp
    /\ moving # "sessions" => passwordSet
    /\ moving # "airband" => range = CHOOSE r \in Traffic : TRUE
    /\ moving # "sentences" => \A c \in Conn : stream[c] = <<First(1)>>
    /\ moving = "sentences" => \A c \in Conn : Len(stream[c]) = IF c = Other THEN 1 ELSE 2

(* One session is enough to look at the views.                                 *)
SignIn == given = <<>> /\ \E g \in Guesser : Check(g) \/ Succeeds(g)

PanelMoves ==
    \/ /\ moving = "logins"
       /\ \/ \E g \in Guesser : \/ Check(g) \/ Weigh(g) \/ WrongPassword(g) \/ FindRecord(g)
                               \/ Fails(g) \/ Succeeds(g)
          \/ LoginForgets \/ LoginTick
       /\ clock' <= LoginClock /\ Len(made') <= MaxMade
       /\ Cardinality(DOMAIN given') <= MaxSignIns
       /\ UNCHANGED feedVars
    \/ /\ moving = "sessions"
       /\ \/ \E g \in Guesser : Check(g) \/ Succeeds(g)
          \/ \E t \in Token : Get(t) \/ Logout(t)
          \/ SetPassword \/ LoginForgets \/ LoginTick
       /\ UNCHANGED feedVars
    \/ /\ moving = "view"
       /\ \/ SignIn /\ UNCHANGED feedVars
          \/ \E r \in Reader : \/ \E t \in DOMAIN sessions : AskPage(r, t)
                               \/ Acquire(r) \/ FetchArrives(r) \/ FetchFails(r)
          \/ ProxyRestarts \/ FeedsTick
    \/ /\ moving = "aishub"
       /\ PollDelivers \/ PollGetsNothing \/ PollerWedges \/ ProxyRestarts \/ FeedsTick
    \/ /\ moving = "heartbeats"
       /\ Beat \/ BeatFlushed \/ CounterStartsOrStops \/ FeedsTick

CounterMoves ==
    \/ /\ moving = "sentences"
       /\ \/ \E c \in Conn : Connect(c) \/ Receive(c) \/ Disconnect(c)
          \/ HeartbeatTakesHour \/ CountHour \/ RollDay \/ RollWeek \/ Prune \/ HourTurns
    \/ moving = "pages" /\ (HourTurns \/ \E page \in Page : Poll(page))

MCNext ==
    \/ /\ PanelMoves /\ (moving \in {"view", "sessions"} => clock' <= ShortClock)
       /\ UNCHANGED <<streamVars, counterVars, flightVars, labelVars, moving>>
    \/ /\ moving = "aisstream" /\ StreamNext
       /\ UNCHANGED <<loginVars, feedVars, counterVars, flightVars, labelVars, moving>>
    \/ /\ CounterMoves
       /\ UNCHANGED <<loginVars, feedVars, streamVars, flightVars, labelVars, moving>>
    \/ /\ moving = "airband" /\ FlightNext
       /\ UNCHANGED <<loginVars, feedVars, streamVars, counterVars, labelVars, moving>>
    \/ /\ moving = "verdicts" /\ LabelNext
       /\ UNCHANGED <<loginVars, feedVars, streamVars, counterVars, flightVars, moving>>
=============================================================================
