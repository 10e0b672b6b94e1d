------------------------------ MODULE MCVesselCache ------------------------------
(***************************************************************************)
(* A small instance of VesselCache.tla: two ships, two names and a decode    *)
(* artefact.  The file may hold two ships of one name, the two rows of one   *)
(* MMSI that the code describes (a ship and its artefact), and a row from    *)
(* before rows had an MMSI.                                                 *)
(***************************************************************************)
EXTENDS VesselCache

Row(m, n, c, km, at) == [mmsi |-> m, name |-> n, callsign |-> c, km |-> km, at |-> at]

TwoShips == {"m1", "m2"}

SmallObservation ==
    {Row("m1", "ALBATROS", "C1", NoFix, 1), Row("m1", "FORTUNA", Absent, 1, 1),
     Row("m1", Absent, "C2", 2, 2),
     Row("m2", "ALBATROS", Absent, 1, 2), Row("m2", Absent, "C2", 1, 1),
     Row("m2", "%JUNK", Absent, NoFix, 2)}

SmallFiles ==
    {<<>>,
     <<Row("m1", "ALBATROS", "C1", 2, 1), Row("m2", "ALBATROS", Absent, 2, 1)>>,
     <<Row("m1", "ALBATROS", "C1", 2, 1), Row("m1", "%JUNK", Absent, NoFix, 0)>>,
     <<Row(Absent, "ALBATROS", Absent, NoFix, 0)>>}
===============================================================================
