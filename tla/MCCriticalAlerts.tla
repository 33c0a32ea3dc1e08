-------------------------- MODULE MCCriticalAlerts --------------------------
(***************************************************************************)
(* Two operators, one of them too small for the rules of active            *)
(* validators.  Intervals of 3 and 1 stand for 6 hours and 1 hour: what is *)
(* compared is only whether an interval is over.                           *)
(***************************************************************************)
EXTENDS CriticalAlerts, TLC

MCOngoing == ("a" :> 3) @@ ("b" :> 1)
MCReadings == [k \in Kinds |-> IF k = "proposes" THEN {<<0, 1>>, <<1, 3>>, <<1, 2>>}
                               ELSE {<<0, 1>>, <<1, 1>>, <<2, 1>>}]
ByActive == [minActive |-> 1, share |-> 50, count |-> 2]
Settings(v) == {<<>>} \cup {0 :> v} \cup {1 :> v} \cup {2 :> v}
MCConfigs == [affected : Settings(2), active : Settings(ByActive), minVal : {3}]
=============================================================================
