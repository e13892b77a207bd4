----------------------------- MODULE MCEventPaths -----------------------------
(* Two trigger paths that share module ma, a third whose module consumes   *)
(* it, and an end path whose module consumes the TriggerResults.           *)
EXTENDS EventPaths, TLC

CONSTANTS mf, ma, mb, mc, mo, p1, p2, p3, e1

MCModules     == {mf, ma, mb, mc, mo}
MCTrigPaths   == {p1, p2, p3}
MCEndPaths    == {e1}
MCLaunchOrder == <<e1, p3, p2, p1>>
MCModule      == (p1 :> <<mf, ma>> @@ p2 :> <<mc, mf, ma>> @@ p3 :> <<mb>> @@ e1 :> <<mo>>)
MCConcurrent  == {<<p2, 1>>, <<p1, 2>>, <<p2, 3>>, <<p3, 1>>, <<e1, 1>>}
MCVetoes      == {<<p2, 2>>}
MCIgnores     == {}
MCFilters     == {mf}
MCNeeds       == (mf :> {} @@ ma :> {} @@ mb :> {ma} @@ mc :> {} @@ mo :> {Results, p1})
MCThrows      == (mf :> {"own"} @@ ma :> {"own", "continue"} @@ mb :> {"own"} @@
                  mc :> {"own", "continue"} @@ mo :> {"own"})
=============================================================================
