------------------------------ MODULE MCControlLoop ------------------------------
(* Two cranes whose jibs sweep one another; "a" has the trolley, the zone and   *)
(* the task.  A turn has eight steps, rounded to a square.  The gear tables are   *)
(* to the shares of the safety checks as they are in the code: the slew's is well *)
(* above the model's speed, those of trolley and hoist are half of the share.     *)
EXTENDS ControlLoop
MCSpeed == [x \in Axes |-> IF x = "slew" THEN 2 ELSE 4]
MCAcc   == [x \in Axes |-> IF x = "slew" THEN 1 ELSE 2]
MCGears == [x \in Axes |-> IF x = "slew" THEN <<0, 4, 8>> ELSE <<0, 1, 2>>]
MCGearSpeed == [x \in Axes |-> [g \in 0..2 |-> MCGears[x][g + 1]]]
MCLow   == [c \in Cranes |-> [x \in Linear |-> IF x = "trolley" THEN 1 ELSE 0]]
MCHigh  == [c \in Cranes |-> [x \in Linear |-> IF x = "trolley" THEN 5 ELSE 6]]
MCBase  == [c \in Cranes |-> IF c = "a" THEN <<0, 0>> ELSE <<6, 1>>]
MCRoot  == [c \in Cranes |-> 7]
MCCosines == <<1, 1, 0, -1, -1, -1, 0, 1>>
MCSines   == <<0, 1, 1, 1, 0, -1, -1, -1>>
MCCos == [i \in 0..7 |-> MCCosines[i + 1]]
MCSin == [i \in 0..7 |-> MCSines[i + 1]]
MCBound == [l \in {"collision", "near_miss", "high", "medium", "low"} |->
              CASE l = "collision" -> 1 [] l = "near_miss" -> 4 [] l = "high" -> 5
                [] l = "medium" -> 8 [] OTHER -> 9]
MCWindBound == [w \in {"calm", "strong"} |-> IF w = "calm" THEN 2 ELSE 8]
MCZones == {[low |-> <<-1, 2, 0>>, high |-> <<1, 3, 7>>]}
MCWeight == [c \in Cranes |-> 3]
MCPickup  == [angle |-> 6, r |-> 3, z |-> 1]
MCDropoff == [angle |-> 4, r |-> 2, z |-> 4]
MCSlow == [x \in Axes |-> 1]
MCPrecision == [v \in {"good", "medium", "poor"} |->
                  CASE v = "good" -> 1 [] v = "medium" -> 4 [] OTHER -> 10]
MCGood(wind) == [wind |-> wind, visibility |-> "good"]
MCModes == [k \in {"solo", "pair", "guided"} |-> IF k = "pair" THEN {"S2", "S3"} ELSE {"S1"}]
MCWeathers == [k \in {"solo", "pair", "guided"} |->
                 CASE k = "solo" -> {MCGood("calm")}
                   [] k = "pair" -> {MCGood("calm"), MCGood("strong")}
                   [] k = "guided" -> {[wind |-> "calm", visibility |-> v] : v \in {"good", "medium"}}]
MCStart == [c \in Cranes |-> IF c = "a" THEN 0 ELSE 2]
Go(x, d, g) == [NeutralLevers EXCEPT ![x] = [dir |-> d, gear |-> g, slow |-> 1]]
Free(levers) == Command(levers, TRUE, FALSE, {})
MCAlone == {NeutralStop, Free(Go("slew", 1, 1)), Free(Go("slew", -1, 2)),
            Free(Go("trolley", 1, 2)), Free(Go("trolley", -1, 1)),
            Free([Go("slew", 1, 2) EXCEPT !["trolley"] = Go("trolley", 1, 1)["trolley"]]),
            Command(Go("slew", 1, 1), FALSE, FALSE, {}), Command(Go("slew", 1, 1), TRUE, TRUE, {})}
MCSlews == [c \in Cranes |-> IF c = "a" THEN {NeutralStop, Free(Go("slew", 1, 2))}
                              ELSE {NeutralStop, Free(Go("slew", -1, 2))}]
MCCommandSets ==
    [k \in {"solo", "pair", "guided"} |->
       IF k = "solo" THEN {[c \in Cranes |-> IF c = "a" THEN o ELSE NeutralStop] : o \in MCAlone}
       ELSE {b \in [Cranes -> MCSlews["a"] \cup MCSlews["b"]] : \A c \in Cranes : b[c] \in MCSlews[c]}]
MCDurations == {[c \in Cranes |-> 2], [c \in Cranes |-> IF c = "a" THEN 1 ELSE 2]}
================================================================================
