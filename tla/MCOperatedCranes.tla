---------------------------- MODULE MCOperatedCranes ----------------------------
(* The two halves of a frame in one run: the operators who decide, and the        *)
(* control side that carries the commands out.  They share no variable            *)
(* (FrameLoop has the order of the two in a frame), so no interleaving of them    *)
(* shows more than each half shows while the other rests: a behaviour is one      *)
(* half's, beside operators not yet asked or cranes not yet moved.                *)
EXTENDS MCOperatorDecision, MCControlLoop

OperatorsRest == Init /\ provider = "mock"

CranesRest ==
    /\ driver = "solo" /\ safety = "S1" /\ stage = "idle" /\ status = "running"
    /\ states = [c \in Cranes |-> Started(c, StartAngle[c])]
    /\ orders = [c \in Cranes |-> NeutralStop] /\ left = [c \in Cranes |-> 0]
    /\ age = 0 /\ level = [c \in Cranes |-> "safe"]
    /\ weather = MCGood("calm") /\ riskWeather = weather

OperatedInit == \/ Init /\ CranesRest
                \/ OperatorsRest /\ ControlInit

OperatedNext == \/ CranesRest /\ Next /\ UNCHANGED controlVars
                \/ OperatorsRest /\ ControlNext /\ UNCHANGED vars

OperatedSpec == /\ OperatedInit /\ [][OperatedNext]_<<vars, controlVars>>
                /\ Fairness /\ ControlFairness

================================================================================
