----------------------------- MODULE FakeDelays -----------------------------
(***************************************************************************)
(* The fake provider's scenarios and the waits it draws from them, in      *)
(* milliseconds and per cent.  A random number in [0, 1) is a number of    *)
(* Steps-ths: the draws that matter are the lowest and the high ones.      *)
(***************************************************************************)
EXTENDS Integers

CONSTANT Steps    \* the grain of the random numbers, positive

VARIABLES
    scenario,   \* defaultScen
    drawn,      \* the wait drawn from the scenario's range
    wait        \* the same with jitter, which is waited

vars == <<scenario, drawn, wait>>

Rolls == 0..(Steps - 1)

Behavior(ttftMin, ttftMax, tpsMin, tpsMax, jitter) ==
    [ttftMin |-> ttftMin, ttftMax |-> ttftMax,
     tpsMin |-> tpsMin, tpsMax |-> tpsMax, jitter |-> jitter]

Scenarios ==
    [ fast    |-> Behavior( 50,  150, 50, 100,  5),
      slow    |-> Behavior(500, 2000,  5,  15, 20),
      erratic |-> Behavior(100, 1000,  5, 100, 50),
      default |-> Behavior(100,  500, 10,  50, 10) ]

RandomDuration(min, max, roll) ==
    IF min >= max THEN min ELSE min + ((max - min) * roll) \div Steps

(* The jitter is the wait in seconds, times the per cent, times a number    *)
(* in [-1, 1); and the wait is multiplied by one plus that.                 *)
ApplyJitter(d, percent, roll) ==
    LET clamped == IF percent > 100 THEN 100 ELSE percent
    IN  IF percent <= 0 THEN d
        ELSE d + (d * ((d * clamped * (2 * roll - Steps)) \div Steps))
                    \div (1000 * 100)

-----------------------------------------------------------------------------
Init == scenario = "default" /\ drawn = 0 /\ wait = 0

(* WithDefaultScenario or SetScenario, with a name that is listed.          *)
SetScenario ==
    /\ scenario' \in DOMAIN Scenarios \ {scenario}
    /\ UNCHANGED <<drawn, wait>>

WaitFor(d) ==
    /\ drawn' = d
    /\ \E roll \in Rolls :
         wait' = ApplyJitter(d, Scenarios[scenario].jitter, roll)
    /\ UNCHANGED scenario

DrawTTFT ==
    LET b == Scenarios[scenario]
    IN  \E roll \in Rolls :
          WaitFor(RandomDuration(b.ttftMin, b.ttftMax, roll))

DrawTokenDelay ==
    LET b == Scenarios[scenario]
    IN  \E roll \in Rolls :
          WaitFor((1000 * Steps)
                    \div (b.tpsMin * Steps + roll * (b.tpsMax - b.tpsMin)))

Next == SetScenario \/ DrawTTFT \/ DrawTokenDelay

Spec == Init /\ [][Next]_vars

-----------------------------------------------------------------------------
(* fake/provider.go:31: JitterPercent adds random variation to delays, 0.1  *)
(* means plus or minus ten per cent of the delay (here up to a millisecond, *)
(* for rounding).                                                           *)
JitterWithinPercent ==
    [][scenario' = scenario =>
       LET bound == drawn' * Scenarios[scenario].jitter + 100
       IN  100 * (wait' - drawn') \in -bound..bound]_vars
=============================================================================
