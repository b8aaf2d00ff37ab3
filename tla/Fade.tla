-------------------------------- MODULE Fade --------------------------------
(***************************************************************************)
(* The colour wheel of led_fade and of coreplexip_welcome: three unsigned  *)
(* counters pass their value on from red to green to blue, in three ifs of *)
(* which each sees what the one before has done.                           *)
(***************************************************************************)
EXTENDS Integers

CONSTANTS
    Full,        \* 0xFF, or 0x3F: what red starts with
    CounterMax   \* the largest uint16_t

ASSUME FadeAssumption ==
    Full \in Nat \ {0} /\ CounterMax \in Nat /\ Full <= CounterMax

VARIABLES r, g, b

fade_vars == <<r, g, b>>

FadeInit == r = Full /\ g = 0 /\ b = 0

Plus(n)  == (n + 1) % (CounterMax + 1)
Minus(n) == (n + CounterMax) % (CounterMax + 1)

(***************************************************************************)
(* if (x > 0 && z == 0) { x--; y++; } on a colour of three counters.       *)
(***************************************************************************)
RedToGreen(c) ==
    IF c.r > 0 /\ c.b = 0 THEN [c EXCEPT !.r = Minus(@), !.g = Plus(@)] ELSE c

GreenToBlueUnguarded(c) ==
    IF c.g > 0 THEN [c EXCEPT !.g = Minus(@), !.b = Plus(@)] ELSE c

GreenToBlue(c) ==
    IF c.g > 0 /\ c.r = 0 THEN [c EXCEPT !.g = Minus(@), !.b = Plus(@)] ELSE c

BlueToRed(c) ==
    IF c.b > 0 /\ c.g = 0 THEN [c EXCEPT !.r = Plus(@), !.b = Minus(@)] ELSE c

FadeStep ==
    LET c == BlueToRed(GreenToBlue(RedToGreen([r |-> r, g |-> g, b |-> b])))
    IN  r' = c.r /\ g' = c.g /\ b' = c.b

(***************************************************************************)
(* The wheel goes round: from red over green to blue, each at nearly full  *)
(* strength with the two others nearly dark (the step that reaches a full  *)
(* colour already passes the first unit on).                               *)
(***************************************************************************)
Nearly(x, y, z) == x >= Full - 1 /\ x + y + z = Full

WheelGoesRound ==
    /\ Nearly(r, g, b) ~> Nearly(g, b, r)
    /\ Nearly(g, b, r) ~> Nearly(b, r, g)
    /\ Nearly(b, r, g) ~> Nearly(r, g, b)
=============================================================================
