------------------------- MODULE MCRetainedOverlays -------------------------
(* Two units.  Baselines a and b share one of them; c is a under another    *)
(* framework, which differs in the dispatcher only.                         *)
EXTENDS RetainedOverlays, TLC

MCContents == {"x0", "x1", "y1", "da", "db", "dc"}
MCPayload(u0, u1, d) ==
    [f \in Files |-> IF f = Dispatcher THEN d ELSE IF f = "u0" THEN u0 ELSE u1]
MCPayloadOf == [b \in Baselines |->
    IF b = "a" THEN MCPayload("x0", "x1", "da")
    ELSE IF b = "b" THEN MCPayload("x0", "y1", "db")
    ELSE MCPayload("x0", "x1", "dc")]
=============================================================================
