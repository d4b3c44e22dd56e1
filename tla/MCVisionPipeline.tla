------------------------- MODULE MCVisionPipeline -------------------------
EXTENDS VisionPipeline

CONSTANTS s1, s2, v1, v2, bad, list

AtLeft == <<0, 0, 4, 2>>
AtMiddle == <<1, 0, 5, 2>>
AtRight == <<6, 0, 10, 2>>

MCThreshold == <<1, 3>>
MCCovers == [z \in {"door", "desk"} |-> IF z = "door" THEN {AtLeft, AtMiddle} ELSE {AtMiddle, AtRight}]
MCAccepts == [z \in {"door", "desk"} |-> IF z = "door" THEN {} ELSE {"person"}]
MCConfigured == {{"door", "desk"}, {"desk"}}

Person(b) == [class |-> "person", box |-> b]
MCFrames == {<<>>, <<Person(AtLeft)>>, <<Person(AtMiddle)>>, <<Person(AtRight)>>,
             <<Person(AtLeft), Person(AtMiddle)>>,
             <<[class |-> "bag", box |-> AtLeft]>>}
=============================================================================
