------------------------- MODULE MCTromboneService -------------------------
(***************************************************************************)
(* Instances of TromboneService for TLC.                                   *)
(***************************************************************************)
EXTENDS TromboneService

HTDemucs == "htdemucs-vocals"
Centre   == "stereo-centre-reduction"
Delay    == "delay-passthrough"
Null     == "null"

KindOf(n) == CASE n = HTDemucs -> "segmented"
               [] n = Centre -> "reducer"
               [] n = Delay -> "delay"
               [] n = Null -> "null"

\* The media path: a segmented, a direct, a delaying and a discarding processor.
PathNames    == {HTDemucs, Centre, Delay, Null}
PathKind     == [n \in PathNames |-> KindOf(n)]
PathStartup  == [k \in {"processor"} |-> HTDemucs]
NoLive       == {}
OneLevel     == {"full"}

\* The control path: a segmented and a suspending processor, one live parameter.
ControlNames   == {HTDemucs, Delay}
ControlKind    == [n \in ControlNames |-> KindOf(n)]
ControlLive    == {HTDemucs}
ControlLevels  == {"full", "half"}
ControlStartup == [k \in {"processor", HTDemucs} |->
                     IF k = "processor" THEN HTDemucs ELSE "full"]
=============================================================================
