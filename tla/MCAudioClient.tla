--------------------------- MODULE MCAudioClient ----------------------------
(***************************************************************************)
(* Instances of AudioClient for TLC: stereo, with packets of two frames    *)
(* and a playback queue that a server's packet can exceed.                 *)
(***************************************************************************)
EXTENDS AudioClient

UpToThreeFrames == {2, 6}
OutputRequests  == {2, 4}
ServerFrames    == {1, 2, 4}
=============================================================================
