----------------------- MODULE MCCaptureVersusResult -----------------------
(***************************************************************************)
(* CaptureVersusResult for TLC.                                            *)
(***************************************************************************)
EXTENDS CaptureVersusResult

=============================================================================
