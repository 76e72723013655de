---------------------------- MODULE MCCaptureStorage ----------------------------
(* Two screens, one of an excluded app; the index is saved with every       *)
(* second screenshot.                                                       *)
EXTENDS CaptureStorage

MCScreen   == {"notes", "vault"}
MCExcluded == {"vault"}
=============================================================================
