-------------------------- MODULE MCCaptureClient ---------------------------
EXTENDS CaptureClient
=============================================================================
