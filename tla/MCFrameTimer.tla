---------------------------- MODULE MCFrameTimer ----------------------------
EXTENDS FrameTimer
=============================================================================
