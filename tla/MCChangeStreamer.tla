--------------------------- MODULE MCChangeStreamer ---------------------------
EXTENDS ChangeStreamer
=============================================================================
