------------------------ MODULE MCAudioStreamServer -------------------------
\* A small instance of AudioStreamServer: chunks of one size.
EXTENDS AudioStreamServer

MCPayloads == {[size |-> 1]}
=============================================================================
