--------------------------- MODULE MCVaaniSystem ----------------------------
\* A small instance of VaaniSystem: chunks of one size.
EXTENDS VaaniSystem

MCPayloads == {Part(c, i) : c \in Connections, i \in 1..4}
=============================================================================
