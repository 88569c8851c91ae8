-------------------------- MODULE MCServerSession ---------------------------
\* A small instance of ServerSession: a small and a large payload.
EXTENDS ServerSession

MCPayloads == {[size |-> 1], [size |-> 2]}
=============================================================================
