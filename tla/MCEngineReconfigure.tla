------------------------- MODULE MCEngineReconfigure -------------------------
(* A small instance of EngineReconfigure for TLC. *)
EXTENDS EngineReconfigure

Settings(p, d, l, o) == [port |-> p, dir |-> d, limit |-> l, other |-> o]

\* Requests between these change the limit alone, other alone, the directory with
\* and without them, or ask for a port that is refused.
SomeConfig ==
  {Settings(1, "d1", 1, "utp"), Settings(1, "d1", 2, "utp"), Settings(1, "d1", 1, "tcp"),
   Settings(1, "d2", 2, "tcp"), Settings(1, "d2", 1, "utp"), Settings(0, "d1", 2, "utp")}

\* The limit stays; a change of directory and back restarts the client twice.
TwoDirs == {Settings(1, "d1", 2, "utp"), Settings(1, "d2", 2, "utp")}
=============================================================================
