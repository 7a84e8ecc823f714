--------------------------- MODULE MCNidAllocator ---------------------------
(* NidAllocator with three indices per user type (0x400..0x402) and an     *)
(* environment that asks for one Internal, two user and one invalid type,  *)
(* and registers NIDs ahead of, at and behind the counters.                *)
EXTENDS NidAllocator, FiniteSets

CONSTANT MaxTaken   \* the environment stops once this many NIDs are taken

Asked == {Internal, NormalFolder, NormalMessage, 9}

\* Internal 2 and 4, folders 0x400 and 0x401, message 0x401, one reserved NID
\* (0x122) and one of an invalid type (0x617, the receive folder table).
Registered ==
  {Nid(Internal, 2), Nid(Internal, 4), Nid(NormalFolder, 1024),
   Nid(NormalFolder, 1025), Nid(NormalMessage, 1025), 290, 1559}

BoundedNext == Cardinality(allocated) < MaxTaken /\ Next

MCSpec == Init /\ [][BoundedNext]_vars

=============================================================================
