------------------------- MODULE MCPropertyContext --------------------------
(***************************************************************************)
(* Instances of PropertyContext.  Numbers holds values whose bits look     *)
(* like a heap identifier (96 is slot 3) and like a node identifier (37).  *)
(***************************************************************************)
EXTENDS PropertyContext

Described(tag, type, size, value, hint) ==
    [tag |-> tag, type |-> type, size |-> size, value |-> value, hint |-> hint]

\* Values as messaging.cpp's builders describe them: empty names, class
\* identifiers, a value forced into a subnode, and malformed ones.
MCDescriptors ==
    {Described(2, "Unicode", 0, 2, "Auto"),
     Described(2, "Unicode", 3580, 2, "Auto"),
     Described(3, "ClassId", 16, 3, "Auto"),
     Described(4, "Binary", 24, 4, "Subnode"),
     Described(4, "Binary", 0, 4, "Subnode"),
     Described(3, "Int64", 4, 3, "Auto")}

=============================================================================
