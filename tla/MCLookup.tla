------------------------------ MODULE MCLookup ------------------------------
(* Instances of Lookup for TLC.                                            *)
EXTENDS Lookup

LocalId == {}

Contact(id, addr) == [id |-> id, addr |-> addr]

\* Everybody has an address of its own; others know the local node, too, and
\* some have one of the peers at an address that is no use.
OwnAddresses ==
  {Contact({0}, 1), Contact({1}, 2), Contact({0, 1}, 3), Contact({}, 4),
   Contact({0, 1}, 5)}

\* Looked for: 3, whose own entry is the nearest possible.
SomeTargets == {{0, 1}}

=============================================================================
