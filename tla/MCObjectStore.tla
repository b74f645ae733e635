--------------------------- MODULE MCObjectStore ---------------------------
EXTENDS ObjectStore

CONSTANTS app, tool

MCRels ==
  {[name |-> app, version |-> 1], [name |-> app, version |-> 2],
   [name |-> tool, version |-> 1]}
=============================================================================
