----------------------------- MODULE MCAuditLog -----------------------------
(* Values for model-checking AuditLog: a search for two words with a separator *)
(* between them, the same with the separator moved out of the resource, and    *)
(* one for a single word.                                                      *)
EXTENDS AuditLog, TLC

CONSTANTS acme, bob, search, disk, full

MCPieces == {acme, bob, search, disk, full}
Content(action, resource) ==
  [tenant |-> <<acme>>, actor |-> <<bob>>, action |-> action, resource |-> resource,
   at |-> 0]
MCContents ==
  {Content(<<search>>, <<disk, full>>), Content(<<search, disk>>, <<full>>),
   Content(<<search>>, <<full>>)}
MCFields == [c \in MCContents |-> c]
=============================================================================
