--------------------------- MODULE MCCommandLedger ---------------------------
(***************************************************************************)
(* Small instances of CommandLedger.  c1 and c2 are the same request under *)
(* one idempotency key, c3 reuses the key with other arguments.            *)
(***************************************************************************)
EXTENDS CommandLedger

CONSTANTS c1, c2, c3, key

MCScopes == {key}
MCScopeOf == [c \in Commands |-> key]
MCFingerprint == [c \in Commands |-> IF c = c3 THEN 2 ELSE 1]

=============================================================================
