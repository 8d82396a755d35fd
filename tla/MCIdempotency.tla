--------------------------- MODULE MCIdempotency ---------------------------
(***************************************************************************)
(* One user sends a request twice under key "k" and, by mistake, a         *)
(* different body under the same key; another user has a key of the same   *)
(* name; one call has a type without a handler.                            *)
(***************************************************************************)
EXTENDS Idempotency, TLC

MCCall == {"first", "retry", "edited", "otherUser", "unknown"}
MCSlot ==
  [c \in MCCall |-> IF c = "otherUser" THEN <<"k", "ada">> ELSE <<"k", "bob">>]
MCHash == [c \in MCCall |-> IF c = "edited" THEN "h2" ELSE "h1"]
MCImplemented == MCCall \ {"unknown"}
=============================================================================
