---------------------------- MODULE MCReversals ----------------------------
(***************************************************************************)
(* One QR payment of 5 units with a fee of 1 (wallet 1, merchant 2, fee    *)
(* revenue 3, platform cash 9) and calls that cannot all succeed: a full   *)
(* reversal; a refund of 3.5 units and one of 2 that reuses its key; one   *)
(* of 3 that fits beside the smaller of them only; one of 2.5 whose        *)
(* rounded lines do not balance; and one of an unknown transaction.        *)
(***************************************************************************)
EXTENDS Reversals, TLC

MCRequest  == {"full", "part", "partAgain", "rest", "odd", "unknown"}
MCOriginal == {"qr", "none"}
MCAccount  == {1, 2, 3, 9}
MCEntries  ==
  ("qr" :> << Line(1, "CREDIT", 6), Line(2, "DEBIT", 5),
              Line(3, "CREDIT", 1), Line(9, "DEBIT", 2) >>)
  @@ ("none" :> << >>)

Partial(o, k, h, p, f) ==
  [original |-> o, key |-> k, kind |-> "partial", refund |-> h, policy |-> p, fee |-> f]

MCReq ==
  [r \in MCRequest |->
     CASE r = "full" -> [original |-> "qr", key |-> "a", kind |-> "full",
                         refund |-> 0, policy |-> "FULL", fee |-> 0]
       [] r = "part"      -> Partial("qr", "b", 7, "PROPORTIONAL", 2)
       [] r = "partAgain" -> Partial("qr", "b", 4, "NONE", 0)
       [] r = "rest"      -> Partial("qr", "c", 6, "FULL", 2)
       [] r = "odd"       -> Partial("qr", "d", 5, "FULL", 1)
       [] r = "unknown"   -> Partial("none", "f", 2, "NONE", 0)]
MCKey == {"a", "b", "c", "d", "e", "f"}
=============================================================================
