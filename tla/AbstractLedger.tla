--------------------------- MODULE AbstractLedger ---------------------------
(***************************************************************************)
(* What LedgerService.postJournalEntry() promises its callers: a journal   *)
(* appears in the books at one instant, whole, at most once, with the      *)
(* effect its rounded lines add up to, and never overdraws an account the  *)
(* balance check protects.  The answer a call gets is final: a caller told *)
(* that the journal is posted finds it, one told that it was rejected does *)
(* not, and one that sees an error knows nothing.                          *)
(***************************************************************************)
EXTENDS Integers

CONSTANTS
  Request,         \* the calls
  Account,
  Acceptable,      \* the calls whose journals balance
  Effect,          \* call -> account -> the change its journal makes
  Protected,       \* accounts that must not be overdrawn
  OpeningBalance

VARIABLES
  posted,   \* the calls whose journals are in the books
  balance,  \* the balance of each account
  answer    \* what each call has been told, "none" while it runs

vars == <<posted, balance, answer>>

Init ==
  /\ posted = {}
  /\ balance = OpeningBalance
  /\ answer = [r \in Request |-> "none"]

\* The journal of r takes effect.  The acknowledgement may be lost on the way.
Post(r) ==
  /\ answer[r] = "none"
  /\ r \in Acceptable \ posted
  /\ posted' = posted \cup {r}
  /\ balance' = [a \in Account |-> balance[a] + Effect[r][a]]
  /\ \A a \in Protected : balance'[a] >= 0
  /\ \/ UNCHANGED answer
     \/ answer' = [answer EXCEPT ![r] = "error"]

Return(r) ==
  /\ answer[r] = "none"
  /\ \/ r \in posted /\ answer' = [answer EXCEPT ![r] = "done"]
     \/ r \notin posted /\ answer' = [answer EXCEPT ![r] = "rejected"]
     \/ answer' = [answer EXCEPT ![r] = "error"]
  /\ UNCHANGED <<posted, balance>>

Next == \E r \in Request : Post(r) \/ Return(r)

Spec == Init /\ [][Next]_vars
=============================================================================
