------------------------------ MODULE Reports ------------------------------
(***************************************************************************)
(* The reports, as functions of the rows of ledger_entries a query finds:  *)
(* trial balance, balance sheet, income statement, account statement and   *)
(* reconciliation.  Every report reads POSTED rows only and aggregates     *)
(* them by account type, date or reference.                                *)
(*                                                                         *)
(* Data.  Amounts are whole units of 0.0001; dates are period numbers; all *)
(* rows are in one currency.  Names, formatting and the order of report    *)
(* lines are left out.                                                     *)
(***************************************************************************)
EXTENDS Integers, FiniteSets, FiniteSetsExt

CONSTANTS
  Account,      \* the rows of accounts
  AccountType,  \* account -> its type
  PageSize,     \* lines on a page of an account statement
  Tolerance     \* ReconciliationService.TOLERANCE

DebitNormal  == {"ASSET", "EXPENSE", "CONTRA_REVENUE"}
CreditNormal == {"LIABILITY", "EQUITY", "REVENUE", "CONTRA_ASSET"}

ASSUME ReportAssumption ==
  /\ IsFiniteSet(Account)
  /\ AccountType \in [Account -> DebitNormal \cup CreditNormal]
  /\ PageSize \in Nat \ {0}
  /\ Tolerance \in Nat

normalBalanceSign(a) == IF AccountType[a] \in DebitNormal THEN 1 ELSE -1

OfType(types) == {a \in Account : AccountType[a] \in types}

\* The rows a report may read, by account and effective date.
Posted(rows, from, to) ==
  {x \in rows : x.status = "POSTED" /\ from <= x.effective /\ x.effective <= to}
Of(rows, a) == {x \in rows : x.account = a}

Total(rows, entryType) ==
  SumFunctionOnSet([x \in rows |-> x.amount], {x \in rows : x.entryType = entryType})

\* SUM(CASE WHEN entry_type = 'DEBIT' THEN amount ELSE -amount END).
Net(rows) == Total(rows, "DEBIT") - Total(rows, "CREDIT")

AbsInt(n) == IF n < 0 THEN -n ELSE n

-----------------------------------------------------------------------------
\* TrialBalanceService.generate().
trialBalance(rows, asOf) ==
  LET found == Posted(rows, 0, asOf)
      Sum(entryType) == SumFunction([a \in Account |-> Total(Of(found, a), entryType)])
  IN  [netBalance  |-> [a \in Account |-> normalBalanceSign(a) * Net(Of(found, a))],
       discrepancy |-> Sum("DEBIT") - Sum("CREDIT")]

\* scripts/trial-balance-check.ts: accounts without movement are left out.
trialBalanceCheck(rows, asOf) ==
  LET found == Posted(rows, 0, asOf)
      active == {a \in Account : Total(Of(found, a), "DEBIT") + Total(Of(found, a), "CREDIT") > 0}
  IN  SumFunctionOnSet([a \in Account |-> Net(Of(found, a))], active)

\* Mutant: contra-asset accounts summed as debit-normal, as assets are.
balanceSheetContraAsAsset(rows, asOf) ==
  LET found == Posted(rows, 0, asOf)
      Sum(types) == SumFunctionOnSet([a \in Account |-> Net(Of(found, a))], OfType(types))
  IN  [totalAssets      |-> Sum({"ASSET", "CONTRA_ASSET"}),
       totalLiabilities |-> -Sum({"LIABILITY"}),
       totalEquity      |-> -Sum({"EQUITY"})]

\* BalanceSheetService.generate(): every balance on its normal side, and a
\* contra-asset's credit balance added to the assets.
balanceSheet(rows, asOf) ==
  LET found == Posted(rows, 0, asOf)
      Balance == [a \in Account |-> normalBalanceSign(a) * Net(Of(found, a))]
      Sum(types) == SumFunctionOnSet(Balance, OfType(types))
  IN  [totalAssets      |-> Sum({"ASSET", "CONTRA_ASSET"}),
       totalLiabilities |-> Sum({"LIABILITY"}),
       totalEquity      |-> Sum({"EQUITY"})]

Discrepancy(sheet) == sheet.totalAssets - (sheet.totalLiabilities + sheet.totalEquity)

\* IncomeStatementService.generate(): an expense account counts with the
\* absolute value of its net, also when it was credited more than debited.
incomeStatement(rows, from, to) ==
  LET found == Posted(rows, from, to)
      revenue == SumFunctionOnSet([a \in Account |-> -Net(Of(found, a))], OfType({"REVENUE"}))
      expenses == SumFunctionOnSet([a \in Account |-> AbsInt(Net(Of(found, a)))],
                                   OfType({"EXPENSE", "CONTRA_REVENUE"}))
  IN  [netIncome |-> revenue - expenses]

-----------------------------------------------------------------------------
\* ORDER BY effective_date, posted_at: how many of the rows come before x.
Rank(found, x) ==
  Cardinality({y \in found : \/ y.effective < x.effective
                             \/ y.effective = x.effective /\ y.at < x.at})

\* LIMIT PageSize OFFSET (page - 1) * PageSize.
OnPage(found, page) ==
  {x \in found : Rank(found, x) \div PageSize = page - 1}

\* Mutant: the opening balance includes the first day of the statement.
accountStatementFromIncluded(rows, a, from, to, page) ==
  LET earlier == Of(Posted(rows, 0, from), a)
      sign == IF earlier = {} THEN 1 ELSE normalBalanceSign(a)
      opening == sign * Net(earlier)
  IN  [openingBalance |-> opening,
       closingBalance |-> opening + sign * Net(OnPage(Of(Posted(rows, from, to), a), page))]

\* AccountStatementService.generate().  The account's type comes from the
\* opening query: with no earlier row it is taken for an ASSET.  Every page
\* starts again from the opening balance.
accountStatement(rows, a, from, to, page) ==
  LET earlier == Of(Posted(rows, 0, from - 1), a)
      sign == IF earlier = {} THEN 1 ELSE normalBalanceSign(a)
      opening == sign * Net(earlier)
  IN  [openingBalance |-> opening,
       closingBalance |-> opening + sign * Net(OnPage(Of(Posted(rows, from, to), a), page))]

-----------------------------------------------------------------------------

\* MAX(amount) ... GROUP BY reference_id.
ledgerMap(found) ==
  [ref \in {x.ref : x \in found} |-> Max({x.amount : x \in {y \in found : y.ref = ref}})]

\* Mutant: the external lines that were matched are not taken off the list.
unconsumedAll(ledger, external) == DOMAIN external

\* Step 3: the external lines no ledger reference has consumed.
unconsumed(ledger, external) == DOMAIN external \ DOMAIN ledger

\* ReconciliationService.reconcile(): the references by their status.  The
\* other system's statement is a map from reference to amount: as in the code,
\* a reference listed twice counts once, with its last amount.
reconcile(rows, from, to, external) ==
  LET ledger == ledgerMap(Posted(rows, from, to))
      both == DOMAIN ledger \cap DOMAIN external
      matched == {ref \in both : AbsInt(ledger[ref] - external[ref]) <= Tolerance}
  IN  [matched           |-> matched,
       amountMismatch    |-> both \ matched,
       missingInExternal |-> DOMAIN ledger \ DOMAIN external,
       missingInLedger   |-> unconsumed(ledger, external),
       totalDiscrepancy  |->
         SumFunctionOnSet([ref \in both |-> AbsInt(ledger[ref] - external[ref])], both \ matched)
         + SumFunctionOnSet(ledger, DOMAIN ledger \ DOMAIN external)
         + SumFunctionOnSet(external, unconsumed(ledger, external))]

isFullyReconciled(report) ==
  /\ report.amountMismatch = {}
  /\ report.missingInLedger = {}
  /\ report.missingInExternal = {}
=============================================================================
