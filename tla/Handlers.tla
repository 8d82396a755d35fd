------------------------------ MODULE Handlers ------------------------------
(***************************************************************************)
(* The transaction handlers: what each of the 22 transaction types asks    *)
(* postJournalEntry() to book, and which checks it asks for.               *)
(*                                                                         *)
(* A call resolves its accounts (and reads their status), later validates  *)
(* its business rules against what it read, builds the journal and posts   *)
(* it.  A call that is refused, by a business rule, by the posting or for  *)
(* a missing field, leaves no trace: the action is not enabled.  Posting   *)
(* is one step here; LedgerPosting has its statements and their            *)
(* interleavings.                                                          *)
(*                                                                         *)
(* Data.  Every amount is in half-units of the smallest unit the ledger    *)
(* keeps (0.0001), so an amount on the ledger's grid is even and an odd    *)
(* one is rounded by toFixed(4).  One is 1.0000 in half-units.  A system   *)
(* account is named for its key in the account map.                        *)
(***************************************************************************)
EXTENDS Integers, Sequences, FiniteSets, FiniteSetsExt, Functions

CONSTANTS
  Wallet,       \* customer wallets
  Closable,     \* accounts an ADMIN may deactivate
  Opening,      \* wallet -> balance deposited before the modelled calls
  Amount,       \* amounts clients send, in half-units
  SmallAmount,  \* amounts sent where a call takes several of them
  Rate,         \* rates <<n, d>> clients send: annualRate, exchangeRate
  Days,         \* daysOverdue
  Points,       \* pointsRedeemed
  One,          \* half-units per unit of currency, 20000 in the code
  MaxPostings   \* bound on the number of posted journals

ASSUME ScaleAssumption ==
  /\ One \in Nat \ {0} /\ One % 200 = 0
  /\ Amount \subseteq Int /\ SmallAmount \subseteq Int
  /\ \A r \in Rate : r \in Nat \X (Nat \ {0})
  /\ Days \subseteq Nat /\ Points \subseteq Nat /\ MaxPostings \in Nat

ASSUME OpeningOnGrid ==
  Opening \in [Wallet -> Nat] /\ \A w \in Wallet : Opening[w] % 2 = 0

SystemAccount ==
  {"liability", "gatewayExpense", "merchantPayable", "merchant", "biller",
   "feeRevenue", "platformOperatingCash", "interestExpense", "interestPayable",
   "tdsPayable", "cashbackExpense", "loanReceivable", "interestIncome",
   "penaltyRevenue", "fxHoldingSource", "fxHoldingTarget", "fxRevenue",
   "chargebackFeeRevenue", "rewardsLiability", "stampDutyPayable",
   "vatPayable", "cybersecurityLevyPayable"}
Account  == Wallet \cup SystemAccount
Holder   == Wallet \cup {"merchant", "biller"}  \* accounts whose status is checked
Currency == {"home", "target"}                  \* "target" only in a conversion

ASSUME AccountAssumption ==
  /\ IsFiniteSet(Wallet) /\ Wallet \cap SystemAccount = {}
  /\ Closable \subseteq Holder

-----------------------------------------------------------------------------
(* Money: Decimal and Number conversions.                                  *)

\* Mutant: the amount is stored as the client sent it.
toFixedNever(h) == h

\* toFixed(4) of a Decimal: half-units to the grid, ties up.
toFixed(h) == 2 * ((h + 1) \div 2)

\* h * n / d, rounded half up to the grid: toDecimalPlaces(4, ROUND_HALF_UP).
Share(h, n, d) == 2 * ((h * n + d) \div (2 * d))

\* The same conversions of a Number, or of a quotient already rounded to 20
\* digits: an exact tie falls on either side.
toFixedNumber(h, up)      == toFixed(h) - IF h % 2 = 1 /\ ~up THEN 2 ELSE 0
ShareNumber(h, n, d, up) ==
  Share(h, n, d) - IF (h * n + d) % (2 * d) = 0 /\ ~up THEN 2 ELSE 0

AtLeast(x, floor) == IF x < floor THEN floor ELSE x
AtMost(x, cap)    == IF x > cap THEN cap ELSE x

computeStampDuty(h)         == IF h >= 10000 * One THEN 50 * One ELSE 0
computeVat(fee)             == Share(fee, 3, 40)
computeCybersecurityLevy(h) == Share(h, 1, 20000)

-----------------------------------------------------------------------------
(* Journals.                                                               *)

LineIn(cur, a, side, h) == [account |-> a, entryType |-> side, amount |-> h, currency |-> cur]
Debit(a, h)  == LineIn("home", a, "DEBIT", h)
Credit(a, h) == LineIn("home", a, "CREDIT", h)

\* A line that is there only when its amount is positive.
CreditIfAny(a, h) == IF h > 0 THEN <<Credit(a, h)>> ELSE << >>

Sent(lines)   == [i \in DOMAIN lines |-> lines[i].amount]           \* what postJournalEntry() is given
Stored(lines) == [i \in DOMAIN lines |-> toFixed(lines[i].amount)]  \* what the ledger rows keep
Total(lines, side) ==
  SumFunctionOnSet(Sent(lines), {i \in DOMAIN lines : lines[i].entryType = side})

\* The lines with the residual on Platform Operating Cash, if there is one.
computeBalancingLeg(lines, cur) ==
  LET diff == Total(lines, "DEBIT") - Total(lines, "CREDIT")
      Plug(side, h) == Append(lines, LineIn(cur, "platformOperatingCash", side, toFixed(h)))
  IN  IF diff = 0 THEN lines
      ELSE IF diff > 0 THEN Plug("CREDIT", diff) ELSE Plug("DEBIT", -diff)
Balanced(lines) == computeBalancingLeg(lines, "home")

\* What a handler hands to postJournalEntry(): a funding transaction asks for
\* no check, a spending one for a balance and a limit check of one account.
Funding(type, lines) ==
  [type |-> type, lines |-> lines, check |-> {}, limits |-> {}, late |-> {}]
Spending(type, w, total, lines) ==
  [type |-> type, lines |-> lines, check |-> {w},
   limits |-> {[account |-> w, amount |-> total]}, late |-> {}]

-----------------------------------------------------------------------------
VARIABLES
  bal,     \* SUM(DEBIT) - SUM(CREDIT) of each account in each currency
  books,   \* the journals posted, in order
  status,  \* accounts.status of each account holder
  call     \* the status map the call under way has resolved, or NoCall

vars == <<bal, books, status, call>>

NoCall == << >>

Init ==
  /\ bal = [a \in Account |-> [cur \in Currency |->
              IF cur # "home" THEN 0
              ELSE IF a \in Wallet THEN Opening[a]
              ELSE IF a = "liability" THEN -SumFunction(Opening)
              ELSE 0]]
  /\ books = << >>
  /\ status = [a \in Holder |-> "ACTIVE"]
  /\ call = NoCall

\* resolveAccounts(): the accounts are read once, before and outside the
\* transaction that posts.
ResolveAccounts ==
  /\ call = NoCall /\ Len(books) < MaxPostings
  /\ call' = status
  /\ UNCHANGED <<bal, books, status>>

\* AccountsService.deactivate(): no look at the balance or at calls under way.
Deactivate(a) ==
  /\ status' = [status EXCEPT ![a] = "INACTIVE"]
  /\ UNCHANGED <<bal, books, call>>

Active(a) == call[a] = "ACTIVE"

\* The effect of the stored rows on account a in one currency.
Effect(lines, a, cur) ==
  LET On(side) == {i \in DOMAIN lines : /\ lines[i].account = a /\ lines[i].currency = cur
                                        /\ lines[i].entryType = side}
  IN  SumFunctionOnSet(Stored(lines), On("DEBIT")) - SumFunctionOnSet(Stored(lines), On("CREDIT"))

\* The currencies in which a wallet has rows: nothing ties the currency of a
\* line to that of its account.
Held(w) ==
  (IF Opening[w] > 0 THEN {"home"} ELSE {})
    \cup UNION {{l.currency : l \in {x \in Range(j.lines) : x.account = w}} : j \in Range(books)}

\* deriveBalance(): the rows are grouped by currency and the first group is
\* the answer, whichever the database returns first.
deriveBalance(w) == IF Held(w) = {} THEN {0} ELSE {bal[w][cur] : cur \in Held(w)}

\* postJournalEntry(), all of it: positive amounts, assertBalanced() over the
\* amounts as sent and whatever their currency, the balance check against the
\* first line on the account.  No TransactionLimit row is configured here.
Post(j) ==
  /\ Len(books) < MaxPostings
  /\ \A i \in DOMAIN j.lines : j.lines[i].amount > 0
  /\ Total(j.lines, "DEBIT") = Total(j.lines, "CREDIT")
  /\ \A a \in j.check :
       \E i \in DOMAIN j.lines :
         /\ j.lines[i].account = a
         /\ \A k \in 1 .. i - 1 : j.lines[k].account # a
         /\ \E balance \in deriveBalance(a) : balance >= j.lines[i].amount
  /\ bal' = [a \in Account |-> [cur \in Currency |-> bal[a][cur] + Effect(j.lines, a, cur)]]
  \* late: the wallets it takes from that are no longer active
  /\ books' = Append(books, [j EXCEPT !.late =
                 {w \in Wallet : /\ status[w] # "ACTIVE"
                                 /\ \E cur \in Currency : Effect(j.lines, w, cur) < 0}])
  /\ call' = NoCall
  /\ UNCHANGED status

-----------------------------------------------------------------------------
(* Funding and spending one wallet.                                        *)

\* The amount goes to both lines as the client wrote it; only the posting
\* refuses zero and negative ones.
DepositBank(w, h) ==
  /\ Active(w)
  /\ h <= 1000000 * One
  /\ Post(Funding("CUSTOMER_DEPOSIT_BANK", <<Debit(w, h), Credit("liability", h)>>))

DepositCard(w, h) ==
  LET gatewayFee == Share(h, 9, 500)
  IN  /\ Active(w)
      /\ h > 0 /\ h <= 500000 * One
      /\ Post(Funding("CUSTOMER_DEPOSIT_CARD",
                <<Debit(w, toFixed(h)), Credit("liability", toFixed(h)),
                  Debit("gatewayExpense", gatewayFee), Credit("merchantPayable", gatewayFee)>>))

\* Mutant: getBalanceCheckAccounts() left empty.
WithdrawalUnchecked(w, h) ==
  /\ Active(w)
  /\ h <= 100000 * One
  /\ Post(Funding("CUSTOMER_WITHDRAWAL_BANK", <<Debit("liability", h), Credit(w, h)>>))

Withdrawal(w, h) ==
  /\ Active(w)
  /\ h <= 100000 * One
  /\ Post(Spending("CUSTOMER_WITHDRAWAL_BANK", w, toFixed(h),
                   <<Debit("liability", h), Credit(w, h)>>))

\* Mutant: the status of the wallet is not looked at.
FeeDeductionAnyStatus(w, h) ==
  /\ h > 0
  /\ Post(Spending("FEE_DEDUCTION_MONTHLY", w, toFixed(h),
                   Balanced(<<Credit(w, h), Credit("feeRevenue", h)>>)))

\* Both real lines carry the client's amount unrounded, the plug is rounded.
FeeDeduction(w, h) ==
  /\ Active(w)
  /\ h > 0
  /\ Post(Spending("FEE_DEDUCTION_MONTHLY", w, toFixed(h),
                   Balanced(<<Credit(w, h), Credit("feeRevenue", h)>>)))

CashbackCredit(w, h) ==
  /\ Active(w)
  /\ h > 0 /\ h <= 10000 * One
  /\ Post(Funding("CASHBACK_CREDIT", Balanced(<<Debit("cashbackExpense", h), Debit(w, h)>>)))

PromotionalCredit(w, h) ==
  /\ Active(w)
  /\ h > 0
  /\ Post(Funding("PROMOTIONAL_CREDIT", Balanced(<<Debit("cashbackExpense", h), Debit(w, h)>>)))

RewardRedemption(w, points) ==
  LET inrValue == Share(points * One, 1, 4)
  IN  /\ Active(w)
      /\ points >= 100
      /\ Post(Funding("REWARD_REDEMPTION",
                Balanced(<<Debit("rewardsLiability", inrValue), Debit(w, inrValue)>>)))

\* The amount is the client's, and nothing compares it with the balance.
AccountClosure(w, h) ==
  /\ call[w] # "CLOSED"
  /\ h > 0
  /\ Post(Funding("ACCOUNT_CLOSURE_SWEEP",
            <<Debit("liability", toFixed(h)), Credit(w, toFixed(h))>>))

-----------------------------------------------------------------------------
(* Payments from a wallet to another party.                                *)

P2pTransfer(s, r, h) ==
  LET fee   == 10 * One
      total == toFixed(h + fee)
  IN  /\ Active(s) /\ Active(r) /\ s # r
      /\ h <= 200000 * One
      /\ Post(Spending("P2P_TRANSFER", s, total,
                Balanced(<<Credit(s, total), Debit(r, toFixed(h)), Credit("feeRevenue", fee)>>)))

\* Mutant: the limit is checked on the price without the fee.
MerchantPaymentQrLimitsPrice(w, h) ==
  LET fee   == AtLeast(Share(h, 1, 200), One)
      total == toFixed(h + fee)
  IN  /\ Active(w) /\ Active("merchant")
      /\ h > 0 /\ h <= 500000 * One
      /\ Post(Spending("MERCHANT_PAYMENT_QR", w, toFixed(h),
                Balanced(<<Credit(w, total), Debit("merchant", toFixed(h)),
                           Credit("feeRevenue", fee)>>)))

MerchantPaymentQr(w, h) ==
  LET fee   == AtLeast(Share(h, 1, 200), One)
      total == toFixed(h + fee)
  IN  /\ Active(w) /\ Active("merchant")
      /\ h > 0 /\ h <= 500000 * One
      /\ Post(Spending("MERCHANT_PAYMENT_QR", w, total,
                Balanced(<<Credit(w, total), Debit("merchant", toFixed(h)),
                           Credit("feeRevenue", fee)>>)))

\* Computed with Numbers: up says which way each tie falls.
MerchantPaymentOnline(w, h, up) ==
  LET platformFee == AtLeast(ShareNumber(h, 1, 200, up.platform), One)
      gatewayFee  == AtLeast(ShareNumber(h, 1, 500, up.gateway), One)
      total       == toFixedNumber(h + platformFee, up.total)
  IN  /\ Active(w) /\ Active("merchant")
      /\ h > 0 /\ h <= 500000 * One
      /\ Post(Spending("MERCHANT_PAYMENT_ONLINE", w, total,
                Balanced(<<Credit(w, total),
                           Debit("merchant", toFixedNumber(h - gatewayFee, up.net)),
                           Credit("feeRevenue", platformFee + gatewayFee)>>)))

BillPayment(w, h) ==
  LET fee   == 5 * One
      total == toFixed(h + fee)
  IN  /\ Active(w) /\ Active("biller")
      /\ h > 0 /\ h <= 1000000 * One
      /\ Post(Spending("BILL_PAYMENT", w, total,
                Balanced(<<Credit(w, total), Debit("biller", toFixed(h)),
                           Credit("feeRevenue", fee)>>)))

\* Mutant: the sender is not charged the VAT that is booked as payable.
NairaTransferFreeOfVat(type, s, r, h, fee, max) ==
  LET duty  == computeStampDuty(h)
      vat   == computeVat(fee)
      levy  == computeCybersecurityLevy(h)
      total == toFixed(h + fee + duty + levy)
  IN  /\ Active(s) /\ Active(r) /\ s # r
      /\ h > 0 /\ h <= max * One
      /\ Post(Spending(type, s, total,
                Balanced(<<Credit(s, total), Debit(r, toFixed(h)), Credit("feeRevenue", fee)>>
                           \o CreditIfAny("stampDutyPayable", duty)
                           \o CreditIfAny("vatPayable", vat)
                           \o CreditIfAny("cybersecurityLevyPayable", levy))))

\* An NGN transfer with its levies; each levy has a line only when it is due.
NairaTransfer(type, s, r, h, fee, max) ==
  LET duty  == computeStampDuty(h)
      vat   == computeVat(fee)
      levy  == computeCybersecurityLevy(h)
      total == toFixed(h + fee + duty + vat + levy)
  IN  /\ Active(s) /\ Active(r) /\ s # r
      /\ h > 0 /\ h <= max * One
      /\ Post(Spending(type, s, total,
                Balanced(<<Credit(s, total), Debit(r, toFixed(h)), Credit("feeRevenue", fee)>>
                           \o CreditIfAny("stampDutyPayable", duty)
                           \o CreditIfAny("vatPayable", vat)
                           \o CreditIfAny("cybersecurityLevyPayable", levy))))

\* NIP_FEE is 26.8800.
NipTransfer(s, r, h)  == NairaTransfer("NIP_TRANSFER", s, r, h, (2688 * One) \div 100, 5000000)
UssdTransfer(s, r, h) == NairaTransfer("USSD_TRANSFER", s, r, h, 10 * One, 100000)

\* Both wallets may be the same one.  The rate is the client's: the call only
\* needs some current rate to exist.
FxConversion(s, t, h, rate) ==
  LET gross  == Share(h, rate[1], rate[2])
      markup == Share(gross, 1, 200)
      Target(a, side, x) == LineIn("target", a, side, x)
  IN  /\ Active(s) /\ Active(t)
      /\ h > 0 /\ h <= 1000000 * One
      /\ Post(Spending("FX_CONVERSION", s, toFixed(h),
                computeBalancingLeg(
                  <<Credit(s, toFixed(h)), Debit("fxHoldingSource", toFixed(h)),
                    Target("fxHoldingTarget", "CREDIT", gross),
                    Target(t, "DEBIT", gross - markup),
                    Target("fxRevenue", "CREDIT", markup)>>, "target")))

-----------------------------------------------------------------------------
(* Interest and loans.                                                     *)

InterestAccrual(h, rate) ==
  LET dailyInterest == Share(h, rate[1], rate[2] * 365)
  IN  /\ h > 0
      /\ rate[1] > 0 /\ rate[1] <= rate[2]
      /\ dailyInterest > 0
      /\ Post(Funding("INTEREST_ACCRUAL",
                <<Debit("interestExpense", dailyInterest), Credit("interestPayable", dailyInterest)>>))

\* Mutant: the gross and the net are handed over unrounded.
InterestPayoutRaw(w, h) ==
  LET tds == Share(h, 1, 10)
  IN  /\ h > 0
      /\ Post(Funding("INTEREST_PAYOUT",
                Balanced(<<Debit("interestPayable", h), Debit(w, h - tds), Credit("tdsPayable", tds)>>)))

InterestPayout(w, h) ==
  LET tds == Share(h, 1, 10)
  IN  /\ h > 0
      /\ Post(Funding("INTEREST_PAYOUT",
                Balanced(<<Debit("interestPayable", toFixed(h)), Debit(w, toFixed(h - tds)),
                           Credit("tdsPayable", tds)>>)))

LoanDisbursement(w, h) ==
  LET fee == Share(h, 1, 100)
  IN  /\ Active(w)
      /\ h > 0 /\ h <= 5000000 * One
      /\ Post(Funding("LOAN_DISBURSEMENT",
                <<Debit(w, toFixed(h - fee)), Debit("gatewayExpense", fee),
                  Credit("loanReceivable", toFixed(h))>>))

\* computeAmounts(): the payment covers penalty, then interest, then principal.
\* Without a paymentAmount (0 here: a payment of 0 is refused) the customer
\* pays exactly what is due.
LoanEmiPayment(w, principal, interest, days, payment) ==
  LET penalty == Share((principal + interest) * days, 1, 1000)
      due     == principal + interest + penalty
      paid    == IF payment = 0 THEN toFixed(due) ELSE payment
      toPenalty   == AtMost(paid, penalty)
      toInterest  == AtMost(paid - toPenalty, interest)
      toPrincipal == paid - toPenalty - toInterest
  IN  /\ Active(w)
      /\ principal >= 0 /\ interest >= 0 /\ principal + interest > 0
      /\ paid >= due
      /\ Post(Spending("LOAN_EMI_PAYMENT", w, toFixed(paid),
                Balanced(<<Credit(w, toFixed(paid)),
                           Credit("loanReceivable", toFixed(toPrincipal)),
                           Credit("interestIncome", toFixed(toInterest))>>
                         \o CreditIfAny("penaltyRevenue", toFixed(toPenalty)))))

-----------------------------------------------------------------------------
(* Money back to the customer.  None of these three looks for the payment  *)
(* it refunds, and only the full refund looks at a status.                 *)

RefundFull(w, h, fee) ==
  /\ call[w] # "CLOSED" /\ Active("merchant")
  /\ h > 0
  /\ Post(Funding("REFUND_FULL",
            Balanced(<<Debit(w, toFixed(h + fee)), Credit("merchant", toFixed(h)),
                       Debit("feeRevenue", toFixed(fee))>>)))

FeePolicy == {"PROPORTIONAL", "FULL", "NONE"}

RefundPartial(w, refund, original, fee, policy, up) ==
  LET feeRefund == CASE policy = "FULL"         -> fee
                     [] policy = "NONE"         -> 0
                     [] policy = "PROPORTIONAL" -> ShareNumber(refund * fee, 1, original, up)
  IN  /\ refund > 0 /\ refund <= original
      /\ Post(Funding("REFUND_PARTIAL",
                Balanced(<<Debit(w, toFixed(refund + feeRefund)), Credit("merchant", toFixed(refund))>>
                         \o (IF feeRefund > 0 THEN <<Debit("feeRevenue", toFixed(feeRefund))>>
                             ELSE << >>))))

Chargeback(w, h) ==
  LET fee == 500 * One
  IN  /\ h > 0
      /\ Post(Funding("CHARGEBACK",
                Balanced(<<Credit("merchant", toFixed(h + fee)), Debit(w, toFixed(h)),
                           Credit("chargebackFeeRevenue", fee)>>)))

-----------------------------------------------------------------------------
OneWallet(w, h) ==
  \/ DepositBank(w, h)       \/ DepositCard(w, h)     \/ Withdrawal(w, h)
  \/ FeeDeduction(w, h)      \/ CashbackCredit(w, h)  \/ PromotionalCredit(w, h)
  \/ MerchantPaymentQr(w, h) \/ BillPayment(w, h)     \/ InterestPayout(w, h)
  \/ LoanDisbursement(w, h)  \/ Chargeback(w, h)      \/ AccountClosure(w, h)
  \/ \E up \in [platform : BOOLEAN, gateway : BOOLEAN, total : BOOLEAN, net : BOOLEAN] :
       MerchantPaymentOnline(w, h, up)

Transfer(s, r, h) ==
  \/ P2pTransfer(s, r, h) \/ NipTransfer(s, r, h) \/ UssdTransfer(s, r, h)

Composite(w) ==
  \/ \E points \in Points : RewardRedemption(w, points)
  \/ \E h, fee \in SmallAmount : RefundFull(w, h, fee)
  \/ \E h, original, fee \in SmallAmount, policy \in FeePolicy, up \in BOOLEAN :
       RefundPartial(w, h, original, fee, policy, up)
  \/ \E principal, interest, payment \in SmallAmount, days \in Days :
       LoanEmiPayment(w, principal, interest, days, payment)
  \/ \E t \in Wallet, h \in SmallAmount, rate \in Rate : FxConversion(w, t, h, rate)

execute ==
  /\ call # NoCall
  /\ \/ \E w \in Wallet, h \in Amount : OneWallet(w, h)
     \/ \E s, r \in Wallet, h \in Amount : Transfer(s, r, h)
     \/ \E w \in Wallet : Composite(w)
     \/ \E h \in Amount, rate \in Rate : InterestAccrual(h, rate)

Next ==
  \/ ResolveAccounts
  \/ \E a \in Closable : Deactivate(a)
  \/ execute

Spec == Init /\ [][Next]_vars

-----------------------------------------------------------------------------
(* Properties.                                                             *)

TransactionType ==
  {"CUSTOMER_DEPOSIT_BANK", "CUSTOMER_DEPOSIT_CARD", "CUSTOMER_WITHDRAWAL_BANK",
   "P2P_TRANSFER", "MERCHANT_PAYMENT_QR", "MERCHANT_PAYMENT_ONLINE", "BILL_PAYMENT",
   "INTEREST_ACCRUAL", "INTEREST_PAYOUT", "FEE_DEDUCTION_MONTHLY", "CASHBACK_CREDIT",
   "PROMOTIONAL_CREDIT", "LOAN_DISBURSEMENT", "LOAN_EMI_PAYMENT", "FX_CONVERSION",
   "REFUND_FULL", "REFUND_PARTIAL", "CHARGEBACK", "REWARD_REDEMPTION",
   "ACCOUNT_CLOSURE_SWEEP", "NIP_TRANSFER", "USSD_TRANSFER"}
StatusMap   == [Holder -> {"ACTIVE", "INACTIVE"}]
LineType    == [account : Account, entryType : {"DEBIT", "CREDIT"}, amount : Int,
                currency : Currency]
JournalType == [type : TransactionType, lines : Seq(LineType), check : SUBSET Account,
                limits : SUBSET [account : Account, amount : Int], late : SUBSET Wallet]

\* Every balance stays on the ledger's grid of 0.0001, whatever clients send.
TypeOK ==
  /\ bal \in [Account -> [Currency -> Int]]
  /\ \A a \in Account, cur \in Currency : bal[a][cur] % 2 = 0
  /\ books \in Seq(JournalType)
  /\ status \in StatusMap
  /\ call \in StatusMap \cup {NoCall}

Journals == Range(books)

\* What the stored rows of a journal take from an account.
Loss(j, a, cur) == -Effect(j.lines, a, cur)

StoredTotal(j, cur, side) ==
  SumFunctionOnSet(Stored(j.lines), {i \in DOMAIN j.lines : /\ j.lines[i].currency = cur
                                                            /\ j.lines[i].entryType = side})
StoredBalanced(j) ==
  \A cur \in Currency : StoredTotal(j, cur, "DEBIT") = StoredTotal(j, cur, "CREDIT")

\* assertBalanced() compares unrounded amounts and ignores currencies.  Even
\* so the rows a handler has stored balance, in each currency, unless it is
\* one of the three that pass an off-grid amount through unrounded.
UnbalancedOnlyByRawAmounts ==
  \A j \in Journals :
    \/ StoredBalanced(j)
    \/ /\ j.type \in {"FEE_DEDUCTION_MONTHLY", "CASHBACK_CREDIT", "PROMOTIONAL_CREDIT"}
       /\ \E i \in DOMAIN j.lines : j.lines[i].amount % 2 = 1

\* A sequence of transactions of any types overdraws no wallet, except
\* through account-closure.handler.ts, whose sweep is not balance-checked, or
\* a wallet with rows in two currencies, where deriveBalance() may answer with
\* the balance in the other one.
WalletsNeverOverdrawn ==
  \A w \in Wallet, cur \in Currency :
    bal[w][cur] < 0 =>
      \/ Held(w) = Currency
      \/ \E j \in Journals : j.type = "ACCOUNT_CLOSURE_SWEEP" /\ Loss(j, w, cur) > 0

\* getBalanceCheckAccounts() and getLimitCheckSpecs() agree with
\* buildJournalEntry(), computed apart from it: whenever a journal takes from
\* a wallet, the wallet was balance-checked, and the amount counted against
\* its limit is the amount stored.  This is what LedgerPosting asks of its
\* callers.
CheckedAndMetered ==
  \A j \in Journals, w \in Wallet, cur \in Currency :
    Loss(j, w, cur) > 0 /\ j.type # "ACCOUNT_CLOSURE_SWEEP" =>
      /\ w \in j.check
      /\ [account |-> w, amount |-> Loss(j, w, cur)] \in j.limits

\* The payee's gain and every charge booked, Platform Operating Cash aside.
Reached(j) ==
  SumFunctionOnSet(Stored(j.lines),
    {i \in DOMAIN j.lines : j.lines[i].account \notin {"platformOperatingCash"} \cup j.check})

\* What leaves the payer is what the payee, the revenue and the tax accounts
\* receive: the balancing leg hides no loss.  Exactly so where the handler
\* computes with Decimal; within one 0.0001 where a Number or the separately
\* rounded parts of an instalment are involved.
NothingLostInTransit ==
  \A j \in Journals : \A w \in j.check :
    /\ j.type \in {"P2P_TRANSFER", "MERCHANT_PAYMENT_QR", "BILL_PAYMENT",
                   "NIP_TRANSFER", "USSD_TRANSFER"}
         => Loss(j, w, "home") = Reached(j)
    /\ j.type \in {"MERCHANT_PAYMENT_ONLINE", "LOAN_EMI_PAYMENT"}
         => Loss(j, w, "home") - Reached(j) \in {-2, 0, 2}

\* The status is read before the transaction that posts, so a deactivated
\* wallet can still be spent from; but only by the call that was under way.
DeactivationStopsSpending ==
  \A i, k \in DOMAIN books :
    (/\ books[i].late \cap books[k].late # {}
     /\ "ACCOUNT_CLOSURE_SWEEP" \notin {books[i].type, books[k].type}) => i = k

\* Claimed: docs/reviews/final-review.md, "no unbalanced journal entry could
\* ever reach the ledger".
NoUnbalancedJournal == \A j \in Journals : StoredBalanced(j)

\* Claimed: loan-disbursement.handler.ts, "the loan creates a new receivable
\* asset", which loan-emi-payment.handler.ts then pays down: the receivable
\* is what was lent minus what was repaid.
LoanReceivableIsOwed ==
  LET Of(type) == {i \in DOMAIN books : books[i].type = type}
      Moved(i) == LET x == Effect(books[i].lines, "loanReceivable", "home") IN AtLeast(x, -x)
  IN  bal["loanReceivable"]["home"] = MapThenSumSet(Moved, Of("LOAN_DISBURSEMENT"))
                                - MapThenSumSet(Moved, Of("LOAN_EMI_PAYMENT"))
=============================================================================
