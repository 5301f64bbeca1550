--------------------------- MODULE BillingLedger ---------------------------
(***************************************************************************)
(* The credit ledger of one wallet: backend/services/billing_service.py.   *)
(*                                                                         *)
(* Every transaction is immutable and records from which earlier credits   *)
(* its units were taken.  A grant opens a lot; spending draws lots in the  *)
(* order of their transactions and turns what is missing into debt; new    *)
(* credits fund debts first; refunds of purchases, returns of usage and    *)
(* revocations the provider has already paid out unwind that provenance.   *)
(* All operations of a wallet are serialised by its row lock, so each is   *)
(* one step; one that meets tables that disagree raises and is rolled      *)
(* back.  Idempotency keys are left out: every step is a new intent.       *)
(***************************************************************************)
EXTENDS Integers, Sequences, Functions

CONSTANTS
  MaxTransactions,  \* bound: transactions of the wallet
  MaxHolds,         \* bound: refund holds
  Amounts           \* units that one operation moves

ASSUME LedgerAssumption ==
  /\ MaxTransactions \in Nat \ {0}
  /\ MaxHolds \in Nat
  /\ Amounts \subseteq Nat \ {0}

Ids == 1..MaxTransactions
Debt == MaxTransactions + 1   \* the last entry of an allocation: unfunded
Parts == 1..Debt

VARIABLES
  txns,           \* the transactions: units, kind, the one it reverses, allocation
  balanceUnits,   \* wallet.balance_units
  reservedUnits,  \* wallet.reserved_units
  booked,         \* units reserved for running operations
  holds,          \* BillingCreditHold rows
  book            \* remaining units of lots, debts and debt fundings

ledgerVars == <<txns, balanceUnits, reservedUnits, booked, holds, book>>

TransactionKinds == {"grant", "spend", "return", "refund", "revocation"}
Transactions == [kind : TransactionKinds, units : Int, ref : 0..MaxTransactions, alloc : [Parts -> Nat]]
HoldRows == [txn : Ids, units : Nat, state : {"active", "released"}]
Tables == [lots : [Ids -> Nat], debts : [Ids -> Nat], fund : [Ids -> [Ids -> Nat]], ok : BOOLEAN]

LedgerTypeOK ==
  /\ txns \in Seq(Transactions) /\ Len(txns) <= MaxTransactions
  /\ balanceUnits \in Int
  /\ reservedUnits \in Nat /\ booked \in Nat
  /\ holds \in Seq(HoldRows)
  /\ book \in Tables /\ book.ok

LedgerInit ==
  /\ txns = <<>>
  /\ balanceUnits = 0 /\ reservedUnits = 0 /\ booked = 0
  /\ holds = <<>>
  /\ book = [lots |-> [t \in Ids |-> 0], debts |-> [t \in Ids |-> 0],
             fund |-> [d \in Ids |-> [s \in Ids |-> 0]], ok |-> TRUE]

-----------------------------------------------------------------------------
Lesser(a, b) == IF a < b THEN a ELSE b
Greater(a, b) == IF a > b THEN a ELSE b
Size(n) == IF n < 0 THEN -n ELSE n
Total(f) == SumFunction(f)
Nothing == [i \in Parts |-> 0]
Posted == 1..Len(txns)
HasLot(t) == t \in Posted /\ txns[t].kind = "grant"

\* What units take from the entries of f when they are drawn in order.
Before(f, i) == SumFunctionOnSet(f, 1..(i - 1))
Drawn(f, units) == [i \in DOMAIN f |-> Lesser(f[i], Greater(0, units - Before(f, i)))]
Minus(f, g) == [i \in DOMAIN f |-> f[i] - g[i]]

\* _allocate: lots in order, then debt.
Allocate(units) ==
  LET taken == Drawn(book.lots, units)
  IN  [i \in Parts |-> IF i = Debt THEN units - Total(taken) ELSE taken[i]]

\* Mutated form: the debts shrink, who paid them is not recorded.
FundUnrecorded(b, source, units) ==
  LET paid == Drawn(b.debts, units)
  IN  [b EXCEPT !.debts = Minus(b.debts, paid), !.ok = @ /\ Total(paid) = units]

\* _fund_debt: source pays units of the outstanding debts, oldest first.
FundDebt(b, source, units) ==
  LET paid == Drawn(b.debts, units)
  IN  [b EXCEPT !.debts = Minus(b.debts, paid),
                !.fund = [d \in Ids |-> [b.fund[d] EXCEPT ![source] = @ + paid[d]]],
                !.ok = @ /\ Total(paid) = units]

\* What sources paid of debt d.
Funded(b, d) == Total(b.fund[d])

-----------------------------------------------------------------------------
\* The loops of the code over rows in the order of their transactions: each
\* step takes the number of a row and what the loop has made so far.
Walk(step, start) ==
  LET at[i \in 0..MaxTransactions] == IF i = 0 THEN start ELSE step[i][at[i - 1]]
  IN  at[MaxTransactions]

Passes == [book : Tables, left : Nat]
Requests == [book : Tables, source : Ids, units : Nat, excluded : Ids]

\* _restore_debt: returned units retire a debt; what it was funded with goes
\* back to the sources that funded it.
RestoreDebt(restore, b, d, units) ==
  LET unpaid == Lesser(units, b.debts[d])
      Refund == [s \in Ids |-> [at \in Passes |->
        LET amount == Lesser(at.left, at.book.fund[d][s])
            paidBack == [at.book EXCEPT !.fund[d][s] = @ - amount]
        IN  IF amount = 0 THEN at
            ELSE [book |-> restore[[book |-> paidBack, source |-> s, units |-> amount, excluded |-> d]],
                  left |-> at.left - amount]]]
      end == Walk(Refund, [book |-> [b EXCEPT !.debts[d] = @ - unpaid], left |-> units - unpaid])
  IN  [end.book EXCEPT !.ok = @ /\ end.left = 0]

\* The transactions that revoked the source and left a debt.
Revocations(source) == {d \in Posted : txns[d].ref = source /\ txns[d].alloc[Debt] > 0}

\* Mutated form: a return goes to its lot whatever was refunded.
RestoreSourceToLot(restore, b, source, units, excluded) == [b EXCEPT !.lots[source] = @ + units]

\* _restore_source: units that return to a source first retire the debts of
\* its revocations.
RestoreSource(restore, b, source, units, excluded) ==
  LET Retire == [d \in Ids |-> [at \in Passes |->
        LET amount == Lesser(at.left, at.book.debts[d] + Funded(at.book, d))
        IN  IF d \notin Revocations(source) \ {excluded} \/ amount = 0 THEN at
            ELSE [book |-> RestoreDebt(restore, at.book, d, amount), left |-> at.left - amount]]]
      end == Walk(Retire, [book |-> b, left |-> units])
  IN  [end.book EXCEPT !.lots[source] = @ + end.left, !.ok = @ /\ HasLot(source)]

\* The two call each other.  Each turn takes units from a funding, so that as
\* many turns as there are funded units are enough.
Unrestored == [x \in Requests |-> [x.book EXCEPT !.ok = FALSE]]
Restorer[n \in Nat] ==
  IF n = 0 THEN Unrestored
  ELSE [x \in Requests |-> RestoreSource(Restorer[n - 1], x.book, x.source, x.units, x.excluded)]
Turns(b) == 1 + Total([d \in Ids |-> Funded(b, d)])

-----------------------------------------------------------------------------
NewId == Len(txns) + 1

\* _append_once: the transaction, its debt and the wallet in one step.
Post(kind, units, ref, alloc, newBook) ==
  /\ NewId <= MaxTransactions
  /\ newBook.ok
  /\ txns' = Append(txns, [kind |-> kind, units |-> units, ref |-> ref, alloc |-> alloc])
  /\ book' = [newBook EXCEPT !.debts[NewId] = alloc[Debt]]
  /\ balanceUnits' = balanceUnits + units

\* A grant, a purchase or a positive adjustment: debts first, the rest a lot.
Grant(units) ==
  LET repaid == Lesser(units, Total(book.debts))
      funded == FundDebt(book, NewId, repaid)
  IN  /\ NewId <= MaxTransactions
      /\ Post("grant", units, 0, Nothing, [funded EXCEPT !.lots[NewId] = units - repaid])
      /\ UNCHANGED <<reservedUnits, booked, holds>>

\* The settlement of usage, which may overrun the wallet, or a negative
\* adjustment, which may not and is covered by the same steps.
Spend(units) ==
  LET alloc == Allocate(units)
  IN  /\ Post("spend", -units, 0, alloc,
              [book EXCEPT !.lots = [t \in Ids |-> book.lots[t] - alloc[t]]])
      /\ UNCHANGED <<reservedUnits, booked, holds>>

\* _reserve for running operations, and its release.
Reserve(units) ==
  /\ balanceUnits - reservedUnits >= units
  /\ booked' = booked + units
  /\ reservedUnits' = reservedUnits + units
  /\ UNCHANGED <<txns, balanceUnits, holds, book>>

Unreserve(units) ==
  /\ booked >= units
  /\ booked' = booked - units
  /\ reservedUnits' = reservedUnits - units
  /\ UNCHANGED <<txns, balanceUnits, holds, book>>

-----------------------------------------------------------------------------
Reversed(t) == Total([r \in Posted |-> IF txns[r].ref = t THEN txns[r].units ELSE 0])

\* _reversal_remaining
ReversalRemaining(t) == Size(txns[t].units) - Size(Reversed(t))

\* check_reversible for a credit: its lot still holds the units and no
\* reservation needs them.
Refundable(t, units) ==
  /\ HasLot(t) /\ units <= ReversalRemaining(t) /\ units <= book.lots[t]
  /\ balanceUnits - reservedUnits >= units

\* reverse() of a grant: an administrator's refund without an upstream request.
RefundGrant(t, units) ==
  /\ Refundable(t, units)
  /\ Post("refund", -units, t, Nothing, [book EXCEPT !.lots[t] = @ - units])
  /\ UNCHANGED <<reservedUnits, booked, holds>>

\* Mutated form: a second partial return starts at the first lot again.
SliceFromStart(t, units) == Drawn(txns[t].alloc, units)

\* The part of t's allocation that the next units of its reversal give back.
Slice(t, units) ==
  LET skip == Size(txns[t].units) - ReversalRemaining(t)
  IN  Minus(Drawn(txns[t].alloc, skip + units), Drawn(txns[t].alloc, skip))

\* The units of t's allocation go back to where they were taken from.
AfterReturn(t, back) ==
  LET Return == [i \in Ids |-> [b \in Tables |->
        IF back[i] = 0 THEN b
        ELSE Restorer[Turns(b)][[book |-> b, source |-> i, units |-> back[i], excluded |-> t]]]]
      lots == Walk(Return, book)
  IN  IF back[Debt] = 0 THEN lots
      ELSE RestoreDebt(Restorer[Turns(lots)], lots, t, back[Debt])

\* reverse() of usage.  Callers never reverse a reversal.
ReturnUsage(t, units) ==
  LET back == Slice(t, units)
  IN  /\ txns[t].kind = "spend" /\ units <= ReversalRemaining(t)
      /\ Total(back) = units
      /\ Post("return", units, t, Nothing, AfterReturn(t, back))
      /\ UNCHANGED <<reservedUnits, booked, holds>>

-----------------------------------------------------------------------------
\* hold_purchase_refund protects the units while the provider is asked.
HoldPurchaseRefund(t, units) ==
  /\ Len(holds) < MaxHolds
  /\ Refundable(t, units)
  /\ holds' = Append(holds, [txn |-> t, units |-> units, state |-> "active"])
  /\ book' = [book EXCEPT !.lots[t] = @ - units]
  /\ reservedUnits' = reservedUnits + units
  /\ UNCHANGED <<txns, balanceUnits, booked>>

Released(h) == [holds EXCEPT ![h].state = "released"]

\* release_purchase_refund: the refund was refused; the units come back and
\* fund the debts that arose meanwhile.
ReleasePurchaseRefund(h) ==
  LET t == holds[h].txn
      units == holds[h].units
      repaid == Lesser(units, Total(book.debts))
      funded == FundDebt(book, t, repaid)
  IN  /\ holds[h].state = "active" /\ funded.ok
      /\ book' = [funded EXCEPT !.lots[t] = @ + units - repaid]
      /\ holds' = Released(h)
      /\ reservedUnits' = reservedUnits - units
      /\ UNCHANGED <<txns, balanceUnits, booked>>

\* Mutated form: the reversal is posted, the hold stays.
FinalizeKeepingHold(h) ==
  /\ holds[h].state = "active"
  /\ holds[h].units <= ReversalRemaining(holds[h].txn)
  /\ Post("refund", -holds[h].units, holds[h].txn, Nothing, book)
  /\ reservedUnits' = reservedUnits - holds[h].units
  /\ UNCHANGED <<booked, holds>>

\* finalize_purchase_refund: the provider paid out; release without repaying
\* and reverse, even into debt.
FinalizePurchaseRefund(h) ==
  LET t == holds[h].txn
      units == holds[h].units
  IN  /\ holds[h].state = "active"
      /\ units <= ReversalRemaining(t)
      /\ Post("refund", -units, t, Nothing, book)
      /\ holds' = Released(h)
      /\ reservedUnits' = reservedUnits - units
      /\ UNCHANGED booked

\* reverse_external_purchase: the provider has already paid out; what is left
\* of the lot is taken, the rest becomes debt.
Revoke(t, units) ==
  LET unspent == Lesser(units, book.lots[t])
      alloc == [i \in Parts |-> IF i = t THEN unspent ELSE IF i = Debt THEN units - unspent ELSE 0]
  IN  /\ HasLot(t) /\ units <= ReversalRemaining(t)
      /\ Post("revocation", -units, t, alloc, [book EXCEPT !.lots[t] = @ - unspent])
      /\ UNCHANGED <<reservedUnits, booked, holds>>

LedgerNext ==
  \/ \E units \in Amounts : Grant(units) \/ Spend(units) \/ Reserve(units) \/ Unreserve(units)
  \/ \E t \in Posted, units \in Amounts :
       \/ RefundGrant(t, units)
       \/ ReturnUsage(t, units)
       \/ HoldPurchaseRefund(t, units)
       \/ Revoke(t, units)
  \/ \E h \in DOMAIN holds : ReleasePurchaseRefund(h) \/ FinalizePurchaseRefund(h)

LedgerSpec == LedgerInit /\ [][LedgerNext]_ledgerVars

-----------------------------------------------------------------------------
ActiveHolds == Total([h \in DOMAIN holds |-> IF holds[h].state = "active" THEN holds[h].units ELSE 0])
HeldOf(t) ==
  Total([h \in DOMAIN holds |->
           IF holds[h].state = "active" /\ holds[h].txn = t THEN holds[h].units ELSE 0])

\* reconcile_wallet reports the wallet as consistent after every sequence of
\* operations: no table has a negative amount, the balance is the ledger's sum and
\* is backed by lots and holds less debts, every reserved unit has an operation
\* or a hold.
Consistent ==
  /\ LedgerTypeOK
  /\ balanceUnits = Total([t \in Posted |-> txns[t].units])
  /\ reservedUnits = booked + ActiveHolds
  /\ balanceUnits = Total(book.lots) + ActiveHolds - Total(book.debts)

\* What is left of t's allocation after the returns of its usage so far.
Outstanding(t) == Minus(txns[t].alloc, Drawn(txns[t].alloc, Size(Reversed(t))))

\* Where the units of a credit are: its lot or a hold, debts it funded, usage
\* that was not returned, refunds, and revocations it or its returns covered.
InFunds(t) == Total([d \in Ids |-> book.fund[d][t]])
InUsage(t) == Total([s \in Posted |-> IF txns[s].kind = "spend" THEN Outstanding(s)[t] ELSE 0])
RefundsOf(t) == Total([r \in Posted |-> IF txns[r].kind = "refund" /\ txns[r].ref = t
                                        THEN Size(txns[r].units) ELSE 0])
CoveredOf(t) == Total([r \in Posted |->
                IF txns[r].kind = "revocation" /\ txns[r].ref = t
                  THEN Size(txns[r].units) - book.debts[r] - Funded(book, r) ELSE 0])

\* Every unit of a credit is in exactly one place, through any sequence of
\* returns, refunds and revocations (the provenance that _restore_source and
\* _restore_debt unwind); and the debt of usage that was not returned is either
\* outstanding or funded.
AccountedFor ==
  /\ \A t \in Posted : HasLot(t) =>
       txns[t].units = book.lots[t] + HeldOf(t) + InFunds(t) + InUsage(t) + RefundsOf(t) + CoveredOf(t)
  /\ \A s \in Posted : txns[s].kind = "spend" =>
       Outstanding(s)[Debt] = book.debts[s] + Funded(book, s)

\* Usage that was not returned yet can be returned in any parts: the tables hold
\* every unit that _restore_source and _restore_debt look for, and none of their
\* consistency checks raises.  The units of a released hold may fund a debt that
\* is younger than their purchase; while they do, the walk of _restore_debt can
\* come back to the debt it is refunding and find less than it counted on.
Chronological == \A d, s \in Ids : book.fund[d][s] > 0 => d < s
ReturnsComplete ==
  Chronological =>
    \A t \in Posted : txns[t].kind = "spend" =>
      \A units \in 1..ReversalRemaining(t) :
        LET back == Slice(t, units)
        IN  Total(back) = units /\ AfterReturn(t, back).ok

\* What _restore_source promises: usage returned after its purchase was
\* refunded does not resurrect the purchase as a lot.  (A hold that is
\* released after a revocation does put its own units back.)
NotResurrected ==
  \A t \in Posted :
    HasLot(t) /\ (\A h \in DOMAIN holds : holds[h].txn = t => holds[h].state = "active")
      => book.lots[t] <= ReversalRemaining(t)
=============================================================================
