-------------------------- MODULE ProductionReceipt --------------------------
(***************************************************************************)
(* One production run of a garment: deliveries counted into receipts        *)
(* (store/productionrun/productionrun_receipt.go), receipts reversed        *)
(* (productionrun_reversal.go), the run edited under its lock version       *)
(* (productionrun.go), and the accounting worker that posts every receipt   *)
(* to the ledger (acctposting/pull.go, accounting/production.go).           *)
(*                                                                         *)
(* The run has one plan line.  Status "open" stands for planned and         *)
(* in_progress, which every guard treats alike.  A receipt's reversal row   *)
(* is the "reversed" state of the receipt.  NULL amounts are 0: the code    *)
(* only sums them.  Money is in cents.                                      *)
(***************************************************************************)
EXTENDS Integers, FiniteSets, Functions

CONSTANTS
    MaxReceipts,            \* bound on the receipts of the run
    Deliveries,             \* what an operator may count: good, scrap, seconds
    Planned,                \* planned_qty of the line
    IssueValue,             \* value of one material issue
    MaxIssues,              \* bound on the issues outstanding
    Costs,                  \* totals of the run's costed manual articles
    Counts,                 \* counters a save may carry: received and defect
    LossNum, LossDen,       \* defect_normal_loss_rate, as a fraction
    receiptDeadLetterAttempts,
    MaxDisturbances         \* bound on what disturbs receiving and posting

Ids == 1..MaxReceipts

Delivery == [good : Nat, scrap : Nat, seconds : Nat]
Nothing == [good |-> 0, scrap |-> 0, seconds |-> 0]

ASSUME ReceiptAssumption ==
    /\ MaxReceipts \in Nat \ {0} /\ Deliveries \subseteq Delivery \ {Nothing}
    /\ {Planned, IssueValue, MaxIssues, LossNum} \subseteq Nat
    /\ LossDen \in Nat \ {0}
    /\ Costs \subseteq Nat /\ 0 \in Costs
    /\ Counts \subseteq Nat \X Nat
    /\ receiptDeadLetterAttempts \in Nat \ {0}
    /\ MaxDisturbances \in Nat

VARIABLES
    status,         \* production_run.status
    manual,         \* production_run_cost: the costed total
    issued,         \* material issued to the run and not returned, in issues
    rollup,         \* production_run_line: received_qty and defect_qty
    receipt,        \* production_run_receipt with its lines, per receipt id
    entry,          \* the receipt's unreversed production_receive entry
    comp,           \* the compensation its reversal posted
    shelf,          \* product stock: grade A and grade B
    costClaim,      \* the product's cost_price is claimed by this run
    form,           \* an admin's open edit form of the run
    built,          \* the entry the worker built and has yet to post
    count           \* what happened so far: sales, material moves, forms, entry
                    \* reversals, restarts, and the highest the manual costs came to

runVars == <<status, manual, issued, rollup, costClaim>>
ledgerVars == <<entry, comp>>
vars == <<runVars, receipt, ledgerVars, shelf, form, built, count>>

Absent == [counted |-> Nothing, state |-> "absent", final |-> FALSE,
           posting |-> "pending", attempts |-> 0, manual |-> 0, fg |-> 0, unitCost |-> 0]
NoEntry == [manual |-> 0, fg |-> 0, writeOff |-> 0]
NoForm == [open |-> FALSE, fresh |-> FALSE]
NothingBuilt == [of |-> 0, lines |-> NoEntry]

Posted == {i \in Ids : receipt[i].state # "absent"}
Live == {i \in Ids : receipt[i].state = "live"}
LiveFinals == {i \in Live : receipt[i].final}

Good(i) == receipt[i].counted.good
Scrap(i) == receipt[i].counted.scrap
Seconds(i) == receipt[i].counted.seconds
Defects(i) == Scrap(i) + Seconds(i)
Units(i) == Good(i) + Scrap(i) + Seconds(i)

Sum(f(_), S) == SumFunctionOnSet([i \in Ids |-> f(i)], S)

Init ==
    /\ status = "open" /\ manual \in Costs /\ issued \in 0..MaxIssues /\ rollup \in Counts
    /\ receipt = [i \in Ids |-> Absent]
    /\ entry = [i \in Ids |-> NoEntry]
    /\ comp = [i \in Ids |-> NoEntry]
    /\ shelf = [A |-> 0, B |-> 0] /\ costClaim = FALSE /\ form = NoForm
    /\ built = NothingBuilt
    /\ count = [sold |-> 0, moves |-> 0, forms |-> 0, entryReversals |-> 0, restarts |-> 0, peak |-> manual]

-----------------------------------------------------------------------------
(* The run: its materials, its edit form, its sales. *)

Disturbable ==
    count.sold + count.moves + count.forms + count.entryReversals + count.restarts
        < MaxDisturbances

RunOpen == status \in {"open", "partially_received"}

\* Every command on the run moves lock_version; a form opened before it is stale.
BumpLockVersion == form' = [form EXCEPT !.fresh = FALSE]

IssueMaterial ==
    /\ RunOpen /\ issued < MaxIssues /\ Disturbable
    /\ issued' = issued + 1
    /\ count' = [count EXCEPT !.moves = @ + 1]
    /\ UNCHANGED <<status, manual, rollup, costClaim, receipt, ledgerVars, shelf,
                   form, built>>

ReturnMaterial ==
    /\ RunOpen /\ issued > 0 /\ Disturbable
    /\ issued' = issued - 1
    /\ count' = [count EXCEPT !.moves = @ + 1]
    /\ UNCHANGED <<status, manual, rollup, costClaim, receipt, ledgerVars, shelf,
                   form, built>>

OpenForm ==
    /\ ~form.open /\ Disturbable
    /\ form' = [open |-> TRUE, fresh |-> TRUE]
    /\ count' = [count EXCEPT !.forms = @ + 1]
    /\ UNCHANGED <<runVars, receipt, ledgerVars, shelf, built>>

\* A received run may only be closed, and nothing but its status is written.
CloseReceivedRun ==
    /\ status = "received" /\ issued = 0
    /\ status' = "closed"
    /\ UNCHANGED <<manual, rollup>>

\* Mutant: the counters of the save replace those of the receipts.
ReplaceCounters(s, m, c) ==
    /\ status \notin {"received", "closed"} /\ s # "received"
    /\ s = "partially_received" => status = s
    /\ status = "partially_received" => s \notin {"cancelled", "closed"}
    /\ s \in {"cancelled", "closed"} => issued = 0
    /\ status' = s /\ manual' = m /\ rollup' = c

\* The form replaces the run: the status as the guards allow, the cost articles,
\* and, unless a live receipt owns them, the counters with what the operator
\* typed.
ReplaceRun(s, m, c) ==
    /\ status \notin {"received", "closed"} /\ s # "received"
    /\ s = "partially_received" => status = s
    /\ status = "partially_received" => s \notin {"cancelled", "closed"}
    /\ s \in {"cancelled", "closed"} => issued = 0
    /\ status' = s /\ manual' = m
    /\ rollup' = IF Live = {} THEN c ELSE rollup

\* A save is held to the lock version its form was opened with if it sends one;
\* a save without it overwrites whatever happened since.
UpdateProductionRun(versionSent) ==
    /\ form.open /\ (versionSent => form.fresh)
    /\ \/ CloseReceivedRun
       \/ \E s \in {"open", "partially_received", "cancelled", "closed"}, m \in Costs,
            c \in Counts : ReplaceRun(s, m, c)
    /\ form' = NoForm
    /\ count' = [count EXCEPT !.peak = IF manual' > @ THEN manual' ELSE @]
    /\ UNCHANGED <<issued, costClaim, receipt, ledgerVars, shelf, built>>

\* A stale version is refused (ErrProductionRunConflict); the admin reloads.
UpdateConflicts ==
    /\ form.open /\ ~form.fresh
    /\ form' = NoForm
    /\ UNCHANGED <<runVars, receipt, ledgerVars, shelf, built, count>>

SellUnit ==
    /\ shelf.A > 0 /\ Disturbable
    /\ shelf' = [shelf EXCEPT !.A = @ - 1]
    /\ count' = [count EXCEPT !.sold = @ + 1]
    /\ UNCHANGED <<runVars, receipt, ledgerVars, form, built>>

-----------------------------------------------------------------------------
(* The value of the run's work in progress, split by its counted units. *)

\* decimal.Round: half a cent goes away from zero.
RoundDiv(n, d) == IF n < 0 THEN -((d - 2 * n) \div (2 * d)) ELSE (2 * n + d) \div (2 * d)

AtLeastZero(n) == IF n > 0 THEN n ELSE 0
Least(m, n) == IF m < n THEN m ELSE n

\* Scrap beyond the normal allowance of the units received.
Abnormal(scrap, received) == AtLeastZero(scrap - (received * LossNum) \div LossDen)

\* The write-off of a closed series: the abnormal share, at most what is left.
WriteOff(total, left, scrap, received) ==
    Least(RoundDiv(total * Abnormal(scrap, received), received), AtLeastZero(left))

\* decimal.RoundBank: half a cent goes to the even cent.
RoundBank(n, d) ==
    LET q == n \div d
        r == 2 * (n % d)
    IN  IF r > d \/ (r = d /\ q % 2 = 1) THEN q + 1 ELSE q

\* There is a cost source: an article, or material that was issued.
CostKnown == manual > 0 \/ issued > 0 \/ count.moves > 0

\* Mutant: the scrap the ledger writes off stays in the cost price.
GrossUnitCost(d) ==
    LET good == rollup[1] + d.good
    IN  IF good = 0 THEN 0 ELSE RoundBank(issued * IssueValue + manual, good)

\* The unit cost a final receipt d freezes: the run's cost without the abnormal
\* scrap the ledger will write off, over its good units.
UnitCost(d) ==
    LET good == rollup[1] + d.good
        received == good + rollup[2] + d.scrap + d.seconds
        total == issued * IssueValue + manual
        FgClaim(i) == receipt[i].fg
        lost == Least(total * Abnormal(Sum(Scrap, Live) + d.scrap, received),
                      AtLeastZero(total - Sum(FgClaim, Ids)) * received)
    IN  IF good = 0 THEN 0 ELSE RoundBank(total * received - lost, received * good)

-----------------------------------------------------------------------------
(* The receipt commands. *)

NextId == Cardinality(Posted) + 1

StatusAfter(final) == IF final THEN "received" ELSE "partially_received"

PostProductionRunReceipt(d, final, seed) ==
    /\ RunOpen /\ NextId \in Ids
    /\ d = Nothing => final /\ status = "partially_received"
    /\ receipt' = [receipt EXCEPT ![NextId] =
            [Absent EXCEPT !.counted = d, !.state = "live", !.final = final,
                           !.unitCost = IF final THEN UnitCost(d) ELSE 0]]
    /\ rollup' = <<rollup[1] + d.good, rollup[2] + d.scrap + d.seconds>>
    /\ shelf' = [A |-> shelf.A + d.good, B |-> shelf.B + d.seconds]
    /\ costClaim' = (costClaim \/ (final /\ seed /\ CostKnown /\ rollup'[1] > 0))
    /\ status' = StatusAfter(final)
    /\ BumpLockVersion
    /\ UNCHANGED <<manual, issued, ledgerVars, built, count>>

\* Mutant: units already sold are taken back too.
SoldOrNot(i) == i \in Ids

\* Stock goes back out only if every unit is still on the shelf.
InStock(i) == shelf.A >= Good(i) /\ shelf.B >= Seconds(i)

\* Mutant: partials may be reversed under a live final.
AnyOrder(i) == i \in Live

\* Reversals unwind newest-first: no partial while a final is live.
NewestFirst(i) == receipt[i].final \/ LiveFinals = {}

\* Mutant: reversed siblings count as stocking the product.
EverStocked(i) == \E j \in Posted \ {i} : Good(j) > 0

\* A live sibling still stocks the product.
StillStocked(i) == \E j \in Live \ {i} : Good(j) > 0

\* Mutant: a run whose final went stays received.
KeepStatus(live) == IF live = {} THEN "open" ELSE status

\* What is still live decides the run's status after a reversal.
RecomputedStatus(live) ==
    CASE \E i \in live : receipt[i].final -> status
      [] live = {} -> "open"
      [] OTHER -> "partially_received"

\* The scoped compensation: never beyond the claim siblings have been reading.
Compensation(i) ==
    [manual |-> 0, fg |-> Least(entry[i].fg, receipt[i].fg), writeOff |-> entry[i].writeOff]

\* Mutant: a receipt may be reversed again.
ReversibleAgain(i) == status # "closed" /\ i \in Posted

\* A closed run refuses, and so does a receipt that was reversed.
Reversible(i) == status # "closed" /\ i \in Live

ReverseProductionRunReceipt(i) ==
    /\ Reversible(i)
    /\ NewestFirst(i) /\ InStock(i)
    /\ shelf' = [A |-> shelf.A - Good(i), B |-> shelf.B - Seconds(i)]
    /\ rollup' = <<rollup[1] - Good(i), rollup[2] - Scrap(i) - Seconds(i)>>
    /\ comp' = [comp EXCEPT ![i] = Compensation(i)]
    /\ receipt' = [receipt EXCEPT ![i].state = "reversed", ![i].fg = 0]
    /\ costClaim' = (costClaim /\ (Good(i) > 0 => StillStocked(i)))
    /\ status' = RecomputedStatus(Live \ {i})
    /\ BumpLockVersion
    /\ UNCHANGED <<manual, issued, entry, built, count>>

-----------------------------------------------------------------------------
(* The worker takes the unposted receipts one by one.  A failed one is passed *)
(* over until the next tick, so any order is possible.                      *)

\* ListUnpostedReceipts.
Unposted(i) ==
    i \in Live /\ receipt[i].posting # "dead_letter" /\ entry[i] = NoEntry

\* Mutant: the unit aggregates' filter applied to the money.
OtherLiveManual(i) == LET Claim(j) == receipt[j].manual IN Sum(Claim, Live \ {i})

\* What the run's other receipts claim, reversed ones included.
OtherManual(i) == LET Claim(j) == receipt[j].manual IN Sum(Claim, Ids \ {i})
OtherFg(i) == LET Claim(j) == receipt[j].fg IN Sum(Claim, Ids \ {i})

\* Everything that ever entered the run's WIP, this receipt's delta included.
TotalWip(i) ==
    issued * IssueValue + (IF manual > OtherManual(i) THEN manual ELSE OtherManual(i))

FinalLines(i) ==
    LET left == TotalWip(i) - OtherFg(i)
        received == Sum(Units, Live)
        lost == IF Sum(Good, Live) = 0 THEN AtLeastZero(left)
                ELSE WriteOff(TotalWip(i), left, Sum(Scrap, Live), received)
    IN  [fg |-> left - lost, writeOff |-> lost]

PartialLines(i) ==
    LET received == Sum(Units, Live)
        target == RoundDiv(TotalWip(i) * Sum(Good, Live), received)
        expected == Planned - (received - Units(i))
        over == IF expected < Units(i) THEN Units(i) ELSE expected
        share == RoundDiv((TotalWip(i) - OtherFg(i)) * Good(i), over)
    IN  [fg |-> IF Sum(Good, Live) = 0 THEN 0 ELSE Least(share, target - OtherFg(i)),
         writeOff |-> 0]

\* BuildProductionReceiveEntry without its caveats: a negative transfer is not
\* representable and books nothing.
BuildProductionReceiveEntry(i) ==
    LET moved == IF receipt[i].final THEN FinalLines(i) ELSE PartialLines(i)
    IN  [manual |-> AtLeastZero(manual - OtherManual(i)),
         fg |-> AtLeastZero(moved.fg), writeOff |-> moved.writeOff]

\* Facts and entry are read on the pool.  A receipt with nothing to post stays
\* pending and is built again on the next tick.
BuildReceipt(i) ==
    /\ built.of = 0 /\ Unposted(i) /\ BuildProductionReceiveEntry(i) # NoEntry
    /\ built' = [of |-> i, lines |-> BuildProductionReceiveEntry(i)]
    /\ UNCHANGED <<runVars, receipt, ledgerVars, shelf, form, count>>

\* Mutant: the entry is posted without looking at the receipt again.
PostUnlocked(i) ==
    /\ built.of = i
    /\ entry' = [entry EXCEPT ![i] = built.lines]
    /\ receipt' = [receipt EXCEPT ![i].posting = "posted", ![i].attempts = 0,
                       ![i].manual = built.lines.manual, ![i].fg = built.lines.fg]
    /\ built' = NothingBuilt
    /\ UNCHANGED <<runVars, comp, shelf, form, count>>

\* The posting transaction locks the receipt row first: a receipt reversed since
\* the facts were loaded posts nothing.
PostReceipt(i) ==
    /\ built.of = i
    /\ IF receipt[i].state = "reversed"
       THEN UNCHANGED <<entry, receipt>>
       ELSE /\ entry' = [entry EXCEPT ![i] = built.lines]
            /\ receipt' = [receipt EXCEPT ![i].posting = "posted", ![i].attempts = 0,
                               ![i].manual = built.lines.manual, ![i].fg = built.lines.fg]
    /\ built' = NothingBuilt
    /\ UNCHANGED <<runVars, comp, shelf, form, count>>

RecordReceiptPostingFailure(i) ==
    receipt' = [receipt EXCEPT ![i].attempts = @ + 1,
        ![i].posting = IF receipt[i].attempts + 1 >= receiptDeadLetterAttempts
                       THEN "dead_letter" ELSE @]

\* Loading the facts or posting fails: the attempt is recorded on the pool.
PostingFails(i) ==
    /\ built.of = i \/ (built.of = 0 /\ Unposted(i))
    /\ RecordReceiptPostingFailure(i)
    /\ built' = NothingBuilt
    /\ UNCHANGED <<runVars, ledgerVars, shelf, form, count>>

WorkerRestarts ==
    /\ built.of # 0 /\ Disturbable
    /\ built' = NothingBuilt
    /\ count' = [count EXCEPT !.restarts = @ + 1]
    /\ UNCHANGED <<runVars, receipt, ledgerVars, shelf, form>>

\* An accountant reverses a whole entry: its mirror is posted and the receipt's
\* claims are cleared.  Refused once the receipt itself was reversed.
ReverseJournalEntry(i) ==
    /\ entry[i] # NoEntry /\ i \in Live /\ Disturbable
    /\ entry' = [entry EXCEPT ![i] = NoEntry]
    /\ receipt' = [receipt EXCEPT ![i].manual = 0, ![i].fg = 0]
    /\ count' = [count EXCEPT !.entryReversals = @ + 1]
    /\ UNCHANGED <<runVars, comp, shelf, form, built>>

-----------------------------------------------------------------------------
RunNext ==
    \/ IssueMaterial \/ ReturnMaterial \/ SellUnit
    \/ OpenForm \/ UpdateConflicts
    \/ \E versionSent \in BOOLEAN : UpdateProductionRun(versionSent)
    \/ \E d \in Deliveries \cup {Nothing}, final, seed \in BOOLEAN :
          PostProductionRunReceipt(d, final, seed)
    \/ \E i \in Ids : ReverseProductionRunReceipt(i) \/ ReverseJournalEntry(i)

Posting(i) == BuildReceipt(i) \/ PostReceipt(i) \/ PostingFails(i)

Next == RunNext \/ (\E i \in Ids : Posting(i)) \/ WorkerRestarts

Spec == Init /\ [][Next]_vars

-----------------------------------------------------------------------------
(* Properties. *)

Statuses == {"open", "partially_received", "received", "closed", "cancelled"}
Lines == [manual : Nat, fg : Nat, writeOff : Nat]
Receipts ==
    [counted : Delivery, state : {"absent", "live", "reversed"}, final : BOOLEAN,
     posting : {"pending", "posted", "dead_letter"}, attempts : Nat, manual : Nat, fg : Nat,
     unitCost : Nat]

\* The shape of the state; stock and the run's counters never go below zero.
ReceiptTypeOK ==
    /\ status \in Statuses /\ manual \in Costs /\ issued \in 0..MaxIssues
    /\ rollup \in Nat \X Nat /\ shelf \in [A : Nat, B : Nat] /\ costClaim \in BOOLEAN
    /\ receipt \in [Ids -> Receipts]
    /\ entry \in [Ids -> Lines] /\ comp \in [Ids -> Lines]
    /\ form \in [open : BOOLEAN, fresh : BOOLEAN]
    /\ built \in [of : Ids \cup {0}, lines : Lines]
    /\ count \in [sold : Nat, moves : Nat, forms : Nat, entryReversals : Nat, restarts : Nat, peak : Nat]

\* The product's stock is what the live receipts counted, less what was sold, and
\* the counters of the plan line hold at least that: whatever was edited, sold or
\* reversed in between, a receipt's units are stocked once and counted once
\* (units_receipts_vs_stock_journal in runReconciliation).
UnitsTellReceipts ==
    /\ shelf.A + count.sold = Sum(Good, Live) /\ rollup[1] >= shelf.A + count.sold
    /\ shelf.B = Sum(Seconds, Live)
    /\ rollup[2] >= Sum(Defects, Live)

\* What the counters hold that no live receipt counted: an operator typed it.
Typed == <<rollup[1] - Sum(Good, Live), rollup[2] - Sum(Defects, Live)>>

\* While a receipt is live the counters move with the receipts and with nothing
\* else: what was typed into them before the first receipt stays in them through
\* every receipt, reversal and save, and only a save that finds no live receipt
\* changes it (the overlay in updateProductionRun against the accumulation of
\* PostProductionRunReceipt and the subtraction of its reversal).
ReceiptsOwnCounters ==
    [][(rollup' # rollup \/ receipt' # receipt) /\ Live \cup Live' # {} => Typed' = Typed]_vars

\* A receipt's claims are what its entry holds in the ledger net of its
\* compensation, and a reversed receipt has no finished goods left: the worker
\* and a reversal never both have their way with one receipt.
ClaimsMatchLedger ==
    \A i \in Ids :
        /\ receipt[i].manual = entry[i].manual
        /\ receipt[i].fg = entry[i].fg - comp[i].fg
        /\ receipt[i].state = "reversed" =>
               receipt[i].fg = 0 /\ comp[i].writeOff = entry[i].writeOff
        /\ receipt[i].state = "live" => comp[i] = NoEntry

\* The supplier's invoices are capitalised once over all receipts, reversed
\* ones included: never more than the cost articles came to at their highest.
CapitalisedOnce ==
    LET Capitalised(i) == entry[i].manual IN Sum(Capitalised, Ids) <= count.peak

\* At most one final receipt is live, while it is the run is received or closed,
\* and a received run has it.
FinalClosesRun ==
    /\ Cardinality(LiveFinals) <= 1
    /\ LiveFinals # {} => status \in {"received", "closed"}
    /\ status = "received" => LiveFinals # {}

Earned == costClaim => \E i \in Live : Good(i) > 0

\* The run's claim on the product's cost price rests on goods it delivered: no
\* receipt, reversal or save makes or leaves a claim without a live receipt of
\* good units, unless good units were typed into the counters, which the
\* valuation takes for received (seedIDs and clearing in the reversal).
CostPriceEarned == [][Earned /\ ~Earned' => Typed'[1] > 0]_vars

Wip ==
    LET Moved(i) == entry[i].manual - entry[i].fg - entry[i].writeOff
                    + comp[i].fg + comp[i].writeOff
    IN  issued * IssueValue + Sum(Moved, Ids)

\* Once the final receipt of a series is posted none of its cost is left in work
\* in progress, however the partials were split, rounded, reversed or delayed;
\* and unless material went back after a partial was posted, no more was taken
\* out than rounding makes of it: a cent for each receipt.
NothingStrandsInWip ==
    (count.entryReversals = 0 /\ \E f \in LiveFinals : entry[f] # NoEntry)
        => Wip <= 0 /\ (count.moves = 0 => Wip >= -Cardinality(Posted))

\* The cost price frozen by the final receipt is covered by the finished goods in
\* the ledger: selling the whole series drains 1130 at most by the roundings, half
\* a cent for each unit and for the write-off, even if partials were pending when
\* it was frozen and posted later.  Units typed into the counters are valued
\* with the series and are no part of the ledger's.
CostPriceCovered ==
    LET Fg(i) == entry[i].fg - comp[i].fg
        good == Sum(Good, Live)
    IN  \A f \in LiveFinals :
            (entry[f] # NoEntry /\ count.entryReversals = 0 /\ Typed = <<0, 0>>) =>
                2 * receipt[f].unitCost * good <= 2 * Sum(Fg, Ids) + good + 1
=============================================================================
