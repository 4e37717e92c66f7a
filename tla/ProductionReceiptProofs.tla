---------------------- MODULE ProductionReceiptProofs ----------------------
(***************************************************************************)
(* Proofs about ProductionReceipt: units, claims and capital of a run, its  *)
(* status, its work in progress and the cost price it sets.                 *)
(***************************************************************************)
EXTENDS ProductionReceipt, SumTheorems

(***************************************************************************)
(* Types and sums                                                          *)
(***************************************************************************)
\* What the assumption says of the constants.
LEMMA ConstantTypes ==
    /\ MaxReceipts \in Nat \ {0}
    /\ Planned \in Nat /\ IssueValue \in Nat /\ MaxIssues \in Nat /\ LossNum \in Nat
    /\ LossDen \in Nat \ {0}
    /\ Costs \subseteq Nat /\ Counts \subseteq Nat \X Nat
    /\ Deliveries \cup {Nothing} \subseteq Delivery
BY ReceiptAssumption DEF Nothing, Delivery

\* The ids are finitely many positive numbers.
LEMMA IdsFinite ==
    /\ IsFiniteSet(Ids)
    /\ \A i \in Ids : i \in Nat \ {0}
<1>1. IsFiniteSet(1 .. MaxReceipts)
    BY ConstantTypes, FS_Interval
<1>. QED
    BY <1>1, ConstantTypes DEF Ids

\* The live receipts are finitely many.
LEMMA LiveFinite == Live \subseteq Ids /\ IsFiniteSet(Live)
<1>1. Live \subseteq Ids
    BY DEF Live
<1>. QED
    BY <1>1, IdsFinite, FS_Subset

\* The types of one receipt and its entries.
LEMMA Types ==
    ASSUME ReceiptTypeOK, NEW i \in Ids
    PROVE  /\ receipt[i] \in Receipts
           /\ receipt[i].counted \in Delivery
           /\ Good(i) \in Nat /\ Scrap(i) \in Nat /\ Seconds(i) \in Nat
           /\ receipt[i].manual \in Nat /\ receipt[i].fg \in Nat
           /\ receipt[i].final \in BOOLEAN
           /\ entry[i] \in Lines /\ comp[i] \in Lines
           /\ entry[i].manual \in Nat /\ entry[i].fg \in Nat /\ entry[i].writeOff \in Nat
           /\ comp[i].manual \in Nat /\ comp[i].fg \in Nat /\ comp[i].writeOff \in Nat
<1>1. receipt[i] \in Receipts /\ entry[i] \in Lines /\ comp[i] \in Lines
    BY DEF ReceiptTypeOK
<1>2. receipt[i].counted \in Delivery
    BY <1>1 DEF Receipts
<1>3. Good(i) \in Nat /\ Scrap(i) \in Nat /\ Seconds(i) \in Nat
    BY <1>2 DEF Delivery, Good, Scrap, Seconds
<1>. QED
    BY <1>1, <1>2, <1>3 DEF Receipts, Lines

\* The functions the model sums.
GoodOf == [i \in Ids |-> Good(i)]
ScrapOf == [i \in Ids |-> Scrap(i)]
SecondsOf == [i \in Ids |-> Seconds(i)]
DefectsOf == [i \in Ids |-> Scrap(i) + Seconds(i)]
UnitsOf == [i \in Ids |-> Units(i)]
ManualOf == [i \in Ids |-> receipt[i].manual]
FgOf == [i \in Ids |-> receipt[i].fg]

\* They are functions into the naturals.
LEMMA FunctionTypes ==
    ASSUME ReceiptTypeOK
    PROVE  /\ GoodOf \in [Ids -> Nat] /\ ScrapOf \in [Ids -> Nat]
           /\ SecondsOf \in [Ids -> Nat] /\ DefectsOf \in [Ids -> Nat]
           /\ UnitsOf \in [Ids -> Nat]
           /\ ManualOf \in [Ids -> Nat] /\ FgOf \in [Ids -> Nat]
BY Types DEF GoodOf, ScrapOf, SecondsOf, DefectsOf, UnitsOf, ManualOf, FgOf, Units

\* A sum of naturals over some of the ids is a natural, and no smaller than any
\* of them.
LEMMA SumOverIds ==
    ASSUME NEW f \in [Ids -> Nat], NEW S \in SUBSET Ids
    PROVE  /\ IsFiniteSet(S)
           /\ SumFunctionOnSet(f, S) \in Nat
           /\ \A i \in S : f[i] <= SumFunctionOnSet(f, S)
<1>1. IsFiniteSet(S)
    BY IdsFinite, FS_Subset
<1>. QED
    BY <1>1, SumNat

\* A sum over a set that gains an id.
LEMMA SumGains ==
    ASSUME NEW f \in [Ids -> Nat], NEW g \in [Ids -> Nat], NEW S \in SUBSET Ids,
           NEW n \in Ids, n \notin S, \A i \in S : g[i] = f[i]
    PROVE  SumFunctionOnSet(g, S \cup {n}) = SumFunctionOnSet(f, S) + g[n]
<1>1. IsFiniteSet(S)
    BY SumOverIds
<1>2. SumFunctionOnSet(g, S \cup {n}) = g[n] + SumFunctionOnSet(g, S)
    BY <1>1, SumAdd
<1>3. SumFunctionOnSet(g, S) = SumFunctionOnSet(f, S)
    BY <1>1, SumEqual
<1>. QED
    BY <1>2, <1>3, SumOverIds

\* A sum over a set that loses an id.
LEMMA SumLoses ==
    ASSUME NEW f \in [Ids -> Nat], NEW g \in [Ids -> Nat], NEW S \in SUBSET Ids,
           NEW n \in S, \A i \in S \ {n} : g[i] = f[i]
    PROVE  SumFunctionOnSet(g, S \ {n}) = SumFunctionOnSet(f, S) - f[n]
<1>1. IsFiniteSet(S) /\ IsFiniteSet(S \ {n})
    BY SumOverIds
<1>2. SumFunctionOnSet(f, S) = f[n] + SumFunctionOnSet(f, S \ {n})
    BY <1>1, SumRemove
<1>3. SumFunctionOnSet(g, S \ {n}) = SumFunctionOnSet(f, S \ {n})
    BY <1>1, SumEqual
<1>. QED
    BY <1>2, <1>3, SumOverIds

\* A sum whose functions agree.
LEMMA SumSame ==
    ASSUME NEW f \in [Ids -> Nat], NEW g \in [Ids -> Nat], NEW S \in SUBSET Ids,
           \A i \in S : g[i] = f[i]
    PROVE  SumFunctionOnSet(g, S) = SumFunctionOnSet(f, S)
BY SumOverIds, SumEqual

\* A positive sum has a positive member.
LEMMA SumPositive ==
    ASSUME NEW f \in [Ids -> Nat], NEW S \in SUBSET Ids, SumFunctionOnSet(f, S) > 0
    PROVE  \E i \in S : f[i] > 0
BY SumOverIds, SumZero
(***************************************************************************)
(* Roundings                                                               *)
(***************************************************************************)
\* A product of naturals is one, and grows with its factors.
LEMMA Products ==
    ASSUME NEW a \in Nat, NEW b \in Nat, NEW c \in Nat
    PROVE  /\ a * b \in Nat
           /\ a <= b => a * c <= b * c /\ c * a <= c * b
OBVIOUS

\* RoundDiv is off by half a unit at most.
LEMMA RoundDivNat ==
    ASSUME NEW n \in Nat, NEW d \in Nat \ {0}
    PROVE  /\ RoundDiv(n, d) \in Nat
           /\ 2 * d * RoundDiv(n, d) <= 2 * n + d
           /\ 2 * n < 2 * d * RoundDiv(n, d) + d
BY DEF RoundDiv

\* RoundBank is, too.
LEMMA RoundBankNat ==
    ASSUME NEW n \in Nat, NEW d \in Nat \ {0}
    PROVE  /\ RoundBank(n, d) \in Nat
           /\ 2 * d * RoundBank(n, d) <= 2 * n + d
BY DEF RoundBank

\* The abnormal scrap is part of the scrap.
LEMMA AbnormalNat ==
    ASSUME NEW scrap \in Nat, NEW received \in Nat
    PROVE  /\ Abnormal(scrap, received) \in Nat
           /\ Abnormal(scrap, received) <= scrap
<1>1. received * LossNum \in Nat
    BY ConstantTypes, Products
<1>2. (received * LossNum) \div LossDen \in Nat
    BY <1>1, ConstantTypes
<1>. QED
    BY <1>2 DEF Abnormal, AtLeastZero

(***************************************************************************)
(* The sums of a state                                                     *)
(***************************************************************************)
LiveGood == SumFunctionOnSet(GoodOf, Live)
LiveScrap == SumFunctionOnSet(ScrapOf, Live)
LiveSeconds == SumFunctionOnSet(SecondsOf, Live)
LiveDefects == SumFunctionOnSet(DefectsOf, Live)
LiveUnits == SumFunctionOnSet(UnitsOf, Live)
AllManual == SumFunctionOnSet(ManualOf, Ids)
AllFg == SumFunctionOnSet(FgOf, Ids)

\* The sums are naturals, and the units are their sum.
LEMMA SumTypes ==
    ASSUME ReceiptTypeOK
    PROVE  /\ LiveGood \in Nat /\ LiveScrap \in Nat /\ LiveSeconds \in Nat
           /\ LiveDefects \in Nat /\ LiveUnits \in Nat
           /\ AllManual \in Nat /\ AllFg \in Nat
           /\ LiveDefects = LiveScrap + LiveSeconds
           /\ LiveUnits = LiveGood + LiveScrap + LiveSeconds
<1>1. /\ LiveGood \in Nat /\ LiveScrap \in Nat /\ LiveSeconds \in Nat
      /\ LiveDefects \in Nat /\ LiveUnits \in Nat
      /\ AllManual \in Nat /\ AllFg \in Nat
    BY FunctionTypes, LiveFinite, SumOverIds
       DEF LiveGood, LiveScrap, LiveSeconds, LiveDefects, LiveUnits, AllManual, AllFg
<1>2. LiveDefects = LiveScrap + LiveSeconds
    <2>1. \A i \in Live : /\ ScrapOf[i] \in Int /\ SecondsOf[i] \in Int
                          /\ DefectsOf[i] = ScrapOf[i] + SecondsOf[i]
        BY Types, LiveFinite DEF ScrapOf, SecondsOf, DefectsOf
    <2>. QED
        BY <2>1, LiveFinite, SumPlus DEF LiveDefects, LiveScrap, LiveSeconds
<1>3. LiveUnits = LiveGood + LiveDefects
    <2>1. \A i \in Live : /\ GoodOf[i] \in Int /\ DefectsOf[i] \in Int
                          /\ UnitsOf[i] = GoodOf[i] + DefectsOf[i]
        BY Types, LiveFinite DEF GoodOf, DefectsOf, UnitsOf, Units
    <2>. QED
        BY <2>1, LiveFinite, SumPlus DEF LiveUnits, LiveGood, LiveDefects
<1>. QED
    BY <1>1, <1>2, <1>3

\* UnitsTellReceipts, in their terms.
LEMMA UnitsToldBySums ==
    UnitsTellReceipts <=>
        /\ rollup[1] >= LiveGood /\ rollup[2] >= LiveDefects
        /\ shelf.A + count.sold = LiveGood
        /\ shelf.B = LiveSeconds
<1>1. /\ Sum(Good, Live) = LiveGood /\ Sum(Seconds, Live) = LiveSeconds
      /\ Sum(Defects, Live) = LiveDefects
    BY DEF Sum, Defects, GoodOf, DefectsOf, SecondsOf, LiveGood, LiveDefects, LiveSeconds
<1>. QED
    BY <1>1 DEF UnitsTellReceipts

\* What was typed into the counters, in their terms.
LEMMA TypedBySums == Typed = <<rollup[1] - LiveGood, rollup[2] - LiveDefects>>
BY DEF Typed, Sum, Defects, GoodOf, DefectsOf, LiveGood, LiveDefects

\* The claims of the other receipts.
LEMMA OthersClaims ==
    ASSUME ReceiptTypeOK, NEW i \in Ids
    PROVE  /\ OtherManual(i) \in Nat /\ OtherFg(i) \in Nat
           /\ AllManual = OtherManual(i) + receipt[i].manual
           /\ AllFg = OtherFg(i) + receipt[i].fg
<1>1. /\ OtherManual(i) = SumFunctionOnSet(ManualOf, Ids \ {i})
      /\ OtherFg(i) = SumFunctionOnSet(FgOf, Ids \ {i})
    BY DEF OtherManual, OtherFg, Sum, ManualOf, FgOf
<1>2. SumFunctionOnSet(ManualOf, Ids \ {i}) \in Nat
    BY FunctionTypes, SumOverIds
<1>3. SumFunctionOnSet(FgOf, Ids \ {i}) \in Nat
    BY FunctionTypes, SumOverIds
<1>4. SumFunctionOnSet(ManualOf, Ids \ {i}) = AllManual - ManualOf[i]
    BY FunctionTypes, SumLoses DEF AllManual
<1>5. SumFunctionOnSet(FgOf, Ids \ {i}) = AllFg - FgOf[i]
    BY FunctionTypes, SumLoses DEF AllFg
<1>. QED
    BY <1>1, <1>2, <1>3, <1>4, <1>5, SumTypes, Types DEF ManualOf, FgOf

\* The claims add up.
ClaimsAddUp ==
    \A i \in Ids : /\ OtherManual(i) \in Nat /\ OtherFg(i) \in Nat
                   /\ AllManual = OtherManual(i) + receipt[i].manual
                   /\ AllFg = OtherFg(i) + receipt[i].fg

\* They do, of every state.
LEMMA ClaimsAlwaysAddUp == ReceiptTypeOK => ClaimsAddUp
BY OthersClaims DEF ClaimsAddUp

\* Of the next state.
LEMMA ClaimsAddUpNext ==
    ASSUME ReceiptTypeOK'
    PROVE  \A i \in Ids : /\ OtherManual(i)' \in Nat /\ OtherFg(i)' \in Nat
                          /\ AllManual' = OtherManual(i)' + receipt'[i].manual
                          /\ AllFg' = OtherFg(i)' + receipt'[i].fg
<1>1. ReceiptTypeOK' => ClaimsAddUp'
    BY ClaimsAlwaysAddUp, PTL
<1>. QED
    BY <1>1 DEF ClaimsAddUp

\* The work in progress a receipt is valued on.
LEMMA TotalWipNat ==
    ASSUME ReceiptTypeOK, NEW i \in Ids
    PROVE  /\ manual \in Nat /\ issued \in Nat /\ issued * IssueValue \in Nat
           /\ TotalWip(i) \in Nat
           /\ TotalWip(i) >= issued * IssueValue + manual
           /\ TotalWip(i) = issued * IssueValue + OtherManual(i)
                                + AtLeastZero(manual - OtherManual(i))
<1>1. manual \in Nat /\ issued \in Nat
    BY ConstantTypes DEF ReceiptTypeOK
<1>2. issued * IssueValue \in Nat
    BY <1>1, ConstantTypes, Products
<1>. QED
    BY <1>1, <1>2, OthersClaims DEF TotalWip, AtLeastZero

\* The lines of a final receipt, in terms of the sums.
LEMMA FinalLinesAre ==
    ASSUME NEW i
    PROVE  LET left == TotalWip(i) - OtherFg(i)
               lost == IF LiveGood = 0 THEN AtLeastZero(left)
                       ELSE WriteOff(TotalWip(i), left, LiveScrap, LiveUnits)
           IN  FinalLines(i) = [fg |-> left - lost, writeOff |-> lost]
BY DEF FinalLines, Sum, LiveGood, LiveScrap, LiveUnits, GoodOf, ScrapOf, UnitsOf

\* And of a partial one.
LEMMA PartialLinesAre ==
    ASSUME NEW i
    PROVE  LET target == RoundDiv(TotalWip(i) * LiveGood, LiveUnits)
               expected == Planned - (LiveUnits - Units(i))
               over == IF expected < Units(i) THEN Units(i) ELSE expected
               share == RoundDiv((TotalWip(i) - OtherFg(i)) * Good(i), over)
           IN  PartialLines(i) =
                 [fg |-> IF LiveGood = 0 THEN 0 ELSE Least(share, target - OtherFg(i)),
                  writeOff |-> 0]
BY DEF PartialLines, Sum, LiveGood, LiveUnits, GoodOf, UnitsOf

\* A rounded share of a total is no more than the total.
LEMMA ShareOfTotal ==
    ASSUME NEW t \in Nat, NEW a \in Nat, NEW d \in Nat \ {0}, a <= d
    PROVE  RoundDiv(t * a, d) <= t
<1>. PICK r \in Nat : r = RoundDiv(t * a, d)
    BY Products, RoundDivNat
<1>1. 2 * d * r <= 2 * (t * a) + d
    BY Products, RoundDivNat
<1>2. t * a <= t * d
    BY Products
<1>3. CASE r > t
    <2>1. d * (t + 1) <= d * r
        BY <1>3, Products
    <2>2. d * (t + 1) = d * t + d
        OBVIOUS
    <2>. QED
        BY <1>1, <1>2, <2>1, <2>2
<1>. QED
    BY <1>3

\* Two rounded shares of a total exceed it by one at most.
LEMMA SharesOfTotal ==
    ASSUME NEW t \in Nat, NEW a \in Nat, NEW b \in Nat, NEW d \in Nat \ {0}, a + b <= d
    PROVE  RoundDiv(t * a, d) + RoundDiv(t * b, d) <= t + 1
<1>. PICK r \in Nat : r = RoundDiv(t * a, d)
    BY Products, RoundDivNat
<1>. PICK q \in Nat : q = RoundDiv(t * b, d)
    BY Products, RoundDivNat
<1>1. 2 * d * r <= 2 * (t * a) + d /\ 2 * d * q <= 2 * (t * b) + d
    BY Products, RoundDivNat
<1>2. t * (a + b) <= t * d /\ t * (a + b) = t * a + t * b
    BY Products
<1>3. CASE r + q > t + 1
    <2>1. d * (t + 2) <= d * (r + q)
        BY <1>3, Products
    <2>2. d * (t + 2) = d * t + 2 * d /\ d * (r + q) = d * r + d * q
        OBVIOUS
    <2>. QED
        BY <1>1, <1>2, <2>1, <2>2
<1>. QED
    BY <1>3

(***************************************************************************)
(* What the worker builds                                                  *)
(***************************************************************************)
\* The abnormal and the good share of a total.
LostOf(t) == RoundDiv(t * Abnormal(LiveScrap, LiveUnits), LiveUnits)
TargetOf(t) == RoundDiv(t * LiveGood, LiveUnits)

\* Both are naturals, and together no more than the total and a cent.
LEMMA TargetAndLost ==
    ASSUME ReceiptTypeOK, LiveUnits # 0, NEW t \in Nat
    PROVE  /\ TargetOf(t) \in Nat /\ LostOf(t) \in Nat
           /\ TargetOf(t) <= t
           /\ TargetOf(t) + LostOf(t) <= t + 1
           /\ 2 * LiveUnits * LostOf(t)
                <= 2 * (t * Abnormal(LiveScrap, LiveUnits)) + LiveUnits
<1>. PICK u \in Nat \ {0} : u = LiveUnits
    BY SumTypes
<1>. PICK g \in Nat : g = LiveGood
    BY SumTypes
<1>. PICK a \in Nat : a = Abnormal(LiveScrap, LiveUnits)
    BY SumTypes, AbnormalNat
<1>1. a <= LiveScrap /\ g + a <= u
    BY SumTypes, AbnormalNat
<1>2. t * a \in Nat /\ t * g \in Nat
    BY Products
<1>3. TargetOf(t) = RoundDiv(t * g, u) /\ LostOf(t) = RoundDiv(t * a, u)
    BY DEF TargetOf, LostOf
<1>4. RoundDiv(t * g, u) \in Nat /\ RoundDiv(t * g, u) <= t
    <2>1. RoundDiv(t * g, u) \in Nat
        BY <1>2, RoundDivNat
    <2>2. g <= u
        BY <1>1
    <2>. QED
        BY <2>1, <2>2, ShareOfTotal
<1>5. RoundDiv(t * a, u) \in Nat /\ 2 * u * RoundDiv(t * a, u) <= 2 * (t * a) + u
    BY <1>2, RoundDivNat
<1>6. RoundDiv(t * g, u) + RoundDiv(t * a, u) <= t + 1
    BY <1>1, SharesOfTotal
<1>. QED
    BY <1>3, <1>4, <1>5, <1>6

\* What a final receipt moves: all that is left, but for the write-off.
LEMMA FinalMoves ==
    ASSUME ReceiptTypeOK, NEW i \in Ids, receipt[i].final
    PROVE  LET L == BuildProductionReceiveEntry(i)
               left == TotalWip(i) - OtherFg(i)
           IN  /\ L \in Lines
               /\ L.manual = AtLeastZero(manual - OtherManual(i))
               /\ left >= 0 => L.fg + L.writeOff = left
               /\ left < 0 => L.fg = 0 /\ L.writeOff = 0
               /\ LiveGood # 0 => L.writeOff <= LostOf(TotalWip(i))
<1>. PICK left \in Int : left = TotalWip(i) - OtherFg(i)
    BY TotalWipNat, OthersClaims
<1>. PICK lost : lost = IF LiveGood = 0 THEN AtLeastZero(left)
                        ELSE WriteOff(TotalWip(i), left, LiveScrap, LiveUnits)
    OBVIOUS
<1>1. /\ lost \in Nat
      /\ left >= 0 => lost <= left
      /\ left < 0 => lost = 0
      /\ LiveGood # 0 => lost <= LostOf(TotalWip(i))
    <2>1. CASE LiveGood = 0
        BY <2>1 DEF AtLeastZero
    <2>2. CASE LiveGood # 0
        <3>1. LiveUnits # 0
            BY <2>2, SumTypes
        <3>2. lost = Least(LostOf(TotalWip(i)), AtLeastZero(left))
            BY <2>2 DEF WriteOff, LostOf
        <3>. QED
            BY <3>1, <3>2, TotalWipNat, TargetAndLost DEF Least, AtLeastZero
    <2>. QED
        BY <2>1, <2>2
<1>2. FinalLines(i) = [fg |-> left - lost, writeOff |-> lost]
    BY FinalLinesAre
<1>3. BuildProductionReceiveEntry(i) =
        [manual |-> AtLeastZero(manual - OtherManual(i)),
         fg |-> AtLeastZero(left - lost), writeOff |-> lost]
    BY <1>2 DEF BuildProductionReceiveEntry
<1>4. AtLeastZero(manual - OtherManual(i)) \in Nat
    BY TotalWipNat, OthersClaims DEF AtLeastZero
<1>5. /\ AtLeastZero(left - lost) \in Nat
      /\ left >= 0 => AtLeastZero(left - lost) = left - lost
      /\ left < 0 => AtLeastZero(left - lost) = 0
    BY <1>1 DEF AtLeastZero
<1>. HIDE DEF AtLeastZero
<1>. QED
    BY <1>1, <1>3, <1>4, <1>5 DEF Lines

\* What a partial receipt moves: never beyond the value of the good units.
LEMMA PartialMoves ==
    ASSUME ReceiptTypeOK, NEW i \in Ids, ~receipt[i].final, Units(i) > 0
    PROVE  LET L == BuildProductionReceiveEntry(i)
           IN  /\ L \in Lines
               /\ L.manual = AtLeastZero(manual - OtherManual(i))
               /\ L.writeOff = 0
               /\ L.fg > 0 => LiveGood # 0 /\ OtherFg(i) + L.fg <= TargetOf(TotalWip(i))
<1>. DEFINE expected == Planned - (LiveUnits - Units(i))
            over == IF expected < Units(i) THEN Units(i) ELSE expected
            share == RoundDiv((TotalWip(i) - OtherFg(i)) * Good(i), over)
<1>0. Units(i) \in Nat /\ Good(i) \in Nat
    BY Types DEF Units
<1>1. over \in Nat \ {0}
    BY <1>0, SumTypes, ConstantTypes
<1>2. share \in Int
    <2>1. PICK n \in Int : n = (TotalWip(i) - OtherFg(i)) * Good(i)
        BY <1>0, TotalWipNat, OthersClaims
    <2>2. PICK d \in Nat \ {0} : d = over
        BY <1>1
    <2>. QED
        BY <2>1, <2>2 DEF RoundDiv
<1>. PICK fg : fg = IF LiveGood = 0 THEN 0 ELSE Least(share, TargetOf(TotalWip(i)) - OtherFg(i))
    OBVIOUS
<1>3. /\ fg \in Int
      /\ fg > 0 => LiveGood # 0 /\ OtherFg(i) + fg <= TargetOf(TotalWip(i))
    <2>1. CASE LiveGood = 0
        BY <2>1
    <2>2. CASE LiveGood # 0
        <3>1. LiveUnits # 0
            BY <2>2, SumTypes
        <3>2. fg = Least(share, TargetOf(TotalWip(i)) - OtherFg(i))
            BY <2>2
        <3>. HIDE DEF share
        <3>. QED
            BY <1>2, <2>2, <3>1, <3>2, TotalWipNat, TargetAndLost, OthersClaims DEF Least
    <2>. QED
        BY <2>1, <2>2
<1>4. PartialLines(i) = [fg |-> fg, writeOff |-> 0]
    BY PartialLinesAre DEF TargetOf
<1>5. BuildProductionReceiveEntry(i) =
        [manual |-> AtLeastZero(manual - OtherManual(i)),
         fg |-> AtLeastZero(fg), writeOff |-> 0]
    BY <1>4 DEF BuildProductionReceiveEntry
<1>6. AtLeastZero(manual - OtherManual(i)) \in Nat
    BY TotalWipNat, OthersClaims DEF AtLeastZero
<1>7. /\ AtLeastZero(fg) \in Nat
      /\ AtLeastZero(fg) > 0 => AtLeastZero(fg) = fg
    BY <1>3 DEF AtLeastZero
<1>. HIDE DEF AtLeastZero
<1>. QED
    BY <1>3, <1>5, <1>6, <1>7 DEF Lines

(***************************************************************************)
(* What the steps write                                                    *)
(***************************************************************************)
\* A step that leaves what was counted, and one that leaves the claims.
CountsKept ==
    \A i \in Ids : /\ receipt'[i].counted = receipt[i].counted
                   /\ receipt'[i].state = receipt[i].state
                   /\ receipt'[i].final = receipt[i].final
                   /\ receipt'[i].unitCost = receipt[i].unitCost
ClaimsKept ==
    \A i \in Ids : /\ receipt'[i].manual = receipt[i].manual
                   /\ receipt'[i].fg = receipt[i].fg

\* The entry of i is written with its receipt's claims.
Booked(i, lines) ==
    /\ receipt' \in [Ids -> Receipts]
    /\ CountsKept
    /\ \A j \in Ids \ {i} : receipt'[j] = receipt[j]
    /\ entry' = [entry EXCEPT ![i] = lines]
    /\ receipt'[i].manual = lines.manual
    /\ receipt'[i].fg = lines.fg
    /\ UNCHANGED comp

\* A receipt with its state, its posting and its claims rewritten.
Rewritten(r, state, posting, attempts, m, fg) ==
    [counted |-> r.counted, state |-> state, final |-> r.final, posting |-> posting,
     attempts |-> attempts, manual |-> m, fg |-> fg, unitCost |-> r.unitCost]

\* It is a receipt.
LEMMA RewrittenType ==
    ASSUME NEW r \in Receipts,
           NEW s \in {"absent", "live", "reversed"},
           NEW p \in {"pending", "posted", "dead_letter"},
           NEW a \in Nat, NEW m \in Nat, NEW n \in Nat
    PROVE  Rewritten(r, s, p, a, m, n) \in Receipts
BY DEF Rewritten, Receipts

\* Posting books the built lines of a receipt that is not reversed.
LEMMA PostingWrites ==
    ASSUME ReceiptTypeOK, NEW i \in Ids, PostReceipt(i)
    PROVE  /\ receipt[i].state = "reversed" => UNCHANGED <<receipt, entry, comp>>
           /\ receipt[i].state # "reversed" => Booked(i, built.lines)
<1>1. CASE receipt[i].state = "reversed"
    BY <1>1 DEF PostReceipt
<1>2. CASE receipt[i].state # "reversed"
    <2>1. built.lines.manual \in Nat /\ built.lines.fg \in Nat
        BY DEF ReceiptTypeOK, Lines
    <2>2. receipt[i] \in Receipts
        BY Types
    <2>3. PICK q : q = [receipt[i] EXCEPT !.posting = "posted", !.attempts = 0,
                            !.manual = built.lines.manual, !.fg = built.lines.fg]
        OBVIOUS
    <2>4. q = Rewritten(receipt[i], receipt[i].state, "posted", 0, built.lines.manual,
                        built.lines.fg)
        BY <2>2, <2>3 DEF Receipts, Rewritten
    <2>5. receipt' = [receipt EXCEPT ![i] = q]
        BY <1>2, <2>3 DEF PostReceipt, ReceiptTypeOK
    <2>6. receipt[i].state \in {"absent", "live", "reversed"}
        BY <2>2 DEF Receipts
    <2>7. entry' = [entry EXCEPT ![i] = built.lines] /\ UNCHANGED comp
        BY <1>2 DEF PostReceipt
    <2>9. q \in Receipts
        BY <2>1, <2>2, <2>4, <2>6, RewrittenType
    <2>8. /\ receipt' \in [Ids -> Receipts]
          /\ \A j \in Ids \ {i} : receipt'[j] = receipt[j]
          /\ receipt'[i].counted = receipt[i].counted
          /\ receipt'[i].state = receipt[i].state
          /\ receipt'[i].final = receipt[i].final
          /\ receipt'[i].unitCost = receipt[i].unitCost
          /\ receipt'[i].manual = built.lines.manual
          /\ receipt'[i].fg = built.lines.fg
        BY <2>4, <2>5, <2>9 DEF ReceiptTypeOK, Rewritten
    <2>. QED
        BY <1>2, <2>7, <2>8 DEF Booked, CountsKept
<1>. QED
    BY <1>1, <1>2

\* The reversal of an entry books nothing in its place.
LEMMA EntryReversalWrites ==
    ASSUME ReceiptTypeOK, NEW i \in Ids, ReverseJournalEntry(i)
    PROVE  Booked(i, NoEntry)
<1>1. receipt[i] \in Receipts
    BY Types
<1>2. PICK q : q = [receipt[i] EXCEPT !.manual = 0, !.fg = 0]
    OBVIOUS
<1>3. q = Rewritten(receipt[i], receipt[i].state, receipt[i].posting,
                    receipt[i].attempts, 0, 0)
    BY <1>1, <1>2 DEF Receipts, Rewritten
<1>4. receipt' = [receipt EXCEPT ![i] = q]
    BY <1>2 DEF ReverseJournalEntry, ReceiptTypeOK
<1>5. /\ receipt[i].state \in {"absent", "live", "reversed"}
      /\ receipt[i].posting \in {"pending", "posted", "dead_letter"}
      /\ receipt[i].attempts \in Nat
    BY <1>1 DEF Receipts
<1>6. entry' = [entry EXCEPT ![i] = NoEntry] /\ UNCHANGED comp
    BY DEF ReverseJournalEntry
<1>8. q \in Receipts
    BY <1>1, <1>3, <1>5, RewrittenType
<1>7. /\ receipt' \in [Ids -> Receipts]
      /\ \A j \in Ids \ {i} : receipt'[j] = receipt[j]
      /\ receipt'[i].counted = receipt[i].counted
      /\ receipt'[i].state = receipt[i].state
      /\ receipt'[i].final = receipt[i].final
      /\ receipt'[i].unitCost = receipt[i].unitCost
      /\ receipt'[i].manual = 0
      /\ receipt'[i].fg = 0
    BY <1>3, <1>4, <1>8 DEF ReceiptTypeOK, Rewritten
<1>. QED
    BY <1>6, <1>7 DEF Booked, CountsKept, NoEntry

\* A recorded failure leaves the counts and the claims.
LEMMA FailureWrites ==
    ASSUME ReceiptTypeOK, NEW i \in Ids, PostingFails(i)
    PROVE  /\ receipt' \in [Ids -> Receipts]
           /\ CountsKept /\ ClaimsKept /\ UNCHANGED <<entry, comp>>
<1>1. receipt[i] \in Receipts
    BY Types
<1>2. /\ receipt[i].state \in {"absent", "live", "reversed"}
      /\ receipt[i].posting \in {"pending", "posted", "dead_letter"}
      /\ receipt[i].attempts \in Nat
      /\ receipt[i].manual \in Nat /\ receipt[i].fg \in Nat
    BY <1>1 DEF Receipts
<1>3. PICK p \in {"pending", "posted", "dead_letter"} :
        p = IF receipt[i].attempts + 1 >= receiptDeadLetterAttempts
            THEN "dead_letter" ELSE receipt[i].posting
    BY <1>2
<1>4. PICK q : q = [receipt[i] EXCEPT !.attempts = receipt[i].attempts + 1, !.posting = p]
    OBVIOUS
<1>5. q = Rewritten(receipt[i], receipt[i].state, p, receipt[i].attempts + 1,
                    receipt[i].manual, receipt[i].fg)
    BY <1>1, <1>4 DEF Receipts, Rewritten
<1>6. receipt' = [receipt EXCEPT ![i] = q]
    BY <1>1, <1>3, <1>4 DEF PostingFails, RecordReceiptPostingFailure, ReceiptTypeOK, Receipts
<1>7. UNCHANGED <<entry, comp>>
    BY DEF PostingFails, ledgerVars
<1>9. q \in Receipts
    <2>1. receipt[i].attempts + 1 \in Nat
        BY <1>2
    <2>. QED
        BY <1>1, <1>2, <1>5, <2>1, RewrittenType
<1>8. /\ receipt' \in [Ids -> Receipts]
      /\ \A j \in Ids \ {i} : receipt'[j] = receipt[j]
      /\ receipt'[i].counted = receipt[i].counted
      /\ receipt'[i].state = receipt[i].state
      /\ receipt'[i].final = receipt[i].final
      /\ receipt'[i].unitCost = receipt[i].unitCost
      /\ receipt'[i].manual = receipt[i].manual
      /\ receipt'[i].fg = receipt[i].fg
    BY <1>5, <1>6, <1>9 DEF ReceiptTypeOK, Rewritten
<1>. QED
    BY <1>7, <1>8 DEF CountsKept, ClaimsKept

\* A step that keeps the counts keeps their sums.
LEMMA CountsKeepSums ==
    ASSUME CountsKept
    PROVE  /\ Live' = Live /\ Posted' = Posted /\ LiveFinals' = LiveFinals
           /\ \A i \in Ids : /\ Good(i)' = Good(i) /\ Scrap(i)' = Scrap(i)
                             /\ Seconds(i)' = Seconds(i) /\ Units(i)' = Units(i)
           /\ LiveGood' = LiveGood /\ LiveScrap' = LiveScrap
           /\ LiveSeconds' = LiveSeconds /\ LiveDefects' = LiveDefects
           /\ LiveUnits' = LiveUnits
<1>1. Live' = Live /\ Posted' = Posted
    BY DEF CountsKept, Live, Posted
<1>2. LiveFinals' = LiveFinals
    BY <1>1 DEF CountsKept, LiveFinals, Live
<1>3. \A i \in Ids : /\ Good(i)' = Good(i) /\ Scrap(i)' = Scrap(i)
                     /\ Seconds(i)' = Seconds(i) /\ Units(i)' = Units(i)
    BY DEF CountsKept, Good, Scrap, Seconds, Units
<1>4. /\ GoodOf' = GoodOf /\ ScrapOf' = ScrapOf /\ SecondsOf' = SecondsOf
      /\ DefectsOf' = DefectsOf /\ UnitsOf' = UnitsOf
    BY <1>3 DEF GoodOf, ScrapOf, SecondsOf, DefectsOf, UnitsOf
<1>. QED
    BY <1>1, <1>2, <1>3, <1>4
       DEF LiveGood, LiveScrap, LiveSeconds, LiveDefects, LiveUnits

\* A step that keeps the claims keeps their sums.
LEMMA ClaimsKeepSums ==
    ASSUME ClaimsKept
    PROVE  /\ AllManual' = AllManual /\ AllFg' = AllFg
           /\ \A i \in Ids : OtherManual(i)' = OtherManual(i) /\ OtherFg(i)' = OtherFg(i)
<1>1. ManualOf' = ManualOf /\ FgOf' = FgOf
    BY DEF ClaimsKept, ManualOf, FgOf
<1>2. \A i \in Ids : /\ OtherManual(i) = SumFunctionOnSet(ManualOf, Ids \ {i})
                     /\ OtherFg(i) = SumFunctionOnSet(FgOf, Ids \ {i})
    BY DEF OtherManual, OtherFg, Sum, ManualOf, FgOf
<1>3. \A i \in Ids : /\ OtherManual(i)' = SumFunctionOnSet(ManualOf', Ids \ {i})
                     /\ OtherFg(i)' = SumFunctionOnSet(FgOf', Ids \ {i})
    BY DEF OtherManual, OtherFg, Sum, ManualOf, FgOf
<1>. QED
    BY <1>1, <1>2, <1>3 DEF AllManual, AllFg

\* What is built for a receipt depends on the receipts and the money alone.
LEMMA EntrySteady ==
    ASSUME UNCHANGED <<receipt, manual, issued>>, NEW i \in Ids
    PROVE  BuildProductionReceiveEntry(i)' = BuildProductionReceiveEntry(i)
<1>1. CountsKept /\ ClaimsKept /\ manual' = manual /\ issued' = issued
      /\ receipt' = receipt
    BY DEF CountsKept, ClaimsKept
<1>2. /\ Live' = Live /\ Good(i)' = Good(i) /\ Units(i)' = Units(i)
      /\ LiveGood' = LiveGood /\ LiveScrap' = LiveScrap /\ LiveUnits' = LiveUnits
    BY <1>1, CountsKeepSums
<1>3. OtherManual(i)' = OtherManual(i) /\ OtherFg(i)' = OtherFg(i)
    BY <1>1, ClaimsKeepSums
<1>4. TotalWip(i)' = TotalWip(i)
    BY <1>1, <1>3 DEF TotalWip
<1>5. Sum(Units, Live) = LiveUnits /\ Sum(Good, Live) = LiveGood
      /\ Sum(Scrap, Live) = LiveScrap
    BY DEF Sum, LiveUnits, LiveGood, LiveScrap, UnitsOf, GoodOf, ScrapOf
<1>6. Sum(Units, Live)' = LiveUnits' /\ Sum(Good, Live)' = LiveGood'
      /\ Sum(Scrap, Live)' = LiveScrap'
    BY DEF Sum, LiveUnits, LiveGood, LiveScrap, UnitsOf, GoodOf, ScrapOf
<1>7. FinalLines(i)' = FinalLines(i)
    BY <1>2, <1>3, <1>4, <1>5, <1>6 DEF FinalLines
<1>8. PartialLines(i)' = PartialLines(i)
    BY <1>2, <1>3, <1>4, <1>5, <1>6 DEF PartialLines
<1>. QED
    BY <1>1, <1>3, <1>7, <1>8 DEF BuildProductionReceiveEntry

(***************************************************************************)
(* The inductive invariant                                                 *)
(***************************************************************************)
\* Receipts are numbered in the order they are posted.
Numbered == \E n \in 0 .. MaxReceipts : Posted = 1 .. n

\* A receipt that does not exist has no entries.
Blank == \A i \in Ids \ Posted : entry[i] = NoEntry /\ comp[i] = NoEntry

\* A partial receipt counts something.
PartialsCount == \A i \in Posted : receipt[i].final \/ Units(i) > 0

\* The worker builds the entry of a receipt that has none.
BuiltUnposted ==
    built.of # 0 => /\ built.of \in Posted
                    /\ built.of \in Live => entry[built.of] = NoEntry

\* Capital stays under the peak with the entry in the worker's hands.
PeakHolds ==
    /\ manual <= count.peak
    /\ built.of # 0 => built.lines.manual + OtherManual(built.of) <= count.peak

IndInv ==
    /\ ReceiptTypeOK /\ UnitsTellReceipts /\ ClaimsMatchLedger /\ CapitalisedOnce
    /\ FinalClosesRun
    /\ Numbered /\ Blank /\ PartialsCount /\ BuiltUnposted /\ PeakHolds

\* Everything that entered the run's work in progress and is claimed.
SeriesWip == issued * IssueValue + AllManual

PostedFinals == {f \in LiveFinals : entry[f] # NoEntry}

\* Only a final receipt writes off.
PartialsLoseNothing ==
    /\ \A i \in Ids : receipt[i].final \/ entry[i].writeOff = 0
    /\ built.of # 0 => receipt[built.of].final \/ built.lines.writeOff = 0

\* The posted final took all of the series' cost; without material moves no more
\* than all of it was ever taken, but for a cent of rounding by a late partial.
WipTaken ==
    /\ \A f \in PostedFinals :
          AllManual >= manual /\ SeriesWip <= AllFg + entry[f].writeOff
    /\ count.moves = 0 =>
          /\ AllFg <= SeriesWip
          /\ \A f \in PostedFinals :
                /\ AllFg + entry[f].writeOff <= SeriesWip + 1
                /\ LiveGood # 0 => entry[f].writeOff <= LostOf(SeriesWip)

\* The entry in the worker's hands: a final's is what would be built now; a
\* partial's takes no more than it may.
BuiltTakes ==
    built.of \in Live =>
        LET i == built.of IN
        /\ receipt[i].final => built.lines = BuildProductionReceiveEntry(i)
        /\ ~receipt[i].final =>
              /\ count.moves = 0 =>
                    OtherFg(i) + built.lines.fg
                        <= issued * IssueValue + OtherManual(i) + built.lines.manual
              /\ PostedFinals # {} =>
                    /\ built.lines.manual = 0
                    /\ built.lines.fg > 0 =>
                          LiveGood # 0 /\ OtherFg(i) + built.lines.fg <= TargetOf(SeriesWip)

\* The frozen cost price f is at most the normal share of the run's cost...
CostsNormalShare(f) ==
    2 * (LiveUnits * (LiveGood * receipt[f].unitCost))
        <= 2 * ((issued * IssueValue + manual)
                * (LiveUnits - Abnormal(LiveScrap, LiveUnits)))
           + LiveUnits * LiveGood

\* ... or covered by the goods in the ledger.
CostsCovered(f) == 2 * (LiveGood * receipt[f].unitCost) <= 2 * AllFg + LiveGood + 1

\* The counters hold what the receipts counted.
NothingTyped == rollup[1] = LiveGood /\ rollup[2] = LiveDefects

CostFrozen ==
    NothingTyped =>
        \A f \in LiveFinals : /\ CostsNormalShare(f) \/ CostsCovered(f)
                              /\ f \in PostedFinals => CostsCovered(f)

WipInv ==
    /\ PartialsLoseNothing
    /\ count.entryReversals = 0 => WipTaken /\ BuiltTakes /\ CostFrozen

(***************************************************************************)
(* What the receipt commands write                                         *)
(***************************************************************************)
\* The cost that remains of a total when the abnormal scrap is taken off, times
\* the units.
Remaining(total, a, fg, u) == total * u - Least(total * a, AtLeastZero(total - fg) * u)

\* The cost price d freezes, in terms of the sums.
LEMMA UnitCostIs ==
    ASSUME NEW d, NEW g, g = rollup[1] + d.good,
           NEW u, u = rollup[1] + d.good + rollup[2] + d.scrap + d.seconds
    PROVE  UnitCost(d) =
             IF g = 0 THEN 0
             ELSE RoundBank(Remaining(issued * IssueValue + manual,
                                      Abnormal(LiveScrap + d.scrap, u), AllFg, u),
                            u * g)
BY DEF UnitCost, Remaining, Sum, LiveScrap, ScrapOf, AllFg, FgOf

\* What remains is a natural, at most the normal share or what the ledger has.
LEMMA RemainingNat ==
    ASSUME NEW total \in Nat, NEW a \in Nat, NEW fg \in Nat, NEW u \in Nat, a <= u
    PROVE  /\ Remaining(total, a, fg, u) \in Nat
           /\ \/ Remaining(total, a, fg, u) = total * (u - a)
              \/ Remaining(total, a, fg, u) <= fg * u
<1>1. total * u \in Nat /\ total * a \in Nat /\ fg * u \in Nat
    BY Products
<1>2. total * a <= total * u /\ total * (u - a) = total * u - total * a
    BY Products
<1>3. CASE total > fg
    <2>1. AtLeastZero(total - fg) * u = total * u - fg * u
        BY <1>3 DEF AtLeastZero
    <2>2. AtLeastZero(total - fg) * u \in Int /\ fg * u <= total * u
        BY <1>1, <1>3, <2>1, Products
    <2>. QED
        BY <1>1, <1>2, <2>1, <2>2 DEF Remaining, Least
<1>4. CASE total <= fg
    <2>1. AtLeastZero(total - fg) * u = 0
        BY <1>4 DEF AtLeastZero
    <2>2. total * u <= fg * u
        BY <1>4, Products
    <2>. QED
        BY <1>1, <1>2, <2>1, <2>2 DEF Remaining, Least
<1>. QED
    BY <1>3, <1>4

\* The cost price is a natural, off by half a cent a unit at most.
LEMMA UnitCostNat ==
    ASSUME ReceiptTypeOK, NEW d \in Delivery,
           NEW g, g = rollup[1] + d.good,
           NEW u, u = rollup[1] + d.good + rollup[2] + d.scrap + d.seconds,
           NEW a, a = Abnormal(LiveScrap + d.scrap, u), a <= u,
           NEW total, total = issued * IssueValue + manual
    PROVE  /\ UnitCost(d) \in Nat
           /\ g = 0 => UnitCost(d) = 0
           /\ \/ 2 * (u * (g * UnitCost(d))) <= 2 * (total * (u - a)) + u * g
              \/ 2 * (g * UnitCost(d)) <= 2 * AllFg + g
<1>1. d.good \in Nat /\ d.scrap \in Nat /\ d.seconds \in Nat
    BY DEF Delivery
<1>2. rollup[1] \in Nat /\ rollup[2] \in Nat
    BY DEF ReceiptTypeOK
<1>3. g \in Nat /\ u \in Nat /\ LiveScrap + d.scrap \in Nat /\ AllFg \in Nat
    BY <1>1, <1>2, SumTypes
<1>4. a \in Nat
    BY <1>3, AbnormalNat
<1>5. total \in Nat
    <2>1. manual \in Nat /\ issued \in Nat
        BY ConstantTypes DEF ReceiptTypeOK
    <2>2. issued * IssueValue \in Nat
        BY <2>1, ConstantTypes, Products
    <2>. QED
        BY <2>1, <2>2
<1>6. CASE g = 0
    <2>1. UnitCost(d) = 0
        BY <1>6, UnitCostIs
    <2>2. g * UnitCost(d) = 0
        BY <1>6, <2>1
    <2>. QED
        BY <1>3, <1>6, <2>1, <2>2
<1>7. CASE g # 0
    <2>1. u \in Nat \ {0} /\ g \in Nat \ {0}
        BY <1>1, <1>2, <1>3, <1>7
    <2>2. u * g \in Nat \ {0}
        BY <2>1
    <2>3. PICK n \in Nat : n = Remaining(total, a, AllFg, u)
        BY <1>3, <1>4, <1>5, RemainingNat
    <2>4. UnitCost(d) = RoundBank(n, u * g)
        BY <1>7, <2>3, UnitCostIs
    <2>5. PICK c \in Nat : c = UnitCost(d)
        BY <2>2, <2>3, <2>4, RoundBankNat
    <2>6. 2 * (u * g) * c <= 2 * n + u * g
        BY <2>2, <2>3, <2>4, <2>5, RoundBankNat
    <2>7. 2 * (u * (g * c)) <= 2 * n + u * g
        BY <2>1, <2>5, <2>6
    <2>8. n = total * (u - a) \/ n <= AllFg * u
        BY <1>3, <1>4, <1>5, <2>3, RemainingNat
    <2>9. ASSUME n <= AllFg * u
          PROVE  2 * (g * c) <= 2 * AllFg + g
        <3>1. PICK x \in Nat : x = g * c
            BY <2>1, <2>5, Products
        <3>2. PICK y \in Nat : y = 2 * AllFg + g
            BY <1>3
        <3>3. u * (2 * x) <= u * y
            BY <1>3, <2>1, <2>3, <2>7, <2>9, <3>1, <3>2
        <3>. QED
            BY <2>1, <3>1, <3>2, <3>3
    <2>. QED
        BY <1>7, <2>5, <2>7, <2>8, <2>9
<1>. QED
    BY <1>6, <1>7

\* The next id is free.
LEMMA NextIdFree ==
    ASSUME Numbered, NextId \in Ids
    PROVE  /\ NextId \notin Posted
           /\ \E n \in 0 .. MaxReceipts : Posted \cup {NextId} = 1 .. n
<1>1. PICK n \in 0 .. MaxReceipts : Posted = 1 .. n
    BY DEF Numbered
<1>2. Cardinality(1 .. n) = n
    BY <1>1, ConstantTypes, FS_Interval
<1>3. NextId = n + 1
    BY <1>1, <1>2 DEF NextId
<1>4. n \in Nat /\ n + 1 \in 0 .. MaxReceipts
    BY <1>1, <1>3, ConstantTypes DEF Ids
<1>5. (1 .. n) \cup {n + 1} = 1 .. (n + 1)
    BY <1>4
<1>. QED
    BY <1>1, <1>3, <1>4, <1>5

\* A delivery adds a live receipt with what was counted.
LEMMA DeliveryWrites ==
    ASSUME ReceiptTypeOK, ClaimsMatchLedger, Blank, Numbered, NEW d \in Delivery,
           NEW final \in BOOLEAN, NEW seed \in BOOLEAN,
           PostProductionRunReceipt(d, final, seed),
           Abnormal(LiveScrap + d.scrap,
                    rollup[1] + d.good + rollup[2] + d.scrap + d.seconds)
             <= rollup[1] + d.good + rollup[2] + d.scrap + d.seconds
    PROVE  \E n \in Ids \ Posted :
             /\ receipt' \in [Ids -> Receipts]
             /\ \A j \in Ids \ {n} : receipt'[j] = receipt[j]
             /\ receipt'[n].counted = d
             /\ receipt'[n].state = "live"
             /\ receipt'[n].final = final
             /\ receipt'[n].unitCost = IF final THEN UnitCost(d) ELSE 0
             /\ ClaimsKept
             /\ UNCHANGED <<entry, comp>>
             /\ Live' = Live \cup {n} /\ Posted' = Posted \cup {n}
             /\ Numbered'
<1>1. PICK n \in Ids : n = NextId
    BY DEF PostProductionRunReceipt
<1>2. n \notin Posted /\ \E m \in 0 .. MaxReceipts : Posted \cup {n} = 1 .. m
    BY <1>1, NextIdFree
<1>3. PICK c \in Nat : c = IF final THEN UnitCost(d) ELSE 0
    BY UnitCostNat
<1>0. PICK q : q = [Absent EXCEPT !.counted = d, !.state = "live", !.final = final,
                                  !.unitCost = c]
    OBVIOUS
<1>4. q = [counted |-> d, state |-> "live", final |-> final,
           posting |-> "pending", attempts |-> 0, manual |-> 0, fg |-> 0,
           unitCost |-> c]
    BY <1>0 DEF Absent
<1>5. q \in Receipts
    BY <1>3, <1>4 DEF Receipts
<1>6. receipt' = [receipt EXCEPT ![n] = q]
    BY <1>0, <1>1, <1>3 DEF PostProductionRunReceipt
<1>7. /\ receipt' \in [Ids -> Receipts]
      /\ \A j \in Ids \ {n} : receipt'[j] = receipt[j]
      /\ receipt'[n] = q
    BY <1>5, <1>6 DEF ReceiptTypeOK
<1>8. UNCHANGED <<entry, comp>>
    BY DEF PostProductionRunReceipt, ledgerVars
<1>9. receipt[n].manual = 0 /\ receipt[n].fg = 0
    BY <1>2 DEF ClaimsMatchLedger, Blank, NoEntry
<1>10. ClaimsKept
    BY <1>4, <1>7, <1>9 DEF ClaimsKept
<1>11. Live' = Live \cup {n} /\ Posted' = Posted \cup {n}
    BY <1>2, <1>4, <1>7 DEF Live, Posted
<1>12. Numbered'
    BY <1>2, <1>11 DEF Numbered
<1>. QED
    BY <1>2, <1>3, <1>4, <1>7, <1>8, <1>10, <1>11, <1>12

\* The sums after a receipt joined the live ones.
LEMMA DeliverySums ==
    ASSUME ReceiptTypeOK, receipt' \in [Ids -> Receipts], NEW n \in Ids \ Posted,
           NEW d \in Delivery, receipt'[n].counted = d,
           \A j \in Ids \ {n} : receipt'[j] = receipt[j], Live' = Live \cup {n}
    PROVE  /\ LiveGood' = LiveGood + d.good /\ LiveScrap' = LiveScrap + d.scrap
           /\ LiveSeconds' = LiveSeconds + d.seconds
           /\ LiveDefects' = LiveDefects + d.scrap + d.seconds
           /\ LiveUnits' = LiveUnits + d.good + d.scrap + d.seconds
<1>1. d.good \in Nat /\ d.scrap \in Nat /\ d.seconds \in Nat
    BY DEF Delivery
<1>2. /\ Live \in SUBSET Ids /\ n \notin Live /\ n \in Ids
      /\ \A j \in Ids : receipt'[j].counted \in Delivery
    BY DEF Live, Posted, Receipts
<1>3. /\ \A j \in Ids : Good(j)' \in Nat /\ Scrap(j)' \in Nat /\ Seconds(j)' \in Nat
      /\ \A j \in Live : /\ Good(j)' = Good(j) /\ Scrap(j)' = Scrap(j)
                         /\ Seconds(j)' = Seconds(j)
      /\ Good(n)' = d.good /\ Scrap(n)' = d.scrap /\ Seconds(n)' = d.seconds
    BY <1>2 DEF Good, Scrap, Seconds, Delivery
<1>4. /\ GoodOf' \in [Ids -> Nat] /\ ScrapOf' \in [Ids -> Nat]
      /\ SecondsOf' \in [Ids -> Nat] /\ DefectsOf' \in [Ids -> Nat]
      /\ UnitsOf' \in [Ids -> Nat]
    BY <1>3 DEF GoodOf, ScrapOf, SecondsOf, DefectsOf, UnitsOf, Units
<1>5. \A j \in Live : /\ GoodOf'[j] = GoodOf[j] /\ ScrapOf'[j] = ScrapOf[j]
                      /\ SecondsOf'[j] = SecondsOf[j] /\ DefectsOf'[j] = DefectsOf[j]
                      /\ UnitsOf'[j] = UnitsOf[j]
    BY <1>2, <1>3 DEF GoodOf, ScrapOf, SecondsOf, DefectsOf, UnitsOf, Units
<1>6. /\ GoodOf'[n] = d.good /\ ScrapOf'[n] = d.scrap /\ SecondsOf'[n] = d.seconds
      /\ DefectsOf'[n] = d.scrap + d.seconds
      /\ UnitsOf'[n] = d.good + d.scrap + d.seconds
    BY <1>3 DEF GoodOf, ScrapOf, SecondsOf, DefectsOf, UnitsOf, Units
<1>7. LiveGood' = LiveGood + d.good
    <2>1. SumFunctionOnSet(GoodOf', Live \cup {n})
            = SumFunctionOnSet(GoodOf, Live) + GoodOf'[n]
        BY <1>2, <1>4, <1>5, FunctionTypes, SumGains
    <2>. QED
        BY <1>6, <2>1 DEF LiveGood
<1>8. LiveScrap' = LiveScrap + d.scrap
    <2>1. SumFunctionOnSet(ScrapOf', Live \cup {n})
            = SumFunctionOnSet(ScrapOf, Live) + ScrapOf'[n]
        BY <1>2, <1>4, <1>5, FunctionTypes, SumGains
    <2>. QED
        BY <1>6, <2>1 DEF LiveScrap
<1>9. LiveSeconds' = LiveSeconds + d.seconds
    <2>1. SumFunctionOnSet(SecondsOf', Live \cup {n})
            = SumFunctionOnSet(SecondsOf, Live) + SecondsOf'[n]
        BY <1>2, <1>4, <1>5, FunctionTypes, SumGains
    <2>. QED
        BY <1>6, <2>1 DEF LiveSeconds
<1>10. LiveDefects' = LiveDefects + (d.scrap + d.seconds)
    <2>1. SumFunctionOnSet(DefectsOf', Live \cup {n})
            = SumFunctionOnSet(DefectsOf, Live) + DefectsOf'[n]
        BY <1>2, <1>4, <1>5, FunctionTypes, SumGains
    <2>. QED
        BY <1>6, <2>1 DEF LiveDefects
<1>11. LiveUnits' = LiveUnits + (d.good + d.scrap + d.seconds)
    <2>1. SumFunctionOnSet(UnitsOf', Live \cup {n})
            = SumFunctionOnSet(UnitsOf, Live) + UnitsOf'[n]
        BY <1>2, <1>4, <1>5, FunctionTypes, SumGains
    <2>. QED
        BY <1>6, <2>1 DEF LiveUnits
<1>. QED
    BY <1>1, <1>7, <1>8, <1>9, <1>10, <1>11, SumTypes

\* A reversal takes a receipt from the live ones and its goods from its claims.
LEMMA ReversalWrites ==
    ASSUME ReceiptTypeOK, NEW i \in Ids, ReverseProductionRunReceipt(i)
    PROVE  /\ i \in Live
           /\ receipt' \in [Ids -> Receipts]
           /\ \A j \in Ids \ {i} : receipt'[j] = receipt[j]
           /\ receipt'[i].counted = receipt[i].counted
           /\ receipt'[i].state = "reversed"
           /\ receipt'[i].final = receipt[i].final
           /\ receipt'[i].manual = receipt[i].manual
           /\ receipt'[i].fg = 0
           /\ comp' = [comp EXCEPT ![i] = Compensation(i)] /\ UNCHANGED entry
           /\ Live' = Live \ {i} /\ Posted' = Posted
<1>1. receipt[i] \in Receipts
    BY Types
<1>2. PICK q : q = [receipt[i] EXCEPT !.state = "reversed", !.fg = 0]
    OBVIOUS
<1>3. q = Rewritten(receipt[i], "reversed", receipt[i].posting, receipt[i].attempts,
                    receipt[i].manual, 0)
    BY <1>1, <1>2 DEF Receipts, Rewritten
<1>4. receipt' = [receipt EXCEPT ![i] = q]
    BY <1>2 DEF ReverseProductionRunReceipt, ReceiptTypeOK
<1>5. /\ receipt[i].posting \in {"pending", "posted", "dead_letter"}
      /\ receipt[i].attempts \in Nat /\ receipt[i].manual \in Nat
    BY <1>1 DEF Receipts
<1>6. q \in Receipts
    BY <1>1, <1>3, <1>5, RewrittenType
<1>7. /\ receipt' \in [Ids -> Receipts]
      /\ \A j \in Ids \ {i} : receipt'[j] = receipt[j]
      /\ receipt'[i].counted = receipt[i].counted
      /\ receipt'[i].state = "reversed"
      /\ receipt'[i].final = receipt[i].final
      /\ receipt'[i].manual = receipt[i].manual
      /\ receipt'[i].fg = 0
    BY <1>3, <1>4, <1>6 DEF ReceiptTypeOK, Rewritten
<1>8. /\ i \in Live /\ UNCHANGED entry
      /\ comp' = [comp EXCEPT ![i] = Compensation(i)]
    BY DEF ReverseProductionRunReceipt, Reversible
<1>9. Live' = Live \ {i} /\ Posted' = Posted
    BY <1>7, <1>8 DEF Live, Posted
<1>. QED
    BY <1>7, <1>8, <1>9

\* The sums after a receipt left the live ones.
LEMMA ReversalSums ==
    ASSUME ReceiptTypeOK, receipt' \in [Ids -> Receipts], NEW i \in Live,
           receipt'[i].counted = receipt[i].counted,
           \A j \in Ids \ {i} : receipt'[j] = receipt[j], Live' = Live \ {i}
    PROVE  /\ LiveGood' = LiveGood - Good(i)
           /\ LiveSeconds' = LiveSeconds - Seconds(i)
           /\ LiveDefects' = LiveDefects - Scrap(i) - Seconds(i)
           /\ Good(i) <= LiveGood /\ Scrap(i) + Seconds(i) <= LiveDefects
<1>1. Live \subseteq Ids /\ i \in Ids
    BY DEF Live
<1>2. \A j \in Ids : /\ Good(j)' = Good(j) /\ Scrap(j)' = Scrap(j)
                     /\ Seconds(j)' = Seconds(j)
    BY DEF Good, Scrap, Seconds
<1>3. GoodOf' = GoodOf /\ SecondsOf' = SecondsOf /\ DefectsOf' = DefectsOf
    BY <1>2 DEF GoodOf, SecondsOf, DefectsOf
<1>4. /\ GoodOf[i] = Good(i) /\ SecondsOf[i] = Seconds(i)
      /\ DefectsOf[i] = Scrap(i) + Seconds(i)
    BY <1>1 DEF GoodOf, SecondsOf, DefectsOf
<1>5. LiveGood' = LiveGood - Good(i)
    BY <1>1, <1>3, <1>4, FunctionTypes, SumLoses DEF LiveGood
<1>6. LiveSeconds' = LiveSeconds - Seconds(i)
    BY <1>1, <1>3, <1>4, FunctionTypes, SumLoses DEF LiveSeconds
<1>7. LiveDefects' = LiveDefects - (Scrap(i) + Seconds(i))
    BY <1>1, <1>3, <1>4, FunctionTypes, SumLoses DEF LiveDefects
<1>8. Good(i) <= LiveGood /\ Scrap(i) + Seconds(i) <= LiveDefects
    BY <1>1, <1>4, FunctionTypes, SumOverIds DEF LiveGood, LiveDefects
<1>. QED
    BY <1>1, <1>5, <1>6, <1>7, <1>8, SumTypes, Types

(***************************************************************************)
(* Steps that leave the receipts and the ledger                            *)
(***************************************************************************)
\* UnitsTellReceipts of the next state.
LEMMA UnitsToldNext ==
    UnitsTellReceipts' <=>
        /\ rollup'[1] >= LiveGood' /\ rollup'[2] >= LiveDefects'
        /\ shelf'.A + count'.sold = LiveGood'
        /\ shelf'.B = LiveSeconds'
<1>1. (UnitsTellReceipts <=>
        /\ rollup[1] >= LiveGood /\ rollup[2] >= LiveDefects
        /\ shelf.A + count.sold = LiveGood
        /\ shelf.B = LiveSeconds)'
    BY UnitsToldBySums, PTL
<1>. QED
    BY <1>1

\* Typed of the next state.
LEMMA TypedNext == Typed' = <<rollup'[1] - LiveGood', rollup'[2] - LiveDefects'>>
<1>1. (Typed = <<rollup[1] - LiveGood, rollup[2] - LiveDefects>>)'
    BY TypedBySums, PTL
<1>. QED
    BY <1>1

\* The capital of the ledger is what the receipts claim.
LEMMA CapitalIsClaimed ==
    ClaimsMatchLedger => (CapitalisedOnce <=> AllManual <= count.peak)
<1>. SUFFICES ASSUME ClaimsMatchLedger
              PROVE  CapitalisedOnce <=> AllManual <= count.peak
    OBVIOUS
<1>1. [i \in Ids |-> entry[i].manual] = ManualOf
    BY DEF ClaimsMatchLedger, ManualOf
<1>2. CapitalisedOnce <=>
        SumFunctionOnSet([i \in Ids |-> entry[i].manual], Ids) <= count.peak
    BY DEF CapitalisedOnce, Sum
<1>. QED
    BY <1>1, <1>2 DEF AllManual

\* In the next state too.
LEMMA CapitalIsClaimedNext ==
    ClaimsMatchLedger' => (CapitalisedOnce' <=> AllManual' <= count'.peak)
<1>1. (ClaimsMatchLedger => (CapitalisedOnce <=> AllManual <= count.peak))'
    BY CapitalIsClaimed, PTL
<1>. QED
    BY <1>1

\* A step that keeps the counts.
LEMMA CountsKeepInv ==
    ASSUME IndInv, CountsKept
    PROVE  /\ Numbered' /\ PartialsCount'
           /\ UNCHANGED <<rollup, shelf, count>> => UnitsTellReceipts'
           /\ UNCHANGED status => FinalClosesRun'
<1>1. /\ Live' = Live /\ Posted' = Posted /\ LiveFinals' = LiveFinals
      /\ \A i \in Ids : Good(i)' = Good(i) /\ Units(i)' = Units(i)
      /\ LiveGood' = LiveGood /\ LiveSeconds' = LiveSeconds /\ LiveDefects' = LiveDefects
    BY CountsKeepSums
<1>2. Numbered'
    BY <1>1 DEF IndInv, Numbered
<1>3. PartialsCount'
    BY <1>1 DEF IndInv, PartialsCount, CountsKept, Posted
<1>4. ASSUME UNCHANGED <<rollup, shelf, count>> PROVE UnitsTellReceipts'
    BY <1>1, <1>4, UnitsToldBySums, UnitsToldNext DEF IndInv
<1>5. ASSUME UNCHANGED status PROVE FinalClosesRun'
    BY <1>1, <1>5 DEF IndInv, FinalClosesRun
<1>. QED
    BY <1>2, <1>3, <1>4, <1>5

\* A step that leaves the receipts and their entries.
LEMMA QuietKeeps ==
    ASSUME IndInv, UNCHANGED <<receipt, entry, comp>>
    PROVE  /\ CountsKept /\ ClaimsKept
           /\ ClaimsMatchLedger' /\ Blank'
           /\ count'.peak \in Nat /\ count'.peak >= count.peak => CapitalisedOnce'
           /\ UNCHANGED built => BuiltUnposted'
           /\ UNCHANGED <<built, manual>> /\ count'.peak = count.peak => PeakHolds'
<1>1. CountsKept /\ ClaimsKept
    BY DEF CountsKept, ClaimsKept
<1>2. Live' = Live /\ Posted' = Posted
    BY <1>1, CountsKeepSums
<1>3. AllManual' = AllManual /\ \A i \in Ids : OtherManual(i)' = OtherManual(i)
    BY <1>1, ClaimsKeepSums
<1>4. ClaimsMatchLedger'
    BY DEF IndInv, ClaimsMatchLedger
<1>5. Blank'
    BY <1>2 DEF IndInv, Blank
<1>6. ASSUME count'.peak \in Nat, count'.peak >= count.peak PROVE CapitalisedOnce'
    <2>1. AllManual <= count.peak /\ AllManual \in Nat /\ count.peak \in Nat
        BY CapitalIsClaimed, SumTypes DEF IndInv, ReceiptTypeOK
    <2>. QED
        BY <1>3, <1>4, <1>6, <2>1, CapitalIsClaimedNext
<1>8. UNCHANGED built => BuiltUnposted'
    BY <1>2 DEF IndInv, BuiltUnposted
<1>9. ASSUME UNCHANGED <<built, manual>>, count'.peak = count.peak PROVE PeakHolds'
    <2>1. built.of # 0 => built.of \in Ids
        BY DEF IndInv, ReceiptTypeOK
    <2>. QED
        BY <1>3, <1>9, <2>1 DEF IndInv, PeakHolds
<1>. QED
    BY <1>1, <1>4, <1>5, <1>6, <1>8, <1>9

\* Material moves, and a form is opened or refused.
LEMMA MovesKeep ==
    ASSUME IndInv, IssueMaterial \/ ReturnMaterial \/ OpenForm \/ UpdateConflicts
    PROVE  IndInv'
<1>0. UNCHANGED <<receipt, entry, comp, status, manual, rollup, costClaim, shelf, built>>
    BY DEF IssueMaterial, ReturnMaterial, OpenForm, UpdateConflicts, runVars, ledgerVars
<1>1. /\ count' \in [sold : Nat, moves : Nat, forms : Nat, entryReversals : Nat,
                     restarts : Nat, peak : Nat]
      /\ count'.peak = count.peak /\ count'.sold = count.sold
    BY DEF IssueMaterial, ReturnMaterial, OpenForm, UpdateConflicts, IndInv, ReceiptTypeOK
<1>2. issued' \in 0 .. MaxIssues
    BY ConstantTypes DEF IssueMaterial, ReturnMaterial, OpenForm, UpdateConflicts, IndInv,
                         ReceiptTypeOK, runVars
<1>3. form' \in [open : BOOLEAN, fresh : BOOLEAN]
    <2>1. CASE OpenForm \/ UpdateConflicts
        <3>1. [open |-> TRUE, fresh |-> TRUE] \in [open : BOOLEAN, fresh : BOOLEAN]
                /\ NoForm \in [open : BOOLEAN, fresh : BOOLEAN]
            BY DEF NoForm
        <3>. QED
            BY <2>1, <3>1 DEF OpenForm, UpdateConflicts
    <2>2. CASE IssueMaterial \/ ReturnMaterial
        BY <2>2 DEF IssueMaterial, ReturnMaterial, IndInv, ReceiptTypeOK
    <2>. QED
        BY <2>1, <2>2
<1>4. ReceiptTypeOK'
    BY <1>0, <1>1, <1>2, <1>3 DEF IndInv, ReceiptTypeOK
<1>5. count'.peak \in Nat /\ count'.peak >= count.peak
    BY <1>1 DEF IndInv, ReceiptTypeOK
<1>6. CountsKept /\ ClaimsMatchLedger' /\ Blank' /\ CapitalisedOnce' /\ BuiltUnposted'
        /\ PeakHolds'
    BY <1>0, <1>1, <1>5, QuietKeeps
<1>7. Numbered' /\ PartialsCount' /\ FinalClosesRun'
    BY <1>0, <1>6, CountsKeepInv
<1>8. UnitsTellReceipts'
    BY <1>0, <1>1, <1>6, CountsKeepSums, UnitsToldBySums, UnitsToldNext DEF IndInv
<1>. QED
    BY <1>3, <1>4, <1>6, <1>7, <1>8 DEF IndInv

\* A unit is sold from the shelf.
LEMMA SaleKeeps ==
    ASSUME IndInv, SellUnit
    PROVE  IndInv'
<1>0. UNCHANGED <<receipt, entry, comp, status, manual, issued, rollup, costClaim, form,
                  built>>
    BY DEF SellUnit, runVars, ledgerVars
<1>1. /\ count' \in [sold : Nat, moves : Nat, forms : Nat, entryReversals : Nat,
                     restarts : Nat, peak : Nat]
      /\ count'.peak = count.peak /\ count'.sold = count.sold + 1
      /\ count.sold \in Nat
    BY DEF SellUnit, IndInv, ReceiptTypeOK
<1>2. /\ shelf' \in [A : Nat, B : Nat]
      /\ shelf.A \in Nat
      /\ shelf'.A = shelf.A - 1 /\ shelf'.B = shelf.B
    BY DEF SellUnit, IndInv, ReceiptTypeOK
<1>3. ReceiptTypeOK'
    BY <1>0, <1>1, <1>2 DEF IndInv, ReceiptTypeOK
<1>4. count'.peak \in Nat /\ count'.peak >= count.peak
    BY <1>1 DEF IndInv, ReceiptTypeOK
<1>5. CountsKept /\ ClaimsMatchLedger' /\ Blank' /\ CapitalisedOnce'
        /\ BuiltUnposted' /\ PeakHolds'
    BY <1>0, <1>1, <1>4, QuietKeeps
<1>6. Numbered' /\ PartialsCount' /\ FinalClosesRun'
    BY <1>0, <1>5, CountsKeepInv
<1>7. shelf'.A + count'.sold = shelf.A + count.sold
    BY <1>1, <1>2
<1>8. UnitsTellReceipts'
    BY <1>0, <1>2, <1>5, <1>7, CountsKeepSums, UnitsToldBySums, UnitsToldNext DEF IndInv
<1>. QED
    BY <1>3, <1>5, <1>6, <1>8 DEF IndInv

\* The form replaces the run, or closes it.
LEMMA UpdateKeeps ==
    ASSUME IndInv, NEW versionSent \in BOOLEAN, UpdateProductionRun(versionSent)
    PROVE  IndInv'
<1>0. UNCHANGED <<receipt, entry, comp, issued, costClaim, shelf, built>>
    BY DEF UpdateProductionRun, ledgerVars
<1>1. /\ manual' \in Costs /\ status' \in Statuses
      /\ rollup' \in Nat \X Nat
      /\ rollup' = rollup \/ Live = {}
      /\ FinalClosesRun'
    <2>1. LiveFinals' = LiveFinals
        BY <1>0, QuietKeeps, CountsKeepSums
    <2>2. CASE CloseReceivedRun
        BY <2>1, <2>2 DEF CloseReceivedRun, IndInv, ReceiptTypeOK, Statuses, FinalClosesRun
    <2>3. ASSUME NEW s \in {"open", "partially_received", "cancelled", "closed"},
                 NEW m \in Costs, NEW c \in Counts, ReplaceRun(s, m, c)
          PROVE  /\ manual' \in Costs /\ status' \in Statuses
                 /\ rollup' \in Nat \X Nat /\ (rollup' = rollup \/ Live = {})
                 /\ FinalClosesRun'
        <3>1. c \in Nat \X Nat /\ rollup \in Nat \X Nat
            BY ConstantTypes DEF IndInv, ReceiptTypeOK
        <3>2. rollup' = IF Live = {} THEN c ELSE rollup
            BY <2>3 DEF ReplaceRun
        <3>3. LiveFinals = {} /\ status' # "received"
            BY <2>3 DEF ReplaceRun, IndInv, FinalClosesRun
        <3>4. FinalClosesRun'
            BY <2>1, <3>3 DEF IndInv, FinalClosesRun
        <3>. QED
            BY <2>3, <3>1, <3>2, <3>4 DEF ReplaceRun, Statuses
    <2>. QED
        BY <2>2, <2>3 DEF UpdateProductionRun
<1>2. /\ manual' \in Nat /\ count.peak \in Nat
    BY <1>1, ConstantTypes DEF IndInv, ReceiptTypeOK
<1>3. /\ count' \in [sold : Nat, moves : Nat, forms : Nat, entryReversals : Nat,
                     restarts : Nat, peak : Nat]
      /\ count'.peak \in Nat
      /\ count'.peak >= count.peak /\ count'.peak >= manual'
      /\ count'.sold = count.sold
    <2>1. PICK p \in Nat : p = IF manual' > count.peak THEN manual' ELSE count.peak
        BY <1>2
    <2>2. count' = [count EXCEPT !.peak = p]
        BY <2>1 DEF UpdateProductionRun
    <2>3. p >= count.peak /\ p >= manual'
        BY <1>2, <2>1
    <2>. QED
        BY <2>2, <2>3 DEF IndInv, ReceiptTypeOK
<1>4. form' = NoForm
    BY DEF UpdateProductionRun
<1>5. form' \in [open : BOOLEAN, fresh : BOOLEAN]
    BY <1>4 DEF NoForm
<1>6. ReceiptTypeOK'
    BY <1>0, <1>1, <1>3, <1>5 DEF IndInv, ReceiptTypeOK
<1>7. CountsKept /\ ClaimsKept /\ ClaimsMatchLedger' /\ Blank' /\ CapitalisedOnce'
        /\ BuiltUnposted'
    BY <1>0, <1>3, QuietKeeps
<1>8. Numbered' /\ PartialsCount'
    BY <1>0, <1>7, CountsKeepInv
<1>9. UnitsTellReceipts'
    <2>1. /\ LiveGood' = LiveGood /\ LiveDefects' = LiveDefects
          /\ LiveSeconds' = LiveSeconds
        BY <1>7, CountsKeepSums
    <2>2. Live = {} => LiveGood = 0 /\ LiveDefects = 0
        BY SumEmpty DEF LiveGood, LiveDefects
    <2>3. /\ rollup[1] >= LiveGood /\ rollup[2] >= LiveDefects
          /\ shelf.A + count.sold = LiveGood /\ shelf.B = LiveSeconds
        BY UnitsToldBySums DEF IndInv
    <2>4. rollup'[1] >= LiveGood' /\ rollup'[2] >= LiveDefects'
        BY <1>1, <2>1, <2>2, <2>3
    <2>. QED
        BY <1>0, <1>3, <2>1, <2>3, <2>4, UnitsToldNext
<1>10. PeakHolds'
    <2>1. CASE built.of = 0
        BY <1>0, <1>3, <2>1 DEF PeakHolds
    <2>2. CASE built.of # 0
        <3>1. PICK b \in Ids : b = built.of
            BY <2>2 DEF IndInv, ReceiptTypeOK
        <3>2. OtherManual(b)' = OtherManual(b)
            BY <1>7, ClaimsKeepSums
        <3>3. built.lines.manual + OtherManual(b) <= count.peak
            BY <2>2, <3>1 DEF IndInv, PeakHolds
        <3>4. OtherManual(b) \in Nat /\ built.lines.manual \in Nat
            BY OthersClaims DEF IndInv, ReceiptTypeOK, Lines
        <3>5. built.lines.manual + OtherManual(b)' <= count'.peak
            BY <1>2, <1>3, <3>2, <3>3, <3>4
        <3>. QED
            BY <1>0, <1>3, <3>1, <3>5 DEF PeakHolds
    <2>. QED
        BY <2>1, <2>2
<1>. QED
    BY <1>1, <1>5, <1>6, <1>7, <1>8, <1>9, <1>10 DEF IndInv

\* What the worker builds for an unposted receipt.
LEMMA BuiltLines ==
    ASSUME IndInv, NEW i \in Ids, Unposted(i)
    PROVE  /\ BuildProductionReceiveEntry(i) \in Lines
           /\ BuildProductionReceiveEntry(i).manual \in Nat
           /\ BuildProductionReceiveEntry(i).manual = AtLeastZero(manual - OtherManual(i))
           /\ BuildProductionReceiveEntry(i).manual + OtherManual(i) <= count.peak
           /\ receipt[i].manual = 0 /\ receipt[i].fg = 0
           /\ i \in Live /\ i \in Posted
<1>1. i \in Live /\ i \in Posted /\ entry[i] = NoEntry
    BY DEF Unposted, Live, Posted
<1>2. /\ BuildProductionReceiveEntry(i) \in Lines
      /\ BuildProductionReceiveEntry(i).manual = AtLeastZero(manual - OtherManual(i))
    <2>1. CASE receipt[i].final
        BY <2>1, FinalMoves DEF IndInv
    <2>2. CASE ~receipt[i].final
        <3>1. Units(i) > 0
            BY <1>1, <2>2 DEF IndInv, PartialsCount
        <3>. QED
            BY <2>2, <3>1, PartialMoves DEF IndInv
    <2>. QED
        BY <2>1, <2>2
<1>3. receipt[i].manual = 0 /\ receipt[i].fg = 0
    BY <1>1 DEF IndInv, ClaimsMatchLedger, NoEntry, Live
<1>4. /\ manual \in Nat /\ OtherManual(i) \in Nat /\ count.peak \in Nat
      /\ manual <= count.peak /\ OtherManual(i) <= count.peak
    <2>1. AllManual = OtherManual(i) /\ OtherManual(i) \in Nat
        BY <1>3, OthersClaims DEF IndInv
    <2>2. AllManual <= count.peak
        BY CapitalIsClaimed DEF IndInv
    <2>. QED
        BY <2>1, <2>2, ConstantTypes DEF IndInv, ReceiptTypeOK, PeakHolds
<1>5. /\ AtLeastZero(manual - OtherManual(i)) \in Nat
      /\ AtLeastZero(manual - OtherManual(i)) + OtherManual(i) <= count.peak
    BY <1>4 DEF AtLeastZero
<1>. QED
    BY <1>1, <1>2, <1>3, <1>5

\* An entry is built.
LEMMA BuildKeeps ==
    ASSUME IndInv, NEW i \in Ids, BuildReceipt(i)
    PROVE  IndInv'
<1>0. UNCHANGED <<receipt, entry, comp, status, manual, issued, rollup, costClaim, shelf,
                  form, count>>
    BY DEF BuildReceipt, runVars, ledgerVars
<1>1. PICK l : l = BuildProductionReceiveEntry(i)
    OBVIOUS
<1>2. built' = [of |-> i, lines |-> l] /\ Unposted(i)
    BY <1>1 DEF BuildReceipt
<1>3. l \in Lines /\ l.manual + OtherManual(i) <= count.peak /\ i \in Live /\ i \in Posted
    BY <1>1, <1>2, BuiltLines
<1>4. ReceiptTypeOK'
    BY <1>0, <1>2, <1>3 DEF IndInv, ReceiptTypeOK
<1>5. count'.peak \in Nat /\ count'.peak >= count.peak
    BY <1>0 DEF IndInv, ReceiptTypeOK
<1>6. CountsKept /\ ClaimsKept /\ ClaimsMatchLedger' /\ Blank' /\ CapitalisedOnce'
    BY <1>0, <1>5, QuietKeeps
<1>7. Numbered' /\ PartialsCount' /\ FinalClosesRun' /\ UnitsTellReceipts'
    BY <1>0, <1>6, CountsKeepInv
<1>8. BuiltUnposted'
    <2>1. Posted' = Posted /\ Live' = Live
        BY <1>6, CountsKeepSums
    <2>. QED
        BY <1>0, <1>2, <1>3, <2>1 DEF BuiltUnposted, Unposted
<1>9. PeakHolds'
    <2>1. OtherManual(i)' = OtherManual(i)
        BY <1>6, ClaimsKeepSums
    <2>2. built'.of = i /\ built'.lines = l
        BY <1>2
    <2>. QED
        BY <1>0, <1>3, <2>1, <2>2 DEF IndInv, PeakHolds
<1>. QED
    BY <1>4, <1>6, <1>7, <1>8, <1>9 DEF IndInv

\* Nothing is built, and no lines.
LEMMA NothingBuiltKeeps ==
    ASSUME IndInv, built' = NothingBuilt, manual' = manual, count'.peak = count.peak
    PROVE  /\ built' \in [of : Ids \cup {0}, lines : Lines]
           /\ BuiltUnposted' /\ PeakHolds'
BY DEF NothingBuilt, NoEntry, Lines, BuiltUnposted, PeakHolds, IndInv

\* The worker restarts.
LEMMA RestartKeeps ==
    ASSUME IndInv, WorkerRestarts
    PROVE  IndInv'
<1>0. UNCHANGED <<receipt, entry, comp, status, manual, issued, rollup, costClaim, shelf,
                  form>>
    BY DEF WorkerRestarts, runVars, ledgerVars
<1>1. /\ count' \in [sold : Nat, moves : Nat, forms : Nat, entryReversals : Nat,
                     restarts : Nat, peak : Nat]
      /\ count'.peak = count.peak /\ count'.sold = count.sold
    BY DEF WorkerRestarts, IndInv, ReceiptTypeOK
<1>2. /\ built' \in [of : Ids \cup {0}, lines : Lines]
      /\ BuiltUnposted' /\ PeakHolds'
    BY <1>0, <1>1, NothingBuiltKeeps DEF WorkerRestarts
<1>3. ReceiptTypeOK'
    BY <1>0, <1>1, <1>2 DEF IndInv, ReceiptTypeOK
<1>4. count'.peak \in Nat /\ count'.peak >= count.peak
    BY <1>1 DEF IndInv, ReceiptTypeOK
<1>5. CountsKept /\ ClaimsMatchLedger' /\ Blank' /\ CapitalisedOnce'
    BY <1>0, <1>4, QuietKeeps
<1>6. Numbered' /\ PartialsCount' /\ FinalClosesRun'
    BY <1>0, <1>5, CountsKeepInv
<1>7. UnitsTellReceipts'
    BY <1>0, <1>1, <1>5, CountsKeepSums, UnitsToldBySums, UnitsToldNext DEF IndInv
<1>. QED
    BY <1>2, <1>3, <1>5, <1>6, <1>7 DEF IndInv

(***************************************************************************)
(* Steps of the ledger                                                     *)
(***************************************************************************)
\* The claims after an entry was booked.
LEMMA BookedClaims ==
    ASSUME ReceiptTypeOK, NEW i \in Ids, NEW l \in Lines, Booked(i, l)
    PROVE  /\ OtherManual(i)' = OtherManual(i) /\ OtherFg(i)' = OtherFg(i)
           /\ AllManual' = OtherManual(i) + l.manual
           /\ AllFg' = OtherFg(i) + l.fg
<1>1. /\ ManualOf' \in [Ids -> Nat] /\ FgOf' \in [Ids -> Nat]
      /\ ManualOf'[i] = l.manual /\ FgOf'[i] = l.fg
      /\ \A j \in Ids \ {i} : ManualOf'[j] = ManualOf[j] /\ FgOf'[j] = FgOf[j]
    BY DEF Booked, Receipts, ManualOf, FgOf
<1>2. /\ OtherManual(i) = SumFunctionOnSet(ManualOf, Ids \ {i})
      /\ OtherFg(i) = SumFunctionOnSet(FgOf, Ids \ {i})
    BY DEF OtherManual, OtherFg, Sum, ManualOf, FgOf
<1>3. /\ OtherManual(i)' = SumFunctionOnSet(ManualOf', Ids \ {i})
      /\ OtherFg(i)' = SumFunctionOnSet(FgOf', Ids \ {i})
    BY DEF OtherManual, OtherFg, Sum, ManualOf, FgOf
<1>4. SumFunctionOnSet(ManualOf', Ids \ {i}) = SumFunctionOnSet(ManualOf, Ids \ {i})
    BY <1>1, FunctionTypes, SumSame
<1>5. SumFunctionOnSet(FgOf', Ids \ {i}) = SumFunctionOnSet(FgOf, Ids \ {i})
    BY <1>1, FunctionTypes, SumSame
<1>6. SumFunctionOnSet(ManualOf', Ids \ {i}) = AllManual' - l.manual
    BY <1>1, SumLoses DEF AllManual
<1>7. SumFunctionOnSet(FgOf', Ids \ {i}) = AllFg' - l.fg
    BY <1>1, SumLoses DEF AllFg
<1>8. AllManual' \in Nat /\ AllFg' \in Nat
    BY <1>1, SumOverIds DEF AllManual, AllFg
<1>. QED
    BY <1>2, <1>3, <1>4, <1>5, <1>6, <1>7, <1>8 DEF Lines

\* Booking the entry of a live receipt keeps the claims and the counts.
LEMMA BookedKeeps ==
    ASSUME IndInv, NEW i \in Live, NEW l \in Lines, Booked(i, l)
    PROVE  /\ receipt' \in [Ids -> Receipts]
           /\ entry' \in [Ids -> Lines] /\ comp' \in [Ids -> Lines]
           /\ CountsKept /\ ClaimsMatchLedger' /\ Blank' /\ Numbered' /\ PartialsCount'
<1>1. /\ receipt' \in [Ids -> Receipts]
      /\ CountsKept
      /\ \A j \in Ids \ {i} : receipt'[j] = receipt[j]
      /\ entry' = [entry EXCEPT ![i] = l]
      /\ receipt'[i].manual = l.manual
      /\ receipt'[i].fg = l.fg
      /\ UNCHANGED comp
    BY DEF Booked
<1>2. i \in Ids /\ i \in Posted /\ receipt[i].state = "live"
    BY DEF Live, Posted
<1>3. /\ entry' \in [Ids -> Lines] /\ comp' \in [Ids -> Lines]
      /\ entry'[i] = l /\ \A j \in Ids \ {i} : entry'[j] = entry[j]
    BY <1>1, <1>2 DEF IndInv, ReceiptTypeOK
<1>4. Numbered' /\ PartialsCount' /\ Posted' = Posted
    BY <1>1, CountsKeepInv, CountsKeepSums
<1>5. Blank'
    BY <1>1, <1>2, <1>3, <1>4 DEF IndInv, Blank
<1>6. ClaimsMatchLedger'
    <2>1. comp[i] = NoEntry /\ receipt'[i].state = "live" /\ l.fg \in Int
        BY <1>1, <1>2 DEF IndInv, ClaimsMatchLedger, CountsKept, Lines
    <2>2. ASSUME NEW j \in Ids
          PROVE  /\ receipt'[j].manual = entry'[j].manual
                 /\ receipt'[j].fg = entry'[j].fg - comp'[j].fg
                 /\ receipt'[j].state = "reversed" =>
                        receipt'[j].fg = 0 /\ comp'[j].writeOff = entry'[j].writeOff
                 /\ receipt'[j].state = "live" => comp'[j] = NoEntry
        <3>1. CASE j = i
            BY <1>1, <1>3, <2>1, <3>1 DEF NoEntry
        <3>2. CASE j # i
            BY <1>1, <1>3, <3>2 DEF IndInv, ClaimsMatchLedger
        <3>. QED
            BY <3>1, <3>2
    <2>. QED
        BY <2>2 DEF ClaimsMatchLedger
<1>. QED
    BY <1>1, <1>3, <1>4, <1>5, <1>6

\* The built entry is posted, or dropped for a reversed receipt.
LEMMA PostKeeps ==
    ASSUME IndInv, NEW i \in Ids, PostReceipt(i)
    PROVE  IndInv'
<1>0. /\ UNCHANGED <<status, manual, issued, rollup, costClaim, comp, shelf, form, count>>
      /\ built' = NothingBuilt /\ built.of = i
    BY DEF PostReceipt, runVars
<1>1. count'.peak \in Nat /\ count'.peak >= count.peak /\ count'.peak = count.peak
    BY <1>0 DEF IndInv, ReceiptTypeOK
<1>2. built' \in [of : Ids \cup {0}, lines : Lines] /\ BuiltUnposted' /\ PeakHolds'
    BY <1>0, <1>1, NothingBuiltKeeps
<1>3. CASE receipt[i].state = "reversed"
    <2>1. UNCHANGED <<receipt, entry, comp>>
        BY <1>3, PostingWrites DEF IndInv
    <2>2. ReceiptTypeOK'
        BY <1>0, <1>2, <2>1 DEF IndInv, ReceiptTypeOK
    <2>3. CountsKept /\ ClaimsMatchLedger' /\ Blank' /\ CapitalisedOnce'
        BY <1>0, <1>1, <2>1, QuietKeeps
    <2>4. Numbered' /\ PartialsCount' /\ FinalClosesRun' /\ UnitsTellReceipts'
        BY <1>0, <2>3, CountsKeepInv
    <2>. QED
        BY <1>2, <2>2, <2>3, <2>4 DEF IndInv
<1>4. CASE receipt[i].state # "reversed"
    <2>1. PICK l \in Lines : l = built.lines
        BY DEF IndInv, ReceiptTypeOK
    <2>2. i \in Live
        BY <1>0, <1>4 DEF IndInv, BuiltUnposted, Posted, Live, ReceiptTypeOK, Receipts, Ids
    <2>3. Booked(i, l)
        BY <1>4, <2>1, PostingWrites DEF IndInv
    <2>4. /\ receipt' \in [Ids -> Receipts]
          /\ entry' \in [Ids -> Lines] /\ comp' \in [Ids -> Lines]
          /\ CountsKept /\ ClaimsMatchLedger' /\ Blank' /\ Numbered' /\ PartialsCount'
        BY <2>2, <2>3, BookedKeeps
    <2>5. ReceiptTypeOK'
        BY <1>0, <1>2, <2>4 DEF IndInv, ReceiptTypeOK
    <2>6. FinalClosesRun' /\ UnitsTellReceipts'
        BY <1>0, <2>4, CountsKeepInv
    <2>7. CapitalisedOnce'
        <3>1. AllManual' = OtherManual(i) + l.manual
            BY <2>3, BookedClaims DEF IndInv
        <3>2. l.manual + OtherManual(i) <= count.peak
            BY <1>0, <2>1, IdsFinite DEF IndInv, PeakHolds
        <3>3. l.manual \in Nat /\ OtherManual(i) \in Nat
            BY OthersClaims DEF IndInv, Lines
        <3>. QED
            BY <1>0, <2>4, <3>1, <3>2, <3>3, CapitalIsClaimedNext
    <2>. QED
        BY <1>2, <2>4, <2>5, <2>6, <2>7 DEF IndInv
<1>. QED
    BY <1>3, <1>4

\* A failed attempt is recorded.
LEMMA FailureKeeps ==
    ASSUME IndInv, NEW i \in Ids, PostingFails(i)
    PROVE  IndInv'
<1>0. /\ UNCHANGED <<status, manual, issued, rollup, costClaim, shelf, form, count>>
      /\ built' = NothingBuilt
    BY DEF PostingFails, runVars
<1>1. /\ receipt' \in [Ids -> Receipts]
      /\ CountsKept /\ ClaimsKept /\ UNCHANGED <<entry, comp>>
    BY FailureWrites DEF IndInv
<1>2. built' \in [of : Ids \cup {0}, lines : Lines] /\ BuiltUnposted' /\ PeakHolds'
    BY <1>0, NothingBuiltKeeps
<1>3. ReceiptTypeOK'
    BY <1>0, <1>1, <1>2 DEF IndInv, ReceiptTypeOK
<1>4. Numbered' /\ PartialsCount' /\ FinalClosesRun' /\ UnitsTellReceipts'
    BY <1>0, <1>1, CountsKeepInv
<1>5. ClaimsMatchLedger'
    BY <1>1 DEF IndInv, ClaimsMatchLedger, CountsKept, ClaimsKept
<1>6. Blank'
    BY <1>1, CountsKeepSums DEF IndInv, Blank
<1>7. CapitalisedOnce'
    BY <1>0, <1>1, <1>5, ClaimsKeepSums, CapitalIsClaimed, CapitalIsClaimedNext DEF IndInv
<1>. QED
    BY <1>2, <1>3, <1>4, <1>5, <1>6, <1>7 DEF IndInv

\* An accountant reverses an entry.
LEMMA EntryReversalKeeps ==
    ASSUME IndInv, NEW i \in Ids, ReverseJournalEntry(i)
    PROVE  IndInv'
<1>0. /\ UNCHANGED <<status, manual, issued, rollup, costClaim, comp, shelf, form, built>>
      /\ entry[i] # NoEntry /\ i \in Live
    BY DEF ReverseJournalEntry, runVars
<1>1. /\ count' \in [sold : Nat, moves : Nat, forms : Nat, entryReversals : Nat,
                     restarts : Nat, peak : Nat]
      /\ count'.peak = count.peak /\ count'.sold = count.sold
    BY DEF ReverseJournalEntry, IndInv, ReceiptTypeOK
<1>2. PICK l \in Lines : l = NoEntry
    BY DEF NoEntry, Lines
<1>3. Booked(i, l)
    BY <1>2, EntryReversalWrites DEF IndInv
<1>4. /\ receipt' \in [Ids -> Receipts]
      /\ entry' \in [Ids -> Lines] /\ comp' \in [Ids -> Lines]
      /\ CountsKept /\ ClaimsMatchLedger' /\ Blank' /\ Numbered' /\ PartialsCount'
    BY <1>0, <1>3, BookedKeeps
<1>5. ReceiptTypeOK'
    BY <1>0, <1>1, <1>4 DEF IndInv, ReceiptTypeOK
<1>6. FinalClosesRun'
    BY <1>0, <1>4, CountsKeepInv
<1>7. UnitsTellReceipts'
    BY <1>0, <1>1, <1>4, CountsKeepSums, UnitsToldBySums, UnitsToldNext DEF IndInv
<1>8. AllManual' \in Nat /\ AllManual' <= AllManual
    <2>1. AllManual' = OtherManual(i)
        BY <1>2, <1>3, BookedClaims, OthersClaims DEF IndInv, NoEntry
    <2>. QED
        BY <2>1, OthersClaims, SumTypes, Types DEF IndInv
<1>9. CapitalisedOnce'
    BY <1>1, <1>4, <1>8, CapitalIsClaimed, CapitalIsClaimedNext, SumTypes
       DEF IndInv, ReceiptTypeOK
<1>11. built.of # i
    BY <1>0, IdsFinite DEF IndInv, BuiltUnposted
<1>12. BuiltUnposted'
    <2>1. built.of # 0 => built.of \in Ids
        BY DEF IndInv, ReceiptTypeOK
    <2>2. \A j \in Ids \ {i} : entry'[j] = entry[j]
        BY <1>3 DEF Booked, IndInv, ReceiptTypeOK
    <2>. QED
        BY <1>0, <1>4, <1>11, <2>1, <2>2, CountsKeepSums DEF IndInv, BuiltUnposted
<1>13. PeakHolds'
    <2>1. CASE built.of = 0
        BY <1>0, <1>1, <2>1 DEF IndInv, PeakHolds
    <2>2. CASE built.of # 0
        <3>1. PICK b \in Ids \ {i} : b = built.of
            BY <1>11, <2>2 DEF IndInv, ReceiptTypeOK
        <3>2. receipt'[b].manual = receipt[b].manual /\ receipt[b].manual \in Nat
            BY <1>3, Types DEF Booked, IndInv
        <3>3. AllManual = OtherManual(b) + receipt[b].manual /\ OtherManual(b) \in Nat
            BY OthersClaims DEF IndInv
        <3>4. OtherManual(b)' \in Nat /\ AllManual' = OtherManual(b)' + receipt'[b].manual
            BY <1>5, ClaimsAddUpNext
        <3>5. OtherManual(b)' <= OtherManual(b)
            BY <1>8, <3>2, <3>3, <3>4, SumTypes DEF IndInv
        <3>6. built.lines.manual + OtherManual(b) <= count.peak
            BY <2>2, <3>1 DEF IndInv, PeakHolds
        <3>7. built.lines.manual \in Nat /\ count.peak \in Nat
            BY DEF IndInv, ReceiptTypeOK, Lines
        <3>8. built.lines.manual + OtherManual(b)' <= count'.peak
            BY <1>1, <3>3, <3>4, <3>5, <3>6, <3>7
        <3>. QED
            BY <1>0, <1>1, <3>1, <3>8 DEF IndInv, PeakHolds
    <2>. QED
        BY <2>1, <2>2
<1>. QED
    BY <1>4, <1>5, <1>6, <1>7, <1>9, <1>12, <1>13 DEF IndInv

(***************************************************************************)
(* The receipt commands                                                    *)
(***************************************************************************)
\* The abnormal scrap is part of the units, of the next receipt's series too.
LEMMA AbnormalWithin ==
    ASSUME IndInv, NEW d \in Delivery
    PROVE  Abnormal(LiveScrap + d.scrap,
                    rollup[1] + d.good + rollup[2] + d.scrap + d.seconds)
             <= rollup[1] + d.good + rollup[2] + d.scrap + d.seconds
<1>1. d.good \in Nat /\ d.scrap \in Nat /\ d.seconds \in Nat
    BY DEF Delivery
<1>2. /\ LiveScrap \in Nat /\ LiveSeconds \in Nat
      /\ LiveDefects = LiveScrap + LiveSeconds
    BY SumTypes DEF IndInv
<1>3. rollup[2] >= LiveDefects /\ rollup[1] \in Nat /\ rollup[2] \in Nat
    BY UnitsToldBySums DEF IndInv, ReceiptTypeOK
<1>4. PICK u \in Nat : u = rollup[1] + d.good + rollup[2] + d.scrap + d.seconds
    BY <1>1, <1>3
<1>5. Abnormal(LiveScrap + d.scrap, u) \in Nat
        /\ Abnormal(LiveScrap + d.scrap, u) <= LiveScrap + d.scrap
    <2>1. LiveScrap + d.scrap \in Nat
        BY <1>1, <1>2
    <2>. QED
        BY <2>1, AbnormalNat
<1>6. LiveScrap + d.scrap <= u
    BY <1>1, <1>2, <1>3, <1>4
<1>. QED
    BY <1>1, <1>2, <1>4, <1>5, <1>6

\* A delivery is received.
LEMMA DeliveryKeeps ==
    ASSUME IndInv, NEW d \in Delivery, NEW final \in BOOLEAN, NEW seed \in BOOLEAN,
           PostProductionRunReceipt(d, final, seed)
    PROVE  IndInv'
<1>0. /\ UNCHANGED <<manual, issued, entry, comp, built, count>>
      /\ RunOpen
      /\ d = Nothing => final
      /\ rollup' = <<rollup[1] + d.good, rollup[2] + d.scrap + d.seconds>>
      /\ shelf' = [A |-> shelf.A + d.good, B |-> shelf.B + d.seconds]
      /\ costClaim' = (costClaim \/ (final /\ seed /\ CostKnown /\ rollup'[1] > 0))
      /\ status' = StatusAfter(final)
      /\ form' = [form EXCEPT !.fresh = FALSE]
    BY DEF PostProductionRunReceipt, ledgerVars, BumpLockVersion
<1>1. PICK n \in Ids \ Posted :
         /\ receipt' \in [Ids -> Receipts]
         /\ \A j \in Ids \ {n} : receipt'[j] = receipt[j]
         /\ receipt'[n].counted = d
         /\ receipt'[n].state = "live"
         /\ receipt'[n].final = final
         /\ ClaimsKept
         /\ Live' = Live \cup {n} /\ Posted' = Posted \cup {n}
         /\ Numbered'
    BY AbnormalWithin, DeliveryWrites DEF IndInv
<1>2. d.good \in Nat /\ d.scrap \in Nat /\ d.seconds \in Nat
    BY DEF Delivery
<1>3. /\ rollup' \in Nat \X Nat /\ shelf' \in [A : Nat, B : Nat]
      /\ costClaim' \in BOOLEAN /\ status' \in Statuses
      /\ form' \in [open : BOOLEAN, fresh : BOOLEAN]
    <2>1. rollup' \in Nat \X Nat
        BY <1>0, <1>2 DEF IndInv, ReceiptTypeOK
    <2>2. shelf' \in [A : Nat, B : Nat]
        BY <1>0, <1>2 DEF IndInv, ReceiptTypeOK
    <2>3. costClaim' \in BOOLEAN
        BY <1>0
    <2>4. status' \in Statuses
        BY <1>0 DEF StatusAfter, Statuses
    <2>5. form' \in [open : BOOLEAN, fresh : BOOLEAN]
        BY <1>0 DEF IndInv, ReceiptTypeOK
    <2>. QED
        BY <2>1, <2>2, <2>3, <2>4, <2>5
<1>4. ReceiptTypeOK'
    BY <1>0, <1>1, <1>3 DEF IndInv, ReceiptTypeOK
<1>5. UnitsTellReceipts'
    <2>1. /\ LiveGood' = LiveGood + d.good /\ LiveSeconds' = LiveSeconds + d.seconds
          /\ LiveDefects' = LiveDefects + d.scrap + d.seconds
        BY <1>1, DeliverySums DEF IndInv
    <2>2. /\ rollup[1] >= LiveGood /\ rollup[2] >= LiveDefects
          /\ shelf.A + count.sold = LiveGood /\ shelf.B = LiveSeconds
        BY UnitsToldBySums DEF IndInv
    <2>3. /\ shelf.A \in Nat /\ count.sold \in Nat
          /\ rollup[1] \in Nat /\ rollup[2] \in Nat
          /\ LiveGood \in Nat /\ LiveDefects \in Nat
        BY SumTypes DEF IndInv, ReceiptTypeOK
    <2>4. rollup'[1] >= LiveGood' /\ rollup'[2] >= LiveDefects'
        BY <1>0, <1>2, <2>1, <2>2, <2>3
    <2>5. shelf'.A + count'.sold = LiveGood' /\ shelf'.B = LiveSeconds'
        BY <1>0, <1>2, <2>1, <2>2, <2>3
    <2>. QED
        BY <2>4, <2>5, UnitsToldNext
<1>6. ClaimsMatchLedger'
    BY <1>0, <1>1 DEF IndInv, ClaimsMatchLedger, ClaimsKept, Blank
<1>7. CapitalisedOnce'
    BY <1>0, <1>1, <1>6, ClaimsKeepSums, CapitalIsClaimed, CapitalIsClaimedNext DEF IndInv
<1>8. FinalClosesRun'
    <2>1. LiveFinals = {}
        BY <1>0 DEF IndInv, FinalClosesRun, RunOpen
    <2>2. CASE final
        <3>1. LiveFinals' = {n}
            BY <1>1, <2>1, <2>2 DEF LiveFinals, Live
        <3>2. Cardinality({n}) = 1
            BY FS_Singleton
        <3>. QED
            BY <1>0, <2>2, <3>1, <3>2 DEF FinalClosesRun, StatusAfter
    <2>3. CASE ~final
        <3>1. LiveFinals' = {}
            BY <1>1, <2>1, <2>3 DEF LiveFinals, Live
        <3>2. Cardinality({}) = 0
            BY FS_EmptySet
        <3>. QED
            BY <1>0, <2>3, <3>1, <3>2 DEF FinalClosesRun, StatusAfter
    <2>. QED
        BY <2>2, <2>3
<1>10. Blank'
    BY <1>0, <1>1 DEF IndInv, Blank
<1>11. PartialsCount'
    <2>1. final \/ d.good + d.scrap + d.seconds > 0
        <3>1. d = [good |-> d.good, scrap |-> d.scrap, seconds |-> d.seconds]
            BY DEF Delivery
        <3>. QED
            BY <1>0, <1>2, <3>1 DEF Nothing
    <2>2. receipt'[n].final \/ Units(n)' > 0
        BY <1>1, <2>1 DEF Units, Good, Scrap, Seconds
    <2>3. ASSUME NEW j \in Posted PROVE receipt'[j].final \/ Units(j)' > 0
        <3>1. j \in Ids /\ j # n
            BY <1>1 DEF Posted
        <3>. QED
            BY <1>1, <3>1 DEF IndInv, PartialsCount, Units, Good, Scrap, Seconds
    <2>. QED
        BY <1>1, <2>2, <2>3 DEF PartialsCount
<1>13. BuiltUnposted'
    BY <1>0, <1>1 DEF IndInv, BuiltUnposted
<1>14. PeakHolds'
    <2>1. built.of # 0 => built.of \in Ids
        BY DEF IndInv, ReceiptTypeOK
    <2>. QED
        BY <1>0, <1>1, <2>1, ClaimsKeepSums DEF IndInv, PeakHolds
<1>. QED
    BY <1>1, <1>4, <1>5, <1>6, <1>7, <1>8, <1>10, <1>11, <1>13, <1>14
       DEF IndInv

\* A step that keeps the capital claims keeps their sums.
LEMMA ManualKeepsSums ==
    ASSUME \A i \in Ids : receipt'[i].manual = receipt[i].manual
    PROVE  AllManual' = AllManual /\ \A i \in Ids : OtherManual(i)' = OtherManual(i)
<1>1. ManualOf' = ManualOf
    BY DEF ManualOf
<1>2. \A i \in Ids : OtherManual(i) = SumFunctionOnSet(ManualOf, Ids \ {i})
    BY DEF OtherManual, Sum, ManualOf
<1>3. \A i \in Ids : OtherManual(i)' = SumFunctionOnSet(ManualOf', Ids \ {i})
    BY DEF OtherManual, Sum, ManualOf
<1>. QED
    BY <1>1, <1>2, <1>3 DEF AllManual

\* At most one final receipt is live.
LEMMA OneFinal ==
    ASSUME IndInv, NEW f \in LiveFinals, NEW g \in LiveFinals
    PROVE  f = g
<1>. SUFFICES ASSUME f # g PROVE FALSE
    OBVIOUS
<1>1. IsFiniteSet(LiveFinals)
    <2>1. LiveFinals \subseteq Live
        BY DEF LiveFinals
    <2>. QED
        BY <2>1, LiveFinite, FS_Subset
<1>2. IsFiniteSet({g}) /\ Cardinality({g}) = 1
    BY FS_Singleton
<1>3. IsFiniteSet({g} \cup {f}) /\ Cardinality({g} \cup {f}) = 2
    BY <1>2, FS_AddElement
<1>4. Cardinality({g} \cup {f}) <= Cardinality(LiveFinals)
    <2>1. {g} \cup {f} \subseteq LiveFinals
        OBVIOUS
    <2>. QED
        BY <1>1, <2>1, FS_Subset
<1>5. Cardinality(LiveFinals) <= 1 /\ Cardinality(LiveFinals) \in Nat
    BY <1>1, FS_CardinalityType DEF IndInv, FinalClosesRun
<1>. QED
    BY <1>3, <1>4, <1>5

\* After a reversal no final receipt is live.
LEMMA ReversalLeavesNoFinal ==
    ASSUME IndInv, NEW i \in Live, NewestFirst(i)
    PROVE  \A j \in Live \ {i} : ~receipt[j].final
<1>1. CASE receipt[i].final
    BY <1>1, OneFinal DEF LiveFinals
<1>2. CASE LiveFinals = {}
    BY <1>2 DEF LiveFinals
<1>. QED
    BY <1>1, <1>2 DEF NewestFirst

\* A receipt is reversed.
LEMMA ReversalKeeps ==
    ASSUME IndInv, NEW i \in Ids, ReverseProductionRunReceipt(i)
    PROVE  IndInv'
<1>0. /\ UNCHANGED <<manual, issued, entry, built, count>>
      /\ NewestFirst(i) /\ InStock(i)
      /\ shelf' = [A |-> shelf.A - Good(i), B |-> shelf.B - Seconds(i)]
      /\ rollup' = <<rollup[1] - Good(i), rollup[2] - Scrap(i) - Seconds(i)>>
      /\ costClaim' = (costClaim /\ (Good(i) > 0 => StillStocked(i)))
      /\ status' = RecomputedStatus(Live \ {i})
      /\ form' = [form EXCEPT !.fresh = FALSE]
    BY DEF ReverseProductionRunReceipt, BumpLockVersion
<1>1. /\ i \in Live
      /\ receipt' \in [Ids -> Receipts]
      /\ \A j \in Ids \ {i} : receipt'[j] = receipt[j]
      /\ receipt'[i].counted = receipt[i].counted
      /\ receipt'[i].state = "reversed"
      /\ receipt'[i].final = receipt[i].final
      /\ receipt'[i].manual = receipt[i].manual
      /\ receipt'[i].fg = 0
      /\ comp' = [comp EXCEPT ![i] = Compensation(i)]
      /\ Live' = Live \ {i} /\ Posted' = Posted
    BY ReversalWrites DEF IndInv
<1>2. /\ LiveGood' = LiveGood - Good(i) /\ LiveSeconds' = LiveSeconds - Seconds(i)
      /\ LiveDefects' = LiveDefects - Scrap(i) - Seconds(i)
      /\ Good(i) <= LiveGood /\ Scrap(i) + Seconds(i) <= LiveDefects
    BY <1>1, ReversalSums DEF IndInv
<1>3. /\ rollup[1] >= LiveGood /\ rollup[2] >= LiveDefects
      /\ shelf.A + count.sold = LiveGood /\ shelf.B = LiveSeconds
    BY UnitsToldBySums DEF IndInv
<1>4. /\ Good(i) \in Nat /\ Scrap(i) \in Nat /\ Seconds(i) \in Nat
      /\ LiveGood \in Nat /\ LiveDefects \in Nat
      /\ rollup[1] \in Nat /\ rollup[2] \in Nat
      /\ shelf.A \in Nat /\ shelf.B \in Nat /\ count.sold \in Nat
    BY Types, SumTypes DEF IndInv, ReceiptTypeOK
<1>5. \A j \in Live \ {i} : ~receipt[j].final
    BY <1>0, <1>1, ReversalLeavesNoFinal
<1>6. status' \in {"open", "partially_received"}
    BY <1>0, <1>5 DEF RecomputedStatus
<1>7. comp' \in [Ids -> Lines] /\ comp'[i] = Compensation(i)
        /\ \A j \in Ids \ {i} : comp'[j] = comp[j]
    <2>1. entry[i].fg \in Nat /\ receipt[i].fg \in Nat /\ entry[i].writeOff \in Nat
        BY Types DEF IndInv
    <2>2. Least(entry[i].fg, receipt[i].fg) \in Nat
        BY <2>1 DEF Least
    <2>3. Compensation(i) \in Lines
        BY <2>1, <2>2 DEF Compensation, Lines
    <2>. QED
        BY <1>1, <2>3 DEF IndInv, ReceiptTypeOK
<1>8. ReceiptTypeOK'
    <2>1. rollup' \in Nat \X Nat
        <3>1. rollup[1] - Good(i) \in Nat /\ rollup[2] - Scrap(i) - Seconds(i) \in Nat
            BY <1>2, <1>3, <1>4
        <3>. QED
            BY <1>0, <3>1
    <2>2. shelf' \in [A : Nat, B : Nat]
        <3>1. shelf.A - Good(i) \in Nat /\ shelf.B - Seconds(i) \in Nat
            BY <1>0, <1>4 DEF InStock
        <3>. QED
            BY <1>0, <3>1
    <2>3. costClaim' \in BOOLEAN
        BY <1>0
    <2>4. status' \in Statuses
        BY <1>6 DEF Statuses
    <2>5. form' \in [open : BOOLEAN, fresh : BOOLEAN]
        BY <1>0 DEF IndInv, ReceiptTypeOK
    <2>. QED
        BY <1>0, <1>1, <1>7, <2>1, <2>2, <2>3, <2>4, <2>5 DEF IndInv, ReceiptTypeOK
<1>9. UnitsTellReceipts'
    <2>1. rollup'[1] >= LiveGood' /\ rollup'[2] >= LiveDefects'
        BY <1>0, <1>2, <1>3, <1>4
    <2>2. shelf'.A + count'.sold = LiveGood' /\ shelf'.B = LiveSeconds'
        BY <1>0, <1>2, <1>3, <1>4
    <2>. QED
        BY <2>1, <2>2, UnitsToldNext
<1>10. ClaimsMatchLedger'
    <2>1. /\ receipt[i].manual = entry[i].manual
          /\ receipt[i].fg = entry[i].fg - comp[i].fg
          /\ comp[i] = NoEntry /\ entry[i].fg \in Nat
        BY <1>1, Types DEF IndInv, ClaimsMatchLedger, Live
    <2>2. receipt[i].fg = entry[i].fg
        BY <2>1 DEF NoEntry
    <2>3. Compensation(i).fg = entry[i].fg /\ Compensation(i).writeOff = entry[i].writeOff
        BY <2>1, <2>2 DEF Compensation, Least
    <2>4. ASSUME NEW j \in Ids
          PROVE  /\ receipt'[j].manual = entry'[j].manual
                 /\ receipt'[j].fg = entry'[j].fg - comp'[j].fg
                 /\ receipt'[j].state = "reversed" =>
                        receipt'[j].fg = 0 /\ comp'[j].writeOff = entry'[j].writeOff
                 /\ receipt'[j].state = "live" => comp'[j] = NoEntry
        <3>1. CASE j = i
            BY <1>0, <1>1, <1>7, <2>1, <2>3, <3>1
        <3>2. CASE j # i
            BY <1>0, <1>1, <1>7, <3>2 DEF IndInv, ClaimsMatchLedger
        <3>. QED
            BY <3>1, <3>2
    <2>. QED
        BY <2>4 DEF ClaimsMatchLedger
<1>11. \A j \in Ids : receipt'[j].manual = receipt[j].manual
    BY <1>1
<1>12. CapitalisedOnce'
    BY <1>0, <1>10, <1>11, ManualKeepsSums, CapitalIsClaimed, CapitalIsClaimedNext
       DEF IndInv
<1>13. FinalClosesRun'
    <2>1. LiveFinals' = {}
        BY <1>1, <1>5 DEF LiveFinals, Live
    <2>2. Cardinality({}) = 0
        BY FS_EmptySet
    <2>. QED
        BY <1>6, <2>1, <2>2 DEF FinalClosesRun
<1>15. Numbered' /\ Blank'
    BY <1>0, <1>1, <1>7 DEF IndInv, Numbered, Blank, Live, Posted
<1>16. PartialsCount'
    <2>1. \A j \in Ids : Units(j)' = Units(j) /\ receipt'[j].final = receipt[j].final
        BY <1>1 DEF Units, Good, Scrap, Seconds
    <2>. QED
        BY <1>1, <2>1 DEF IndInv, PartialsCount, Posted
<1>18. BuiltUnposted'
    BY <1>0, <1>1 DEF IndInv, BuiltUnposted
<1>19. PeakHolds'
    <2>1. built.of # 0 => built.of \in Ids
        BY DEF IndInv, ReceiptTypeOK
    <2>. QED
        BY <1>0, <1>11, <2>1, ManualKeepsSums DEF IndInv, PeakHolds
<1>. QED
    BY <1>8, <1>9, <1>10, <1>12, <1>13, <1>15, <1>16, <1>18, <1>19
       DEF IndInv

(***************************************************************************)
(* The theorems                                                            *)
(***************************************************************************)
\* The invariant holds when the run starts.
LEMMA InitInv == Init => IndInv
<1>. SUFFICES ASSUME Init PROVE IndInv
    OBVIOUS
<1>1. /\ receipt = [i \in Ids |-> Absent]
      /\ entry = [i \in Ids |-> NoEntry] /\ comp = [i \in Ids |-> NoEntry]
      /\ rollup \in Nat \X Nat /\ shelf = [A |-> 0, B |-> 0]
    BY ConstantTypes DEF Init
<1>2. Absent \in Receipts /\ NoEntry \in Lines
    BY ConstantTypes DEF Absent, NoEntry, Receipts, Lines
<1>3. manual \in Nat
    BY ConstantTypes DEF Init
<1>4. ReceiptTypeOK
    <2>1. status \in Statuses /\ manual \in Costs /\ issued \in 0 .. MaxIssues
        BY DEF Init, Statuses
    <2>2. rollup \in Nat \X Nat /\ shelf \in [A : Nat, B : Nat] /\ costClaim \in BOOLEAN
        <3>1. rollup \in Nat \X Nat /\ shelf \in [A : Nat, B : Nat]
            BY <1>1
        <3>2. costClaim \in BOOLEAN
            BY Zenon DEF Init
        <3>. QED
            BY <3>1, <3>2
    <2>3. receipt \in [Ids -> Receipts] /\ entry \in [Ids -> Lines] /\ comp \in [Ids -> Lines]
        BY <1>1, <1>2
    <2>4. form \in [open : BOOLEAN, fresh : BOOLEAN]
        BY DEF Init, NoForm
    <2>5. built \in [of : Ids \cup {0}, lines : Lines]
        BY <1>2 DEF Init, NothingBuilt
    <2>6. count \in [sold : Nat, moves : Nat, forms : Nat, entryReversals : Nat,
                     restarts : Nat, peak : Nat]
        BY <1>3 DEF Init
    <2>. QED
        BY <2>1, <2>2, <2>3, <2>4, <2>5, <2>6 DEF ReceiptTypeOK
<1>5. Live = {} /\ Posted = {} /\ LiveFinals = {}
    BY <1>1 DEF Live, Posted, LiveFinals, Absent
<1>6. LiveGood = 0 /\ LiveDefects = 0 /\ LiveSeconds = 0
    BY <1>5, SumEmpty DEF LiveGood, LiveDefects, LiveSeconds
<1>7. UnitsTellReceipts
    BY <1>1, <1>6, UnitsToldBySums DEF Init
<1>8. ClaimsMatchLedger
    BY <1>1 DEF ClaimsMatchLedger, Absent, NoEntry
<1>9. CapitalisedOnce
    <2>1. AllManual = 0
        BY <1>1, IdsFinite, SumZero DEF AllManual, ManualOf, Absent
    <2>. QED
        BY <1>3, <1>8, <2>1, CapitalIsClaimed DEF Init
<1>10. FinalClosesRun
    BY <1>5, FS_EmptySet DEF FinalClosesRun, Init
<1>12. Numbered
    <2>1. 0 \in 0 .. MaxReceipts /\ 1 .. 0 = {}
        BY ConstantTypes
    <2>. QED
        BY <1>5, <2>1 DEF Numbered
<1>13. Blank /\ PartialsCount
    BY <1>1, <1>5 DEF Blank, PartialsCount
<1>14. BuiltUnposted /\ PeakHolds
    BY <1>3 DEF BuiltUnposted, PeakHolds, Init, NothingBuilt
<1>. QED
    BY <1>4, <1>7, <1>8, <1>9, <1>10, <1>12, <1>13, <1>14 DEF IndInv

\* Every step preserves it.
LEMMA NextInv == IndInv /\ [Next]_vars => IndInv'
<1>. SUFFICES ASSUME IndInv, [Next]_vars PROVE IndInv'
    OBVIOUS
<1>1. CASE IssueMaterial \/ ReturnMaterial \/ OpenForm \/ UpdateConflicts
    BY <1>1, MovesKeep
<1>2. CASE SellUnit
    BY <1>2, SaleKeeps
<1>3. ASSUME NEW versionSent \in BOOLEAN, UpdateProductionRun(versionSent) PROVE IndInv'
    BY <1>3, UpdateKeeps
<1>4. ASSUME NEW d \in Deliveries \cup {Nothing}, NEW final \in BOOLEAN,
             NEW seed \in BOOLEAN, PostProductionRunReceipt(d, final, seed)
      PROVE  IndInv'
    BY <1>4, ConstantTypes, DeliveryKeeps
<1>5. ASSUME NEW i \in Ids, ReverseProductionRunReceipt(i) PROVE IndInv'
    BY <1>5, ReversalKeeps
<1>6. ASSUME NEW i \in Ids, ReverseJournalEntry(i) PROVE IndInv'
    BY <1>6, EntryReversalKeeps
<1>7. ASSUME NEW i \in Ids, BuildReceipt(i) PROVE IndInv'
    BY <1>7, BuildKeeps
<1>8. ASSUME NEW i \in Ids, PostReceipt(i) PROVE IndInv'
    BY <1>8, PostKeeps
<1>9. ASSUME NEW i \in Ids, PostingFails(i) PROVE IndInv'
    BY <1>9, FailureKeeps
<1>10. CASE WorkerRestarts
    BY <1>10, RestartKeeps
<1>11. CASE UNCHANGED vars
    <2>1. UNCHANGED <<receipt, entry, comp, status, manual, issued, rollup, costClaim,
                      shelf, form, built, count>>
        BY <1>11 DEF vars, runVars, ledgerVars
    <2>2. ReceiptTypeOK' /\ count'.peak \in Nat /\ count'.peak >= count.peak
        BY <2>1 DEF IndInv, ReceiptTypeOK
    <2>3. CountsKept /\ ClaimsMatchLedger' /\ Blank' /\ CapitalisedOnce'
            /\ BuiltUnposted' /\ PeakHolds'
        BY <2>1, <2>2, QuietKeeps
    <2>4. Numbered' /\ PartialsCount' /\ FinalClosesRun' /\ UnitsTellReceipts'
        BY <2>1, <2>3, CountsKeepInv
    <2>. QED
        BY <2>2, <2>3, <2>4 DEF IndInv
<1>. QED
    BY <1>1, <1>2, <1>3, <1>4, <1>5, <1>6, <1>7, <1>8, <1>9, <1>10, <1>11
       DEF Next, RunNext, Posting

\* The invariant always holds.
LEMMA InvHolds == Spec => []IndInv
BY InitInv, NextInv, PTL DEF Spec

\* Every run keeps the shape of its state: reversals, sales and edits never take
\* stock or counters below zero (the checks of reverseReceiptStockTx).
THEOREM ReceiptTypeCorrect == Spec => []ReceiptTypeOK
<1>1. IndInv => ReceiptTypeOK
    BY DEF IndInv
<1>. QED
    BY <1>1, InvHolds, PTL

\* The product's stock and what was sold of it are always the units of the live
\* receipts, and the plan line's counters hold at least those, whatever is typed,
\* edited, sold or reversed in between.
THEOREM UnitsAlwaysTold == Spec => []UnitsTellReceipts
<1>1. IndInv => UnitsTellReceipts
    BY DEF IndInv
<1>. QED
    BY <1>1, InvHolds, PTL

\* Claims and ledger always agree: posting and reversal never both have their way
\* with one receipt (the receipt row lock).
THEOREM ClaimsAlwaysMatch == Spec => []ClaimsMatchLedger
<1>1. IndInv => ClaimsMatchLedger
    BY DEF IndInv
<1>. QED
    BY <1>1, InvHolds, PTL

\* The cost articles are capitalised at most once over all receipts.
THEOREM CapitalisedAtMostOnce == Spec => []CapitalisedOnce
<1>1. IndInv => CapitalisedOnce
    BY DEF IndInv
<1>. QED
    BY <1>1, InvHolds, PTL

\* At most one final receipt is live, and the run is received or closed with it.
THEOREM FinalAlwaysCloses == Spec => []FinalClosesRun
<1>1. IndInv => FinalClosesRun
    BY DEF IndInv
<1>. QED
    BY <1>1, InvHolds, PTL

(***************************************************************************)
(* The counters and the claim on the cost price                            *)
(***************************************************************************)
\* A save writes the counters only if it finds no live receipt.
LEMMA SaveWrites ==
    ASSUME NEW versionSent \in BOOLEAN, UpdateProductionRun(versionSent)
    PROVE  /\ CountsKept /\ UNCHANGED costClaim
           /\ UNCHANGED rollup \/ Live = {}
<1>1. CountsKept /\ UNCHANGED costClaim
    BY DEF UpdateProductionRun, CountsKept
<1>2. UNCHANGED rollup \/ Live = {}
    <2>1. CASE CloseReceivedRun
        BY <2>1 DEF CloseReceivedRun
    <2>2. ASSUME NEW s, NEW m, NEW c, ReplaceRun(s, m, c)
          PROVE  UNCHANGED rollup \/ Live = {}
        BY <2>2 DEF ReplaceRun
    <2>. QED
        BY <2>1, <2>2 DEF UpdateProductionRun
<1>. QED
    BY <1>1, <1>2

\* Only saves, receipts and their reversals write the counters or the claim.
LEMMA CountersWritten ==
    ASSUME IndInv, [Next]_vars
    PROVE  \/ CountsKept /\ UNCHANGED <<rollup, costClaim>>
           \/ \E versionSent \in BOOLEAN : UpdateProductionRun(versionSent)
           \/ \E d \in Delivery, final, seed \in BOOLEAN :
                 PostProductionRunReceipt(d, final, seed)
           \/ \E i \in Ids : ReverseProductionRunReceipt(i)
<1>1. CASE \/ IssueMaterial \/ ReturnMaterial \/ OpenForm \/ UpdateConflicts \/ SellUnit
           \/ WorkerRestarts \/ UNCHANGED vars
    BY <1>1 DEF IssueMaterial, ReturnMaterial, OpenForm, UpdateConflicts, SellUnit,
                WorkerRestarts, vars, runVars, CountsKept
<1>2. ASSUME NEW i \in Ids, ReverseJournalEntry(i)
      PROVE  CountsKept /\ UNCHANGED <<rollup, costClaim>>
    BY <1>2, EntryReversalWrites DEF IndInv, Booked, ReverseJournalEntry, runVars
<1>3. ASSUME NEW i \in Ids, BuildReceipt(i)
      PROVE  CountsKept /\ UNCHANGED <<rollup, costClaim>>
    BY <1>3 DEF BuildReceipt, runVars, CountsKept
<1>4. ASSUME NEW i \in Ids, PostReceipt(i)
      PROVE  CountsKept /\ UNCHANGED <<rollup, costClaim>>
    <2>1. CountsKept
        BY <1>4, PostingWrites DEF IndInv, Booked, CountsKept
    <2>. QED
        BY <1>4, <2>1 DEF PostReceipt, runVars
<1>5. ASSUME NEW i \in Ids, PostingFails(i)
      PROVE  CountsKept /\ UNCHANGED <<rollup, costClaim>>
    BY <1>5, FailureWrites DEF IndInv, PostingFails, runVars
<1>6. ASSUME NEW d \in Deliveries \cup {Nothing}, NEW final \in BOOLEAN,
             NEW seed \in BOOLEAN, PostProductionRunReceipt(d, final, seed)
      PROVE  \E e \in Delivery, f, c \in BOOLEAN : PostProductionRunReceipt(e, f, c)
    <2>1. d \in Delivery
        BY ConstantTypes
    <2>. QED
        BY <1>6, <2>1
<1>. QED
    BY <1>1, <1>2, <1>3, <1>4, <1>5, <1>6 DEF Next, RunNext, Posting

\* The counters and the sums they are compared with are numbers.
LEMMA CounterTypes ==
    ASSUME IndInv
    PROVE  /\ rollup[1] \in Nat /\ rollup[2] \in Nat
           /\ LiveGood \in Nat /\ LiveDefects \in Nat
BY SumTypes DEF IndInv, ReceiptTypeOK

\* A receipt adds to the counters what it counted.
LEMMA DeliveryTyped ==
    ASSUME IndInv, NEW d \in Delivery, NEW final \in BOOLEAN, NEW seed \in BOOLEAN,
           PostProductionRunReceipt(d, final, seed)
    PROVE  Typed' = Typed
<1>1. /\ LiveGood' = LiveGood + d.good
      /\ LiveDefects' = LiveDefects + d.scrap + d.seconds
    BY AbnormalWithin, DeliveryWrites, DeliverySums DEF IndInv
<1>2. /\ rollup'[1] = rollup[1] + d.good
      /\ rollup'[2] = rollup[2] + d.scrap + d.seconds
    BY DEF PostProductionRunReceipt
<1>3. d.good \in Nat /\ d.scrap \in Nat /\ d.seconds \in Nat
    BY DEF Delivery
<1>4. /\ rollup'[1] - LiveGood' = rollup[1] - LiveGood
      /\ rollup'[2] - LiveDefects' = rollup[2] - LiveDefects
    BY <1>1, <1>2, <1>3, CounterTypes
<1>. QED
    BY <1>4, TypedBySums, TypedNext

\* A reversal takes from the counters what its receipt counted.
LEMMA ReversalTyped ==
    ASSUME IndInv, NEW i \in Ids, ReverseProductionRunReceipt(i)
    PROVE  Typed' = Typed
<1>1. /\ LiveGood' = LiveGood - Good(i)
      /\ LiveDefects' = LiveDefects - Scrap(i) - Seconds(i)
    BY ReversalWrites, ReversalSums DEF IndInv
<1>2. /\ rollup'[1] = rollup[1] - Good(i)
      /\ rollup'[2] = rollup[2] - Scrap(i) - Seconds(i)
    BY DEF ReverseProductionRunReceipt
<1>3. Good(i) \in Nat /\ Scrap(i) \in Nat /\ Seconds(i) \in Nat
    BY Types DEF IndInv
<1>4. /\ rollup'[1] - LiveGood' = rollup[1] - LiveGood
      /\ rollup'[2] - LiveDefects' = rollup[2] - LiveDefects
    BY <1>1, <1>2, <1>3, CounterTypes
<1>. QED
    BY <1>4, TypedBySums, TypedNext

\* What was typed into the counters changes by a save without a live receipt only.
LEMMA StepTyped ==
    ASSUME IndInv, [Next]_vars
    PROVE  Typed' # Typed => Live = {} /\ Live' = {}
<1>1. ASSUME CountsKept
      PROVE  Live' = Live /\ (UNCHANGED rollup => Typed' = Typed)
    <2>1. Live' = Live /\ LiveGood' = LiveGood /\ LiveDefects' = LiveDefects
        BY <1>1, CountsKeepSums
    <2>. QED
        BY <2>1, TypedBySums, TypedNext
<1>2. ASSUME NEW versionSent \in BOOLEAN, UpdateProductionRun(versionSent)
      PROVE  Typed' # Typed => Live = {} /\ Live' = {}
    BY <1>1, <1>2, SaveWrites
<1>. QED
    BY <1>1, <1>2, CountersWritten, DeliveryTyped, ReversalTyped

\* A claim made or kept by a delivery rests on a live receipt of good units, or on
\* units that were typed.
LEMMA DeliveryEarned ==
    ASSUME IndInv, IndInv', Earned, NEW d \in Delivery, NEW final \in BOOLEAN,
           NEW seed \in BOOLEAN, PostProductionRunReceipt(d, final, seed)
    PROVE  Earned' \/ Typed'[1] > 0
<1>. SUFFICES ASSUME costClaim', ~(Typed'[1] > 0) PROVE \E i \in Live' : Good(i)' > 0
    BY DEF Earned
<1>0. costClaim' = (costClaim \/ (final /\ seed /\ CostKnown /\ rollup'[1] > 0))
    BY DEF PostProductionRunReceipt
<1>1. PICK n \in Ids \ Posted :
         /\ receipt' \in [Ids -> Receipts]
         /\ \A j \in Ids \ {n} : receipt'[j] = receipt[j]
         /\ Live' = Live \cup {n}
    BY AbnormalWithin, DeliveryWrites DEF IndInv
<1>2. CASE costClaim
    <2>1. PICK j \in Live : Good(j) > 0
        BY <1>2 DEF Earned
    <2>2. j \in Ids /\ j # n
        BY <1>1 DEF Live, Posted
    <2>. QED
        BY <1>1, <2>1, <2>2 DEF Good
<1>3. CASE ~costClaim
    <2>1. rollup'[1] > 0
        BY <1>0, <1>3
    <2>2. GoodOf' \in [Ids -> Nat] /\ Live' \in SUBSET Ids
        BY <1>1 DEF Live, GoodOf, Good, Receipts, Delivery
    <2>3. LiveGood' \in Nat
        BY <2>2, SumOverIds DEF LiveGood
    <2>4. rollup'[1] \in Nat /\ ~(rollup'[1] - LiveGood' > 0)
        BY TypedNext DEF IndInv, ReceiptTypeOK
    <2>5. LiveGood' > 0
        BY <2>1, <2>3, <2>4
    <2>6. PICK j \in Live' : GoodOf'[j] > 0
        BY <2>2, <2>5, SumPositive DEF LiveGood
    <2>7. GoodOf'[j] = Good(j)'
        BY <2>2 DEF GoodOf
    <2>. QED
        BY <2>6, <2>7
<1>. QED
    BY <1>2, <1>3

\* A reversal keeps the claim only if another live receipt earned it.
LEMMA ReversalEarned ==
    ASSUME IndInv, Earned, NEW i \in Ids, ReverseProductionRunReceipt(i)
    PROVE  Earned'
<1>. SUFFICES ASSUME costClaim' PROVE \E j \in Live' : Good(j)' > 0
    BY DEF Earned
<1>1. /\ \A j \in Ids \ {i} : receipt'[j] = receipt[j]
      /\ Live' = Live \ {i}
    BY ReversalWrites DEF IndInv
<1>2. costClaim /\ (Good(i) > 0 => StillStocked(i))
    BY DEF ReverseProductionRunReceipt
<1>3. PICK j \in Live \ {i} : Good(j) > 0
    BY <1>2 DEF Earned, StillStocked
<1>4. j \in Live' /\ Good(j)' = Good(j)
    BY <1>1, <1>3 DEF Live, Good
<1>. QED
    BY <1>3, <1>4

\* A claim that was earned stays so, unless good units were typed.
LEMMA StepEarned ==
    ASSUME IndInv, IndInv', [Next]_vars
    PROVE  Earned /\ ~Earned' => Typed'[1] > 0
<1>. SUFFICES ASSUME Earned PROVE Earned' \/ Typed'[1] > 0
    OBVIOUS
<1>1. ASSUME CountsKept, UNCHANGED costClaim PROVE Earned'
    <2>1. Live' = Live /\ \A i \in Ids : Good(i)' = Good(i)
        BY <1>1, CountsKeepSums
    <2>. QED
        BY <1>1, <2>1 DEF Earned, Live
<1>2. ASSUME NEW versionSent \in BOOLEAN, UpdateProductionRun(versionSent) PROVE Earned'
    BY <1>1, <1>2, SaveWrites
<1>. QED
    BY <1>1, <1>2, CountersWritten, DeliveryEarned, ReversalEarned

\* While a receipt is live the plan line's counters move with the receipts alone,
\* for every delivery, save and interleaving: what an operator typed before the
\* first one stays in them, and no save, with or without a lock version, writes
\* over what a receipt counted.
THEOREM CountersOwned == Spec => ReceiptsOwnCounters
<1>1. IndInv /\ [Next]_vars =>
          [(rollup' # rollup \/ receipt' # receipt) /\ Live \cup Live' # {} => Typed' = Typed]_vars
    BY StepTyped
<1>. QED
    BY <1>1, InvHolds, PTL DEF Spec, ReceiptsOwnCounters

\* The claim on the product's cost price never loses, and is never made without,
\* the live receipt of good units it rests on, unless good units were typed into
\* the counters (seedIDs, and the clearing in the reversal).
THEOREM CostPriceAlwaysEarned == Spec => CostPriceEarned
<1>1. IndInv /\ IndInv' /\ [Next]_vars => [Earned /\ ~Earned' => Typed'[1] > 0]_vars
    BY StepEarned
<1>. QED
    BY <1>1, InvHolds, PTL DEF Spec, CostPriceEarned

(***************************************************************************)
(* Work in progress and the cost price                                     *)
(***************************************************************************)
\* A step while a final receipt is live either reverses a receipt, after which
\* none is, or leaves the counts, the counters, the cost articles and the material.
LEMMA FinalFreezes ==
    ASSUME IndInv, [Next]_vars, LiveFinals # {},
           \A i \in Ids : ~ReverseProductionRunReceipt(i)
    PROVE  CountsKept /\ UNCHANGED <<manual, issued, rollup>>
<1>1. status \in {"received", "closed"} /\ ~RunOpen
    BY DEF IndInv, FinalClosesRun, RunOpen
<1>2. CASE IssueMaterial \/ ReturnMaterial
    BY <1>1, <1>2 DEF IssueMaterial, ReturnMaterial
<1>3. CASE OpenForm \/ UpdateConflicts \/ SellUnit \/ WorkerRestarts \/ UNCHANGED vars
    BY <1>3 DEF OpenForm, UpdateConflicts, SellUnit, WorkerRestarts, vars, runVars,
                CountsKept
<1>4. ASSUME NEW versionSent \in BOOLEAN, UpdateProductionRun(versionSent)
      PROVE  CountsKept /\ UNCHANGED <<manual, issued, rollup>>
    <2>1. CloseReceivedRun
        BY <1>1, <1>4 DEF UpdateProductionRun, ReplaceRun
    <2>. QED
        BY <1>4, <2>1 DEF UpdateProductionRun, CloseReceivedRun, CountsKept
<1>5. ASSUME NEW d \in Deliveries \cup {Nothing}, NEW final \in BOOLEAN,
             NEW seed \in BOOLEAN, PostProductionRunReceipt(d, final, seed)
      PROVE  FALSE
    BY <1>1, <1>5 DEF PostProductionRunReceipt
<1>6. ASSUME NEW i \in Ids, ReverseJournalEntry(i)
      PROVE  CountsKept /\ UNCHANGED <<manual, issued, rollup>>
    BY <1>6, EntryReversalWrites DEF IndInv, Booked, ReverseJournalEntry, runVars
<1>7. ASSUME NEW i \in Ids, BuildReceipt(i)
      PROVE  CountsKept /\ UNCHANGED <<manual, issued, rollup>>
    BY <1>7 DEF BuildReceipt, runVars, CountsKept
<1>8. ASSUME NEW i \in Ids, PostReceipt(i)
      PROVE  CountsKept /\ UNCHANGED <<manual, issued, rollup>>
    <2>1. CountsKept
        BY <1>8, PostingWrites DEF IndInv, Booked, CountsKept
    <2>. QED
        BY <1>8, <2>1 DEF PostReceipt, runVars
<1>9. ASSUME NEW i \in Ids, PostingFails(i)
      PROVE  CountsKept /\ UNCHANGED <<manual, issued, rollup>>
    BY <1>9, FailureWrites DEF IndInv, PostingFails, runVars
<1>. QED
    BY <1>2, <1>3, <1>4, <1>5, <1>6, <1>7, <1>8, <1>9 DEF Next, RunNext, Posting

\* A frozen run keeps its shares and its cost price.
LEMMA FrozenShares ==
    ASSUME CountsKept, UNCHANGED <<manual, issued>>
    PROVE  /\ \A t : LostOf(t)' = LostOf(t) /\ TargetOf(t)' = TargetOf(t)
           /\ \A f \in Ids : CostsNormalShare(f)' <=> CostsNormalShare(f)
<1>1. LiveGood' = LiveGood /\ LiveScrap' = LiveScrap /\ LiveUnits' = LiveUnits
    BY CountsKeepSums
<1>2. Abnormal(LiveScrap, LiveUnits)' = Abnormal(LiveScrap, LiveUnits)
    BY <1>1 DEF Abnormal, AtLeastZero
<1>3. \A f \in Ids : receipt'[f].unitCost = receipt[f].unitCost
    BY DEF CountsKept
<1>. QED
    BY <1>1, <1>2, <1>3 DEF LostOf, TargetOf, CostsNormalShare

\* Types of what WipInv speaks of.
LEMMA WipTypes ==
    ASSUME ReceiptTypeOK
    PROVE  /\ manual \in Nat /\ issued \in Nat /\ issued * IssueValue \in Nat
           /\ SeriesWip \in Nat /\ AllManual \in Nat /\ AllFg \in Nat
           /\ PostedFinals \subseteq LiveFinals /\ LiveFinals \subseteq Live
           /\ Live \subseteq Ids
           /\ built.lines \in Lines
           /\ built.lines.manual \in Nat /\ built.lines.fg \in Nat
           /\ built.lines.writeOff \in Nat
<1>1. manual \in Nat /\ issued \in Nat
    BY ConstantTypes DEF ReceiptTypeOK
<1>2. issued * IssueValue \in Nat
    BY <1>1, ConstantTypes, Products
<1>3. AllManual \in Nat /\ AllFg \in Nat
    BY SumTypes
<1>4. /\ built.lines \in Lines
      /\ built.lines.manual \in Nat /\ built.lines.fg \in Nat
      /\ built.lines.writeOff \in Nat
    BY DEF ReceiptTypeOK, Lines
<1>. QED
    BY <1>1, <1>2, <1>3, <1>4 DEF SeriesWip, PostedFinals, LiveFinals, Live

\* A step that leaves entries and claims, and the run's value while a final
\* receipt is live.
Stays ==
    /\ UNCHANGED entry
    /\ ClaimsKept
    /\ \/ CountsKept /\ UNCHANGED <<manual, issued>>
       \/ PostedFinals' = {}
    /\ count'.moves = 0 => count.moves = 0 /\ UNCHANGED issued

\* Such a step keeps what the work in progress is known to hold.
LEMMA StaysWip ==
    ASSUME IndInv, WipTaken, Stays
    PROVE  /\ AllManual' = AllManual /\ AllFg' = AllFg
           /\ UNCHANGED issued => SeriesWip' = SeriesWip
           /\ PostedFinals' # {} => PostedFinals' = PostedFinals
           /\ WipTaken'
<1>1. AllManual' = AllManual /\ AllFg' = AllFg
    BY ClaimsKeepSums DEF Stays
<1>2. UNCHANGED issued => SeriesWip' = SeriesWip
    BY <1>1 DEF SeriesWip
<1>3. CASE PostedFinals' = {}
    BY <1>1, <1>2, <1>3 DEF Stays, WipTaken
<1>4. CASE CountsKept /\ UNCHANGED <<manual, issued>>
    <2>1. PostedFinals' = PostedFinals /\ LiveGood' = LiveGood
        BY <1>4, CountsKeepSums DEF PostedFinals, Stays
    <2>2. PICK t : t = SeriesWip
        OBVIOUS
    <2>3. LostOf(t)' = LostOf(t)
        BY <1>4, FrozenShares
    <2>4. LostOf(SeriesWip)' = LostOf(SeriesWip)
        <3>1. SeriesWip' = t
            BY <1>2, <1>4, <2>2
        <3>. QED
            BY <2>2, <2>3, <3>1 DEF LostOf
    <2>5. WipTaken'
        BY <1>1, <1>2, <1>4, <2>1, <2>4 DEF Stays, WipTaken
    <2>. QED
        BY <1>1, <1>2, <2>1, <2>5
<1>. QED
    BY <1>1, <1>2, <1>3, <1>4 DEF Stays

\* The built entry stays right, too.
LEMMA StaysBuilt ==
    ASSUME IndInv, WipTaken, BuiltTakes, Stays, UNCHANGED built,
           built.of \in Live' => built.of \in Live,
           \A i \in Posted : receipt'[i].final = receipt[i].final,
           LiveFinals # {} => UNCHANGED <<receipt, manual, issued>>
    PROVE  BuiltTakes'
<1>. SUFFICES ASSUME built.of \in Live' PROVE BuiltTakes'
    BY DEF BuiltTakes
<1>1. PICK i \in Live : i = built.of
    OBVIOUS
<1>2. i \in Ids /\ i \in Posted /\ receipt'[i].final = receipt[i].final
    BY DEF Live, Posted
<1>3. OtherFg(i)' = OtherFg(i) /\ OtherManual(i)' = OtherManual(i)
    BY <1>2, ClaimsKeepSums DEF Stays
<1>4. CASE receipt[i].final
    <2>1. UNCHANGED <<receipt, manual, issued>>
        BY <1>4 DEF LiveFinals
    <2>2. BuildProductionReceiveEntry(i)' = BuildProductionReceiveEntry(i)
        BY <1>2, <2>1, EntrySteady
    <2>. QED
        BY <1>1, <1>2, <1>4, <2>2 DEF BuiltTakes
<1>5. CASE ~receipt[i].final
    <2>1. count'.moves = 0 =>
            OtherFg(i)' + built.lines.fg
                <= issued' * IssueValue + OtherManual(i)' + built.lines.manual
        BY <1>1, <1>3, <1>5 DEF BuiltTakes, Stays
    <2>2. ASSUME PostedFinals' # {}
          PROVE  /\ built.lines.manual = 0
                 /\ built.lines.fg > 0 =>
                        /\ LiveGood' # 0
                        /\ OtherFg(i)' + built.lines.fg <= TargetOf(SeriesWip)'
        <3>1. CountsKept /\ UNCHANGED <<manual, issued>> /\ PostedFinals # {}
            BY <2>2, StaysWip DEF Stays
        <3>2. PICK t : t = SeriesWip
            OBVIOUS
        <3>3. SeriesWip' = t /\ TargetOf(t)' = TargetOf(t) /\ LiveGood' = LiveGood
            BY <3>1, <3>2, StaysWip, FrozenShares, CountsKeepSums
        <3>4. TargetOf(SeriesWip)' = TargetOf(SeriesWip)
            BY <3>2, <3>3 DEF TargetOf
        <3>. QED
            BY <1>1, <1>3, <1>5, <3>1, <3>3, <3>4 DEF BuiltTakes
    <2>. QED
        BY <1>1, <1>2, <1>5, <2>1, <2>2 DEF BuiltTakes
<1>. QED
    BY <1>4, <1>5

\* A frozen cost price stays covered while the goods in the ledger only grow.
LEMMA FrozenCost ==
    ASSUME IndInv, CostFrozen, CountsKept, UNCHANGED <<manual, issued, rollup>>,
           AllFg' \in Nat, AllFg' >= AllFg,
           \A f \in LiveFinals : entry'[f] # entry[f] => CostsCovered(f)'
    PROVE  CostFrozen'
<1>1. /\ LiveGood' = LiveGood /\ LiveDefects' = LiveDefects
      /\ LiveFinals' = LiveFinals /\ LiveFinals \subseteq Ids
    BY CountsKeepSums DEF LiveFinals, Live
<1>0. NothingTyped' => NothingTyped
    BY <1>1 DEF NothingTyped
<1>2. ASSUME NEW f \in LiveFinals
      PROVE  /\ CostsCovered(f) => CostsCovered(f)'
             /\ CostsNormalShare(f)' <=> CostsNormalShare(f)
    <2>1. receipt'[f].unitCost = receipt[f].unitCost
        BY <1>1 DEF CountsKept
    <2>2. receipt[f].unitCost \in Nat /\ LiveGood \in Nat /\ AllFg \in Nat
        BY <1>1, SumTypes, Types DEF IndInv, Receipts
    <2>3. LiveGood * receipt[f].unitCost \in Nat
        BY <2>2, Products
    <2>4. CostsCovered(f) => CostsCovered(f)'
        BY <1>1, <2>1, <2>2, <2>3 DEF CostsCovered
    <2>5. f \in Ids
        BY <1>1
    <2>. QED
        BY <2>4, <2>5, FrozenShares
<1>. QED
    BY <1>0, <1>1, <1>2 DEF CostFrozen, PostedFinals

\* A total that is valued without its abnormal share covers the normal share of
\* any smaller total.
LEMMA NormalShareCovered ==
    ASSUME NEW u \in Nat \ {0}, NEW g \in Nat, NEW c \in Nat, NEW a \in Nat, a <= u,
           NEW t \in Nat, NEW m \in Nat, m <= t, NEW lost \in Nat, NEW fg \in Nat,
           2 * (u * (g * c)) <= 2 * (m * (u - a)) + u * g,
           2 * u * lost <= 2 * (t * a) + u,
           t <= fg + lost
    PROVE  2 * (g * c) <= 2 * fg + g + 1
<1>1. PICK x \in Nat : x = g * c
    BY Products
<1>2. m * (u - a) <= t * (u - a)
    <2>1. u - a \in Nat
        OBVIOUS
    <2>. QED
        BY <2>1, Products
<1>3. t * (u - a) = t * u - t * a
    OBVIOUS
<1>4. t * a \in Nat /\ t * u \in Nat /\ m * (u - a) \in Int
    BY Products
<1>5. u * t <= u * (fg + lost) /\ u * (fg + lost) = u * fg + u * lost /\ u * t = t * u
    BY Products
<1>6. 2 * (u * x) <= 2 * (u * fg) + u * g + u
    BY <1>1, <1>2, <1>3, <1>4, <1>5
<1>7. u * (2 * x) <= u * (2 * fg + g + 1)
    BY <1>1, <1>6
<1>8. 2 * x <= 2 * fg + g + 1
    <2>1. PICK y \in Nat : y = 2 * x
        BY <1>1
    <2>2. PICK z \in Nat : z = 2 * fg + g + 1
        OBVIOUS
    <2>3. CASE y > z
        <3>1. u * (z + 1) <= u * y /\ u * (z + 1) = u * z + u
            BY <2>3, Products
        <3>. QED
            BY <1>7, <2>1, <2>2, <3>1
    <2>. QED
        BY <2>1, <2>2, <2>3
<1>. QED
    BY <1>1, <1>8

\* A posted final takes what is left and covers the frozen cost price.
LEMMA FinalPostingTakes ==
    ASSUME IndInv, WipInv, NEW i \in Live, receipt[i].final, Booked(i, built.lines),
           UNCHANGED <<manual, issued, rollup, count>>,
           built.of = i, count.entryReversals = 0
    PROVE  WipTaken' /\ CostFrozen'
<1>. PICK l \in Lines : l = built.lines
    BY WipTypes DEF IndInv
<1>0. /\ i \in Ids /\ i \in LiveFinals /\ receipt[i].fg = 0 /\ receipt[i].manual = 0
      /\ entry[i] = NoEntry
    <2>1. i \in Ids /\ i # 0 /\ i \in LiveFinals
        BY IdsFinite DEF Live, LiveFinals
    <2>2. entry[i] = NoEntry
        BY <2>1 DEF IndInv, BuiltUnposted
    <2>. QED
        BY <2>1, <2>2 DEF IndInv, ClaimsMatchLedger, NoEntry, Live
<1>1. l = BuildProductionReceiveEntry(i)
    BY DEF WipInv, BuiltTakes
<1>2. /\ l.manual \in Nat /\ l.fg \in Nat /\ l.writeOff \in Nat
      /\ l.manual = AtLeastZero(manual - OtherManual(i))
      /\ TotalWip(i) - OtherFg(i) >= 0 => l.fg + l.writeOff = TotalWip(i) - OtherFg(i)
      /\ TotalWip(i) - OtherFg(i) < 0 => l.fg = 0 /\ l.writeOff = 0
      /\ LiveGood # 0 => l.writeOff <= LostOf(TotalWip(i))
    BY <1>0, <1>1, FinalMoves DEF IndInv, Lines
<1>3. /\ AllManual = OtherManual(i) /\ AllFg = OtherFg(i)
      /\ OtherManual(i) \in Nat /\ OtherFg(i) \in Nat
      /\ AllManual' = AllManual + l.manual /\ AllFg' = AllFg + l.fg
    BY <1>0, OthersClaims, BookedClaims DEF IndInv
<1>4. /\ manual \in Nat /\ issued * IssueValue \in Nat
      /\ TotalWip(i) = issued * IssueValue + AllManual + l.manual
      /\ TotalWip(i) \in Nat /\ TotalWip(i) >= issued * IssueValue + manual
    BY <1>0, <1>2, <1>3, TotalWipNat DEF IndInv
<1>5. SeriesWip' = TotalWip(i) /\ AllManual' >= manual'
    <2>1. SeriesWip' = TotalWip(i)
        <3>1. SeriesWip' = issued * IssueValue + AllManual'
            BY DEF SeriesWip
        <3>2. PICK w \in Nat : w = issued * IssueValue
            BY <1>4
        <3>. QED
            BY <1>2, <1>3, <1>4, <3>1, <3>2
    <2>2. AllManual + l.manual >= manual
        BY <1>2, <1>3, <1>4 DEF AtLeastZero
    <2>. QED
        BY <1>3, <2>1, <2>2
<1>6. CountsKept /\ LiveGood' = LiveGood /\ LiveFinals' = LiveFinals
    BY CountsKeepSums DEF Booked
<1>7. \A f \in PostedFinals' : f = i
    BY <1>0, <1>6, OneFinal DEF PostedFinals
<1>8. entry'[i] = l
    BY <1>0 DEF Booked, IndInv, ReceiptTypeOK
<1>9. TotalWip(i) <= AllFg' + l.writeOff
    BY <1>2, <1>3, <1>4
<1>10. WipTaken'
    <2>1. SeriesWip' <= AllFg' + entry'[i].writeOff
        BY <1>5, <1>8, <1>9
    <2>2. ASSUME count.moves = 0
          PROVE  /\ AllFg' <= SeriesWip'
                 /\ AllFg' + entry'[i].writeOff <= SeriesWip' + 1
                 /\ LiveGood' # 0 => entry'[i].writeOff <= LostOf(SeriesWip)'
        <3>1. AllFg <= TotalWip(i)
            <4>1. AllFg <= SeriesWip
                BY <2>2 DEF WipInv, WipTaken
            <4>. QED
                BY <1>2, <1>3, <1>4, <4>1 DEF SeriesWip
        <3>2. AllFg' + l.writeOff = TotalWip(i)
            BY <1>2, <1>3, <1>4, <3>1
        <3>3. PICK t : t = TotalWip(i)
            OBVIOUS
        <3>4. LostOf(t)' = LostOf(t)
            BY <1>6, FrozenShares
        <3>5. LostOf(SeriesWip)' = LostOf(TotalWip(i))
            BY <1>5, <3>3, <3>4 DEF LostOf
        <3>. QED
            BY <1>2, <1>3, <1>4, <1>5, <1>6, <1>8, <3>2, <3>5
    <2>. QED
        BY <1>5, <1>7, <2>1, <2>2 DEF WipTaken
<1>11. ASSUME NothingTyped PROVE CostsCovered(i)'
    <2>1. receipt'[i].unitCost = receipt[i].unitCost
        BY <1>0, <1>6 DEF CountsKept
    <2>2. PICK c \in Nat : c = receipt[i].unitCost
        BY <1>0, Types DEF IndInv, Receipts
    <2>3. PICK g \in Nat : g = LiveGood
        BY SumTypes DEF IndInv
    <2>4. AllFg' \in Nat /\ AllFg \in Nat /\ AllFg' >= AllFg
        BY <1>2, <1>3
    <2>5. CASE LiveGood = 0
        <3>1. g * c = 0
            BY <2>2, <2>3, <2>5
        <3>. QED
            BY <1>6, <2>1, <2>2, <2>3, <2>4, <2>5, <3>1 DEF CostsCovered
    <2>6. CASE CostsCovered(i)
        <3>1. PICK x \in Nat : x = g * c
            BY Products
        <3>. QED
            BY <1>6, <2>1, <2>2, <2>3, <2>4, <2>6, <3>1 DEF CostsCovered
    <2>7. CASE LiveGood # 0 /\ CostsNormalShare(i)
        <3>1. PICK u \in Nat \ {0} : u = LiveUnits
            BY <2>7, SumTypes DEF IndInv
        <3>2. PICK a \in Nat : a = Abnormal(LiveScrap, LiveUnits) /\ a <= u
            BY <3>1, SumTypes, AbnormalNat DEF IndInv
        <3>3. PICK t \in Nat : t = TotalWip(i)
            BY <1>4
        <3>4. PICK m \in Nat : m = issued * IssueValue + manual /\ m <= t
            BY <1>4, <3>3
        <3>5. 2 * u * LostOf(t) <= 2 * (t * a) + u /\ LostOf(t) \in Nat
            BY <3>1, <3>2, TargetAndLost DEF IndInv
        <3>6. l.writeOff <= LostOf(t) /\ l.writeOff \in Nat
            BY <1>2, <2>7, <3>3
        <3>7. t <= AllFg' + LostOf(t)
            BY <1>9, <2>4, <3>3, <3>5, <3>6
        <3>8. 2 * (u * (g * c)) <= 2 * (m * (u - a)) + u * g
            BY <2>2, <2>3, <2>7, <3>1, <3>2, <3>4 DEF CostsNormalShare
        <3>9. 2 * (g * c) <= 2 * AllFg' + g + 1
            BY <2>4, <3>2, <3>4, <3>5, <3>7, <3>8, NormalShareCovered
        <3>. QED
            BY <1>6, <2>1, <2>2, <2>3, <3>9 DEF CostsCovered
    <2>8. CostsNormalShare(i) \/ CostsCovered(i)
        BY <1>0, <1>11 DEF WipInv, CostFrozen
    <2>. QED
        BY <2>5, <2>6, <2>7, <2>8
<1>12. CostFrozen'
    <2>1. \A f \in LiveFinals' : f = i
        BY <1>0, <1>6, OneFinal
    <2>2. NothingTyped' => NothingTyped
        BY <1>6, CountsKeepSums DEF NothingTyped
    <2>. QED
        BY <1>11, <2>1, <2>2 DEF CostFrozen
<1>. QED
    BY <1>10, <1>12

\* A posted partial takes no more than it may, even after the final.
LEMMA PartialPostingTakes ==
    ASSUME IndInv, WipInv, NEW i \in Live, ~receipt[i].final, Booked(i, built.lines),
           UNCHANGED <<manual, issued, rollup, count>>,
           built.of = i, count.entryReversals = 0
    PROVE  WipTaken' /\ CostFrozen'
<1>. PICK l \in Lines : l = built.lines
    BY WipTypes DEF IndInv
<1>0. /\ i \in Ids /\ i \notin LiveFinals /\ receipt[i].fg = 0 /\ receipt[i].manual = 0
      /\ LiveFinals \subseteq Ids
    <2>1. i \in Ids /\ i # 0 /\ i \notin LiveFinals /\ LiveFinals \subseteq Ids
        BY IdsFinite DEF Live, LiveFinals
    <2>2. entry[i] = NoEntry
        BY <2>1 DEF IndInv, BuiltUnposted
    <2>. QED
        BY <2>1, <2>2 DEF IndInv, ClaimsMatchLedger, NoEntry, Live
<1>1. l.manual \in Nat /\ l.fg \in Nat
    BY DEF Lines
<1>2. /\ AllManual = OtherManual(i) /\ AllFg = OtherFg(i)
      /\ AllManual \in Nat /\ AllFg \in Nat
      /\ AllManual' = AllManual + l.manual /\ AllFg' = AllFg + l.fg
    BY <1>0, OthersClaims, BookedClaims DEF IndInv
<1>3. PICK w \in Nat : w = issued * IssueValue
    BY WipTypes DEF IndInv
<1>4. SeriesWip = w + AllManual /\ SeriesWip' = w + AllManual + l.manual
    BY <1>1, <1>2, <1>3 DEF SeriesWip
<1>5. CountsKept /\ LiveGood' = LiveGood /\ LiveFinals' = LiveFinals
    BY CountsKeepSums DEF Booked
<1>6. \A f \in LiveFinals : entry'[f] = entry[f] /\ entry[f].writeOff \in Nat
    BY <1>0, Types DEF Booked, IndInv, ReceiptTypeOK, Lines
<1>7. PostedFinals' = PostedFinals
    BY <1>5, <1>6 DEF PostedFinals
<1>8. ASSUME PostedFinals # {}
      PROVE  /\ l.manual = 0 /\ SeriesWip' = SeriesWip /\ manual <= AllManual
             /\ l.fg > 0 => LiveGood # 0 /\ AllFg' <= TargetOf(SeriesWip)
    <2>1. l.manual = 0 /\ (l.fg > 0 => LiveGood # 0 /\ OtherFg(i) + l.fg <= TargetOf(SeriesWip))
        BY <1>8 DEF WipInv, BuiltTakes
    <2>2. manual <= AllManual
        BY <1>8 DEF WipInv, WipTaken
    <2>. QED
        BY <1>1, <1>2, <1>4, <2>1, <2>2
<1>9. PostedFinals \subseteq LiveFinals
    BY DEF PostedFinals
<1>10. ASSUME NEW f \in PostedFinals
       PROVE  AllManual' >= manual' /\ SeriesWip' <= AllFg' + entry'[f].writeOff
    <2>1. SeriesWip <= AllFg + entry[f].writeOff
        BY DEF WipInv, WipTaken
    <2>. QED
        BY <1>1, <1>2, <1>4, <1>6, <1>8, <1>9, <2>1
<1>11. ASSUME count.moves = 0
       PROVE  /\ AllFg' <= SeriesWip'
              /\ \A f \in PostedFinals :
                    /\ AllFg' + entry'[f].writeOff <= SeriesWip' + 1
                    /\ LiveGood' # 0 => entry'[f].writeOff <= LostOf(SeriesWip)'
    <2>1. AllFg' <= SeriesWip'
        <3>1. OtherFg(i) + l.fg <= issued * IssueValue + OtherManual(i) + l.manual
            BY <1>11 DEF WipInv, BuiltTakes
        <3>. QED
            BY <1>1, <1>2, <1>3, <1>4, <3>1
    <2>2. ASSUME NEW f \in PostedFinals
          PROVE  /\ AllFg' + entry'[f].writeOff <= SeriesWip' + 1
                 /\ LiveGood' # 0 => entry'[f].writeOff <= LostOf(SeriesWip)'
        <3>1. PICK t \in Nat : t = SeriesWip
            BY <1>2, <1>3, <1>4
        <3>2. /\ AllFg + entry[f].writeOff <= t + 1
              /\ LiveGood # 0 => entry[f].writeOff <= LostOf(t)
            BY <1>11, <3>1 DEF WipInv, WipTaken
        <3>3. LostOf(t)' = LostOf(t) /\ SeriesWip' = t
            BY <1>5, <1>8, <3>1, FrozenShares
        <3>4. LostOf(SeriesWip)' = LostOf(t)
            BY <3>3 DEF LostOf
        <3>5. LiveGood # 0 => LiveUnits # 0
            BY SumTypes DEF IndInv
        <3>6. LiveGood # 0 => /\ TargetOf(t) \in Nat /\ LostOf(t) \in Nat
                              /\ TargetOf(t) + LostOf(t) <= t + 1
            BY <3>5, TargetAndLost DEF IndInv
        <3>7. l.fg > 0 => LiveGood # 0 /\ AllFg' <= TargetOf(t)
            BY <1>8, <3>1
        <3>8. entry'[f].writeOff = entry[f].writeOff /\ entry[f].writeOff \in Nat
            BY <1>6, <1>9
        <3>9. AllFg' + entry[f].writeOff <= t + 1
            BY <1>1, <1>2, <3>2, <3>6, <3>7, <3>8
        <3>. QED
            BY <1>5, <3>2, <3>3, <3>4, <3>8, <3>9
    <2>. QED
        BY <2>1, <2>2
<1>12. WipTaken'
    BY <1>7, <1>10, <1>11 DEF WipTaken
<1>13. CostFrozen'
    BY <1>1, <1>2, <1>5, <1>6, FrozenCost DEF WipInv
<1>. QED
    BY <1>12, <1>13

\* The entry the worker builds takes no more than it may.
LEMMA BuildTakes ==
    ASSUME IndInv, WipTaken, NEW i \in Ids, BuildReceipt(i)
    PROVE  BuiltTakes'
<1>. PICK l : l = BuildProductionReceiveEntry(i)
    OBVIOUS
<1>0. /\ UNCHANGED <<receipt, entry, comp, manual, issued, count>>
      /\ built'.of = i /\ built'.lines = l
      /\ i \in Live /\ receipt[i].manual = 0 /\ receipt[i].fg = 0 /\ i \in Posted
      /\ l \in Lines
    BY BuiltLines DEF BuildReceipt, runVars, ledgerVars
<1>1. /\ Live' = Live /\ OtherFg(i)' = OtherFg(i) /\ OtherManual(i)' = OtherManual(i)
      /\ LiveGood' = LiveGood /\ PostedFinals' = PostedFinals
      /\ SeriesWip' = SeriesWip
      /\ \A t : TargetOf(t)' = TargetOf(t)
    <2>1. CountsKept /\ ClaimsKept
        BY <1>0 DEF CountsKept, ClaimsKept
    <2>2. Live' = Live /\ LiveGood' = LiveGood /\ LiveFinals' = LiveFinals
            /\ OtherFg(i)' = OtherFg(i) /\ OtherManual(i)' = OtherManual(i)
            /\ AllManual' = AllManual
        BY <2>1, CountsKeepSums, ClaimsKeepSums
    <2>3. PostedFinals' = PostedFinals /\ SeriesWip' = SeriesWip
        BY <1>0, <2>2 DEF PostedFinals, SeriesWip
    <2>. QED
        BY <1>0, <2>1, <2>2, <2>3, FrozenShares
<1>2. CASE receipt[i].final
    <2>0. UNCHANGED <<receipt, manual, issued>>
        BY <1>0
    <2>1. BuildProductionReceiveEntry(i)' = BuildProductionReceiveEntry(i)
        BY <1>0, <2>0, EntrySteady DEF Posted
    <2>. QED
        BY <1>0, <1>1, <1>2, <2>1 DEF BuiltTakes
<1>3. CASE ~receipt[i].final
    <2>1. Units(i) > 0
        BY <1>0, <1>3 DEF IndInv, PartialsCount
    <2>2. /\ l.manual = AtLeastZero(manual - OtherManual(i))
          /\ l.fg > 0 => LiveGood # 0 /\ OtherFg(i) + l.fg <= TargetOf(TotalWip(i))
        BY <1>3, <2>1, PartialMoves DEF IndInv
    <2>3. l.manual \in Nat /\ l.fg \in Nat
        BY <1>0 DEF Lines
    <2>4. /\ OtherManual(i) = AllManual /\ OtherFg(i) = AllFg
          /\ AllManual \in Nat /\ AllFg \in Nat
        BY <1>0, OthersClaims DEF IndInv
    <2>5. PICK w \in Nat : w = issued * IssueValue
        BY WipTypes DEF IndInv
    <2>6. PICK t \in Nat : t = TotalWip(i)
        BY TotalWipNat DEF IndInv
    <2>7. t = w + AllManual + l.manual /\ SeriesWip = w + AllManual
        BY <2>2, <2>4, <2>5, <2>6, TotalWipNat DEF IndInv, SeriesWip
    <2>8. count.moves = 0 => AllFg + l.fg <= w + AllManual + l.manual
        <3>1. count.moves = 0 => AllFg <= SeriesWip
            BY DEF WipTaken
        <3>2. LiveGood # 0 => LiveUnits # 0
            BY SumTypes DEF IndInv
        <3>3. LiveGood # 0 => TargetOf(t) \in Nat /\ TargetOf(t) <= t
            BY <3>2, TargetAndLost DEF IndInv
        <3>. QED
            BY <2>2, <2>3, <2>4, <2>6, <2>7, <3>1, <3>3
    <2>9. ASSUME PostedFinals # {}
          PROVE  l.manual = 0 /\ t = SeriesWip
        <3>1. manual <= AllManual /\ manual \in Nat
            BY <2>9, WipTypes DEF WipTaken, IndInv
        <3>2. l.manual = 0
            BY <2>2, <2>4, <3>1 DEF AtLeastZero
        <3>. QED
            BY <2>4, <2>5, <2>7, <3>2
    <2>10. /\ built'.of = i /\ ~receipt'[i].final /\ built'.lines = l
           /\ count'.moves = 0 =>
                 OtherFg(i)' + l.fg <= issued' * IssueValue + OtherManual(i)' + l.manual
        BY <1>0, <1>1, <1>3, <2>4, <2>5, <2>8
    <2>11. PostedFinals' # {} =>
              /\ l.manual = 0
              /\ l.fg > 0 => LiveGood' # 0 /\ OtherFg(i)' + l.fg <= TargetOf(SeriesWip)'
        <3>1. PICK s : s = SeriesWip
            OBVIOUS
        <3>2. TargetOf(SeriesWip)' = TargetOf(s)
            <4>1. TargetOf(s)' = TargetOf(s) /\ SeriesWip' = s
                BY <1>1, <3>1
            <4>. QED
                BY <4>1 DEF TargetOf
        <3>. QED
            BY <1>1, <2>2, <2>6, <2>9, <3>1, <3>2
    <2>. QED
        BY <2>10, <2>11 DEF BuiltTakes
<1>. QED
    BY <1>2, <1>3

\* A delivery: the final's cost price is the normal share or what is covered.
LEMMA DeliveryWip ==
    ASSUME IndInv, WipInv, NEW d \in Delivery, NEW final \in BOOLEAN,
           NEW seed \in BOOLEAN, PostProductionRunReceipt(d, final, seed)
    PROVE  WipInv'
<1>0. UNCHANGED <<manual, issued, entry, comp, built, count>> /\ RunOpen
    BY DEF PostProductionRunReceipt, ledgerVars
<1>1. LiveFinals = {}
    BY <1>0 DEF IndInv, FinalClosesRun, RunOpen
<1>2. PICK n \in Ids \ Posted :
         /\ receipt' \in [Ids -> Receipts]
         /\ \A j \in Ids \ {n} : receipt'[j] = receipt[j]
         /\ receipt'[n].counted = d
         /\ receipt'[n].final = final
         /\ receipt'[n].unitCost = IF final THEN UnitCost(d) ELSE 0
         /\ ClaimsKept
         /\ Live' = Live \cup {n}
    BY AbnormalWithin, DeliveryWrites DEF IndInv
<1>3. n # 0 /\ entry[n] = NoEntry
    BY IdsFinite DEF IndInv, Blank
<1>4. LiveFinals' \subseteq {n} /\ (n \in LiveFinals' => final)
    BY <1>1, <1>2 DEF LiveFinals, Live
<1>5. PostedFinals' = {}
    BY <1>0, <1>3, <1>4 DEF PostedFinals
<1>6. built.of # 0 => built.of \in Posted /\ built.of # n /\ built.of \in Ids
    BY DEF IndInv, BuiltUnposted, Posted
<1>7. PartialsLoseNothing'
    <2>1. NoEntry.writeOff = 0
        BY DEF NoEntry
    <2>. QED
        BY <1>0, <1>2, <1>3, <1>6, <2>1 DEF WipInv, PartialsLoseNothing
<1>8. ASSUME count.entryReversals = 0
      PROVE  WipTaken' /\ BuiltTakes' /\ CostFrozen'
    <2>1. Stays /\ WipTaken /\ BuiltTakes
        BY <1>0, <1>2, <1>5, <1>8 DEF Stays, WipInv
    <2>2. WipTaken'
        BY <2>1, StaysWip
    <2>3. built.of \in Live' => built.of \in Live
        BY <1>2, <1>3, <1>6
    <2>4. \A i \in Posted : receipt'[i].final = receipt[i].final
        BY <1>2 DEF Posted
    <2>5. BuiltTakes'
        BY <1>0, <1>1, <2>1, <2>3, <2>4, StaysBuilt
    <2>6. ASSUME final, NothingTyped
          PROVE  CostsNormalShare(n)' \/ CostsCovered(n)'
        <3>0. d.good \in Nat /\ d.scrap \in Nat /\ d.seconds \in Nat
            BY DEF Delivery
        <3>1. /\ LiveGood' = LiveGood + d.good /\ LiveScrap' = LiveScrap + d.scrap
              /\ LiveUnits' = LiveUnits + d.good + d.scrap + d.seconds
              /\ AllFg' = AllFg
            BY <1>2, DeliverySums, ClaimsKeepSums DEF IndInv
        <3>2. PICK g : g = LiveGood'
            OBVIOUS
        <3>3. PICK u : u = LiveUnits'
            OBVIOUS
        <3>4. PICK a : a = Abnormal(LiveScrap + d.scrap, u)
            OBVIOUS
        <3>5. PICK total : total = issued * IssueValue + manual
            OBVIOUS
        <3>6. /\ g = rollup[1] + d.good
              /\ u = rollup[1] + d.good + rollup[2] + d.scrap + d.seconds
              /\ a <= u
            <4>1. /\ LiveGood \in Nat /\ LiveDefects \in Nat
                  /\ LiveUnits = LiveGood + LiveDefects
                BY SumTypes DEF IndInv
            <4>2. /\ g = rollup[1] + d.good
                  /\ u = rollup[1] + d.good + rollup[2] + d.scrap + d.seconds
                BY <2>6, <3>0, <3>1, <3>2, <3>3, <4>1 DEF NothingTyped
            <4>. QED
                BY <3>4, <4>2, AbnormalWithin
        <3>7. PICK c : c = UnitCost(d)
            OBVIOUS
        <3>8. \/ 2 * (u * (g * c)) <= 2 * (total * (u - a)) + u * g
              \/ 2 * (g * c) <= 2 * AllFg + g
            BY <3>4, <3>5, <3>6, <3>7, UnitCostNat DEF IndInv
        <3>9. receipt'[n].unitCost = c
            BY <1>2, <2>6, <3>7
        <3>10. Abnormal(LiveScrap, LiveUnits)' = a
            BY <3>1, <3>3, <3>4 DEF Abnormal, AtLeastZero
        <3>11. CASE 2 * (u * (g * c)) <= 2 * (total * (u - a)) + u * g
            BY <1>0, <3>2, <3>3, <3>5, <3>9, <3>10, <3>11 DEF CostsNormalShare
        <3>12. CASE 2 * (g * c) <= 2 * AllFg + g
            <4>1. g \in Nat /\ c \in Nat /\ AllFg \in Nat
                BY <3>0, <3>1, <3>2, <3>4, <3>5, <3>6, <3>7, SumTypes, UnitCostNat DEF IndInv
            <4>2. PICK x \in Nat : x = g * c
                BY <4>1, Products
            <4>3. 2 * (g * c) <= 2 * AllFg + g + 1
                BY <3>12, <4>1, <4>2
            <4>. QED
                BY <3>1, <3>2, <3>9, <4>3 DEF CostsCovered
        <3>. QED
            BY <3>8, <3>11, <3>12
    <2>7. NothingTyped' => NothingTyped
        <3>1. /\ LiveGood' = LiveGood + d.good
              /\ LiveDefects' = LiveDefects + d.scrap + d.seconds
            BY <1>2, DeliverySums DEF IndInv
        <3>2. /\ rollup'[1] = rollup[1] + d.good
              /\ rollup'[2] = rollup[2] + d.scrap + d.seconds
            BY DEF PostProductionRunReceipt
        <3>3. /\ d.good \in Nat /\ d.scrap \in Nat /\ d.seconds \in Nat
              /\ LiveGood \in Nat /\ LiveDefects \in Nat
              /\ rollup[1] \in Nat /\ rollup[2] \in Nat
            BY SumTypes DEF Delivery, IndInv, ReceiptTypeOK
        <3>4. ASSUME rollup'[1] = LiveGood', rollup'[2] = LiveDefects'
              PROVE  rollup[1] = LiveGood /\ rollup[2] = LiveDefects
            BY <3>1, <3>2, <3>3, <3>4
        <3>. QED
            BY <3>4 DEF NothingTyped
    <2>8. CostFrozen'
        BY <1>4, <1>5, <2>6, <2>7 DEF CostFrozen
    <2>. QED
        BY <2>2, <2>5, <2>8
<1>. QED
    BY <1>0, <1>7, <1>8 DEF WipInv

\* A reversal gives goods back; after it no final receipt is live.
LEMMA ReversalWip ==
    ASSUME IndInv, IndInv', WipInv, NEW i \in Ids, ReverseProductionRunReceipt(i)
    PROVE  WipInv'
<1>0. /\ UNCHANGED <<manual, issued, entry, built, count>>
      /\ NewestFirst(i)
    BY DEF ReverseProductionRunReceipt
<1>1. /\ i \in Live
      /\ \A j \in Ids \ {i} : receipt'[j] = receipt[j]
      /\ receipt'[i].final = receipt[i].final
      /\ receipt'[i].manual = receipt[i].manual
      /\ receipt'[i].fg = 0
      /\ Live' = Live \ {i}
    BY ReversalWrites DEF IndInv
<1>2. \A j \in Live' : j \in Live /\ j \in Ids /\ ~receipt[j].final /\ receipt'[j] = receipt[j]
    BY <1>0, <1>1, ReversalLeavesNoFinal DEF Live
<1>3. LiveFinals' = {} /\ PostedFinals' = {}
    BY <1>2 DEF LiveFinals, PostedFinals
<1>4. \A j \in Ids : receipt'[j].final = receipt[j].final /\ receipt'[j].manual = receipt[j].manual
    BY <1>1
<1>5. PartialsLoseNothing'
    <2>1. built.of # 0 => built.of \in Ids
        BY DEF IndInv, BuiltUnposted, Posted
    <2>. QED
        BY <1>0, <1>4, <2>1 DEF WipInv, PartialsLoseNothing
<1>6. AllManual' = AllManual /\ \A j \in Ids : OtherManual(j)' = OtherManual(j)
    BY <1>4, ManualKeepsSums
<1>7. FgOf \in [Ids -> Nat] /\ FgOf' \in [Ids -> Nat] /\ \A j \in Ids : FgOf'[j] <= FgOf[j]
    <2>1. receipt \in [Ids -> Receipts] /\ receipt' \in [Ids -> Receipts]
        BY DEF IndInv, ReceiptTypeOK
    <2>2. \A j \in Ids : receipt[j].fg \in Nat /\ receipt'[j].fg \in Nat
        BY <2>1 DEF Receipts
    <2>3. \A j \in Ids : receipt'[j].fg <= receipt[j].fg
        BY <1>1, <2>2
    <2>. QED
        BY <2>2, <2>3 DEF FgOf
<1>8. \A S \in SUBSET Ids : /\ SumFunctionOnSet(FgOf', S) <= SumFunctionOnSet(FgOf, S)
                            /\ SumFunctionOnSet(FgOf', S) \in Nat
                            /\ SumFunctionOnSet(FgOf, S) \in Nat
    BY <1>7, SumOverIds, SumMonotone
<1>9. AllFg' <= AllFg /\ AllFg' \in Nat /\ AllFg \in Nat
    BY <1>8 DEF AllFg
<1>10. \A j \in Ids : /\ OtherFg(j)' <= OtherFg(j) /\ OtherFg(j)' \in Nat
                      /\ OtherFg(j) \in Nat
    <2>1. \A j \in Ids : OtherFg(j) = SumFunctionOnSet(FgOf, Ids \ {j})
        BY DEF OtherFg, Sum, FgOf
    <2>2. \A j \in Ids : OtherFg(j)' = SumFunctionOnSet(FgOf', Ids \ {j})
        BY DEF OtherFg, Sum, FgOf
    <2>. QED
        BY <1>8, <2>1, <2>2
<1>11. ASSUME count.entryReversals = 0
       PROVE  WipTaken' /\ BuiltTakes' /\ CostFrozen'
    <2>1. WipTaken'
        <3>1. SeriesWip' = SeriesWip /\ SeriesWip \in Nat
            BY <1>0, <1>6, WipTypes DEF SeriesWip, IndInv
        <3>2. count.moves = 0 => AllFg <= SeriesWip
            BY <1>11 DEF WipInv, WipTaken
        <3>. QED
            BY <1>0, <1>3, <1>9, <3>1, <3>2 DEF WipTaken
    <2>2. ASSUME built.of \in Live', count.moves = 0
          PROVE  OtherFg(built.of)' + built.lines.fg
                    <= issued * IssueValue + OtherManual(built.of)' + built.lines.manual
        <3>1. PICK k \in Ids : k = built.of /\ k \in Live /\ ~receipt[k].final
            BY <1>2, <2>2
        <3>2. OtherFg(k) + built.lines.fg
                <= issued * IssueValue + OtherManual(k) + built.lines.manual
            BY <1>11, <2>2, <3>1 DEF WipInv, BuiltTakes
        <3>3. OtherManual(k) \in Nat
            BY OthersClaims DEF IndInv
        <3>4. OtherFg(k)' <= OtherFg(k) /\ OtherManual(k)' = OtherManual(k)
                /\ OtherFg(k)' \in Nat /\ OtherFg(k) \in Nat
            BY <1>6, <1>10
        <3>5. built.of' = k /\ built'.lines = built.lines
            BY <1>0, <3>1
        <3>6. OtherFg(k)' + built.lines.fg
                <= issued * IssueValue + OtherManual(k)' + built.lines.manual
            BY <3>2, <3>3, <3>4, WipTypes DEF IndInv
        <3>. QED
            BY <1>0, <3>1, <3>5, <3>6
    <2>3. BuiltTakes'
        BY <1>0, <1>2, <1>3, <2>2 DEF BuiltTakes
    <2>4. CostFrozen'
        BY <1>3 DEF CostFrozen
    <2>. QED
        BY <2>1, <2>3, <2>4
<1>. QED
    BY <1>0, <1>5, <1>11 DEF WipInv

\* A step that leaves the counts, the claims and the entries, and either the
\* built entry or none of it.
LEMMA QuietWip ==
    ASSUME IndInv, WipInv, [Next]_vars, \A i \in Ids : ~ReverseProductionRunReceipt(i),
           CountsKept, ClaimsKept, UNCHANGED entry,
           count'.entryReversals = 0 => count.entryReversals = 0,
           count'.moves = 0 => count.moves = 0 /\ UNCHANGED issued,
           built' = NothingBuilt \/ UNCHANGED <<built, receipt>>
    PROVE  WipInv'
<1>1. /\ Live' = Live /\ LiveFinals' = LiveFinals /\ AllFg' = AllFg
      /\ LiveFinals \subseteq Ids
    BY CountsKeepSums, ClaimsKeepSums DEF LiveFinals, Live
<1>2. LiveFinals # {} => UNCHANGED <<manual, issued, rollup>>
    BY FinalFreezes
<1>3. PartialsLoseNothing'
    <2>1. built.of # 0 => built.of \in Ids
        BY DEF IndInv, BuiltUnposted, Posted
    <2>2. \A i \in Ids : receipt'[i].final = receipt[i].final
        BY DEF CountsKept
    <2>3. CASE built' = NothingBuilt
        BY <2>2, <2>3 DEF WipInv, PartialsLoseNothing, NothingBuilt
    <2>4. CASE UNCHANGED <<built, receipt>>
        BY <2>4 DEF WipInv, PartialsLoseNothing
    <2>. QED
        BY <2>3, <2>4
<1>4. ASSUME count.entryReversals = 0
      PROVE  WipTaken' /\ BuiltTakes' /\ CostFrozen'
    <2>1. Stays /\ WipTaken /\ BuiltTakes /\ CostFrozen
        BY <1>1, <1>2, <1>4 DEF Stays, WipInv, PostedFinals
    <2>2. WipTaken'
        BY <2>1, StaysWip
    <2>3. BuiltTakes'
        <3>1. CASE built' = NothingBuilt
            <4>1. built'.of \notin Live'
                BY <1>1, <3>1, IdsFinite DEF NothingBuilt, Live
            <4>. QED
                BY <4>1 DEF BuiltTakes
        <3>2. CASE UNCHANGED <<built, receipt>>
            <4>1. \A i \in Posted : receipt'[i].final = receipt[i].final
                BY <3>2
            <4>. QED
                BY <1>1, <1>2, <2>1, <3>2, <4>1, StaysBuilt
        <3>. QED
            BY <3>1, <3>2
    <2>4. CostFrozen'
        <3>1. CASE LiveFinals = {}
            BY <1>1, <3>1 DEF CostFrozen
        <3>2. CASE LiveFinals # {}
            <4>1. AllFg' \in Nat /\ AllFg' >= AllFg
                BY <1>1, WipTypes DEF IndInv
            <4>. QED
                BY <1>2, <2>1, <3>2, <4>1, FrozenCost
        <3>. QED
            BY <3>1, <3>2
    <2>. QED
        BY <2>2, <2>3, <2>4
<1>. QED
    BY <1>3, <1>4 DEF WipInv

\* The worker builds an entry.
LEMMA BuildWip ==
    ASSUME IndInv, WipInv, NEW i \in Ids, BuildReceipt(i)
    PROVE  WipInv'
<1>0. /\ UNCHANGED <<receipt, entry, manual, issued, rollup, count>>
      /\ built' = [of |-> i, lines |-> BuildProductionReceiveEntry(i)]
      /\ i \in Posted
    BY BuiltLines DEF BuildReceipt, runVars, ledgerVars
<1>1. CountsKept /\ ClaimsKept
    BY <1>0 DEF CountsKept, ClaimsKept
<1>2. PartialsLoseNothing'
    <2>1. receipt[i].final \/ built'.lines.writeOff = 0
        BY <1>0, PartialMoves DEF IndInv, PartialsCount
    <2>. QED
        BY <1>0, <2>1 DEF WipInv, PartialsLoseNothing
<1>3. ASSUME count.entryReversals = 0
      PROVE  WipTaken' /\ BuiltTakes' /\ CostFrozen'
    <2>1. Stays /\ WipTaken /\ CostFrozen
        BY <1>0, <1>1, <1>3 DEF Stays, WipInv
    <2>2. AllFg' \in Nat /\ AllFg' >= AllFg
        BY <2>1, StaysWip, WipTypes DEF IndInv
    <2>. QED
        BY <1>0, <1>1, <2>1, <2>2, StaysWip, BuildTakes, FrozenCost
<1>. QED
    BY <1>0, <1>2, <1>3 DEF WipInv

\* The worker posts what it built.
LEMMA PostWip ==
    ASSUME IndInv, WipInv, NEW i \in Ids, PostReceipt(i), receipt[i].state # "reversed"
    PROVE  WipInv'
<1>0. /\ UNCHANGED <<manual, issued, rollup, count>>
      /\ built' = NothingBuilt /\ built.of = i /\ i # 0
    BY IdsFinite DEF PostReceipt, runVars
<1>1. i \in Live
    BY <1>0 DEF IndInv, BuiltUnposted, Posted, Live, ReceiptTypeOK, Receipts
<1>2. Booked(i, built.lines)
    BY PostingWrites DEF IndInv
<1>3. CountsKept /\ Live' = Live /\ entry' = [entry EXCEPT ![i] = built.lines]
    BY <1>2, CountsKeepSums DEF Booked
<1>4. PartialsLoseNothing'
    <2>1. \A j \in Ids : receipt'[j].final = receipt[j].final
        BY <1>3 DEF CountsKept
    <2>2. \A j \in Ids : entry'[j] = IF j = i THEN built.lines ELSE entry[j]
        BY <1>3 DEF IndInv, ReceiptTypeOK
    <2>3. receipt[i].final \/ built.lines.writeOff = 0
        BY <1>0 DEF WipInv, PartialsLoseNothing
    <2>4. built'.of = 0
        BY <1>0 DEF NothingBuilt
    <2>. QED
        BY <2>1, <2>2, <2>3, <2>4 DEF WipInv, PartialsLoseNothing
<1>5. BuiltTakes'
    <2>1. built'.of \notin Live'
        BY <1>0, <1>3, IdsFinite DEF NothingBuilt, Live
    <2>. QED
        BY <2>1 DEF BuiltTakes
<1>6. count.entryReversals = 0 => WipTaken' /\ CostFrozen'
    BY <1>0, <1>1, <1>2, FinalPostingTakes, PartialPostingTakes
<1>. QED
    BY <1>0, <1>4, <1>5, <1>6 DEF WipInv

\* An entry reversed by hand: only what partials write off is still known.
LEMMA EntryReversalWip ==
    ASSUME IndInv, WipInv, NEW i \in Ids, ReverseJournalEntry(i)
    PROVE  WipInv'
<1>1. CountsKept /\ entry' = [entry EXCEPT ![i] = NoEntry] /\ UNCHANGED built
    BY EntryReversalWrites DEF IndInv, Booked, ReverseJournalEntry
<1>2. count'.entryReversals # 0
    <2>1. count' = [count EXCEPT !.entryReversals = @ + 1]
        BY DEF ReverseJournalEntry
    <2>2. count.entryReversals \in Nat
            /\ count'.entryReversals = count.entryReversals + 1
        BY <2>1 DEF IndInv, ReceiptTypeOK
    <2>. QED
        BY <2>2
<1>3. PartialsLoseNothing'
    <2>1. \A j \in Ids : receipt'[j].final = receipt[j].final
        BY <1>1 DEF CountsKept
    <2>2. \A j \in Ids : entry'[j] = IF j = i THEN NoEntry ELSE entry[j]
        BY <1>1 DEF IndInv, ReceiptTypeOK
    <2>3. NoEntry.writeOff = 0 /\ (built.of # 0 => built.of \in Ids)
        BY DEF NoEntry, IndInv, BuiltUnposted, Posted
    <2>. QED
        BY <1>1, <2>1, <2>2, <2>3 DEF WipInv, PartialsLoseNothing
<1>. QED
    BY <1>2, <1>3 DEF WipInv

\* Material moves, or a unit is sold, or a form is opened, or the worker
\* restarts: what happened so far is counted.
LEMMA CountedWip ==
    ASSUME IndInv, WipInv,
           IssueMaterial \/ ReturnMaterial \/ SellUnit \/ OpenForm \/ WorkerRestarts
    PROVE  WipInv'
<1>1. /\ UNCHANGED <<receipt, entry>>
      /\ UNCHANGED built \/ built' = NothingBuilt
    BY DEF IssueMaterial, ReturnMaterial, SellUnit, OpenForm, WorkerRestarts, ledgerVars
<1>2. count \in [sold : Nat, moves : Nat, forms : Nat, entryReversals : Nat,
                 restarts : Nat, peak : Nat]
    BY DEF IndInv, ReceiptTypeOK
<1>3. /\ count'.entryReversals = count.entryReversals
      /\ count'.moves = 0 => count.moves = 0 /\ UNCHANGED issued
    <2>1. CASE IssueMaterial \/ ReturnMaterial
        <3>1. count' = [count EXCEPT !.moves = @ + 1]
            BY <2>1 DEF IssueMaterial, ReturnMaterial
        <3>2. /\ count'.moves = count.moves + 1 /\ count.moves \in Nat
              /\ count'.entryReversals = count.entryReversals
            BY <1>2, <3>1
        <3>. QED
            BY <3>2
    <2>2. CASE SellUnit
        BY <1>2, <2>2 DEF SellUnit, runVars
    <2>3. CASE OpenForm
        BY <1>2, <2>3 DEF OpenForm, runVars
    <2>4. CASE WorkerRestarts
        BY <1>2, <2>4 DEF WorkerRestarts, runVars
    <2>. QED
        BY <2>1, <2>2, <2>3, <2>4
<1>4. CountsKept /\ ClaimsKept
    BY <1>1 DEF CountsKept, ClaimsKept
<1>5. [Next]_vars
    BY DEF Next, RunNext
<1>6. ASSUME NEW i \in Ids, ReverseProductionRunReceipt(i)
      PROVE  FALSE
    <2>1. i \in Live /\ receipt'[i].state = "reversed"
        BY <1>6, ReversalWrites DEF IndInv
    <2>. QED
        BY <1>1, <2>1 DEF Live
<1>. QED
    BY <1>1, <1>3, <1>4, <1>5, <1>6, QuietWip

\* The run is edited, an edit is refused, an attempt fails, a reversed receipt is
\* not posted, or nothing happens.
LEMMA UncountedWip ==
    ASSUME IndInv, WipInv,
           \/ \E versionSent \in BOOLEAN : UpdateProductionRun(versionSent)
           \/ UpdateConflicts \/ UNCHANGED vars
           \/ \E i \in Ids : \/ PostingFails(i)
                             \/ PostReceipt(i) /\ receipt[i].state = "reversed"
    PROVE  WipInv'
<1>. DEFINE Quiet ==
              /\ CountsKept /\ ClaimsKept /\ UNCHANGED <<entry, issued>>
              /\ count'.entryReversals = count.entryReversals /\ count'.moves = count.moves
              /\ UNCHANGED <<built, receipt>> \/ built' = NothingBuilt
              /\ [Next]_vars
<1>1. Quiet
    <2>1. ASSUME NEW versionSent \in BOOLEAN, UpdateProductionRun(versionSent)
          PROVE  Quiet
        <3>1. UNCHANGED <<receipt, entry, issued, built>>
            BY <2>1 DEF UpdateProductionRun, ledgerVars
        <3>2. count'.entryReversals = count.entryReversals /\ count'.moves = count.moves
            BY <2>1 DEF UpdateProductionRun, IndInv, ReceiptTypeOK
        <3>. QED
            BY <2>1, <3>1, <3>2 DEF CountsKept, ClaimsKept, Next, RunNext
    <2>2. CASE UpdateConflicts
        <3>1. UNCHANGED <<receipt, entry, issued, built, count>>
            BY <2>2 DEF UpdateConflicts, ledgerVars, runVars
        <3>. QED
            BY <2>2, <3>1 DEF CountsKept, ClaimsKept, Next, RunNext
    <2>3. CASE UNCHANGED vars
        <3>1. UNCHANGED <<receipt, entry, issued, built, count>>
            BY <2>3 DEF vars, ledgerVars, runVars
        <3>. QED
            BY <2>3, <3>1 DEF CountsKept, ClaimsKept
    <2>4. ASSUME NEW i \in Ids, PostingFails(i)
          PROVE  Quiet
        <3>1. UNCHANGED <<entry, issued, count>> /\ built' = NothingBuilt
            BY <2>4 DEF PostingFails, ledgerVars, runVars
        <3>2. CountsKept /\ ClaimsKept
            BY <2>4, FailureWrites DEF IndInv
        <3>3. Next
            BY <2>4 DEF Next, Posting
        <3>. QED
            BY <3>1, <3>2, <3>3
    <2>5. ASSUME NEW i \in Ids, PostReceipt(i), receipt[i].state = "reversed"
          PROVE  Quiet
        <3>1. UNCHANGED <<issued, count>> /\ built' = NothingBuilt
            BY <2>5 DEF PostReceipt, runVars
        <3>2. UNCHANGED <<receipt, entry>>
            BY <2>5, PostingWrites DEF IndInv
        <3>3. Next
            BY <2>5 DEF Next, Posting
        <3>. QED
            BY <3>1, <3>2, <3>3 DEF CountsKept, ClaimsKept
    <2>. QED
        BY <2>1, <2>2, <2>3, <2>4, <2>5
<1>2. ASSUME NEW i \in Ids, ReverseProductionRunReceipt(i)
      PROVE  FALSE
    <2>1. i \in Live /\ receipt'[i].state = "reversed"
        BY <1>2, ReversalWrites DEF IndInv
    <2>. QED
        BY <1>1, <2>1 DEF Live, CountsKept
<1>. QED
    BY <1>1, <1>2, QuietWip

\* WipInv holds of the initial states.
LEMMA InitWip == Init => WipInv
<1>. SUFFICES ASSUME Init PROVE WipInv
    OBVIOUS
<1>1. IndInv
    BY InitInv
<1>2. /\ receipt = [i \in Ids |-> Absent] /\ entry = [i \in Ids |-> NoEntry]
      /\ built = NothingBuilt
    BY DEF Init
<1>3. Live = {} /\ LiveFinals = {} /\ PostedFinals = {}
    BY <1>2 DEF Live, LiveFinals, PostedFinals, Absent
<1>4. PartialsLoseNothing
    BY <1>2 DEF PartialsLoseNothing, NoEntry, NothingBuilt
<1>5. AllFg = 0
    <2>1. \A i \in Ids : FgOf[i] = 0
        BY <1>2 DEF FgOf, Absent
    <2>. QED
        BY <2>1, IdsFinite, SumZero DEF AllFg
<1>6. WipTaken
    BY <1>1, <1>3, <1>5, WipTypes DEF WipTaken, IndInv
<1>7. BuiltTakes /\ CostFrozen
    BY <1>3 DEF BuiltTakes, CostFrozen
<1>. QED
    BY <1>4, <1>6, <1>7 DEF WipInv

\* Every step keeps it.
LEMMA NextWip == IndInv /\ WipInv /\ [Next]_vars => WipInv'
<1>. SUFFICES ASSUME IndInv, WipInv, [Next]_vars PROVE WipInv'
    OBVIOUS
<1>1. CASE IssueMaterial \/ ReturnMaterial \/ SellUnit \/ OpenForm \/ WorkerRestarts
    BY <1>1, CountedWip
<1>2. CASE \/ \E versionSent \in BOOLEAN : UpdateProductionRun(versionSent)
           \/ UpdateConflicts \/ UNCHANGED vars
    BY <1>2, UncountedWip
<1>3. ASSUME NEW d \in Deliveries \cup {Nothing}, NEW final \in BOOLEAN,
             NEW seed \in BOOLEAN, PostProductionRunReceipt(d, final, seed)
      PROVE  WipInv'
    BY <1>3, ConstantTypes, DeliveryWip
<1>4. ASSUME NEW i \in Ids, ReverseProductionRunReceipt(i) PROVE WipInv'
    BY <1>4, NextInv, ReversalWip
<1>5. ASSUME NEW i \in Ids, ReverseJournalEntry(i) PROVE WipInv'
    BY <1>5, EntryReversalWip
<1>6. ASSUME NEW i \in Ids, BuildReceipt(i) PROVE WipInv'
    BY <1>6, BuildWip
<1>7. ASSUME NEW i \in Ids, PostReceipt(i) PROVE WipInv'
    BY <1>7, PostWip, UncountedWip
<1>8. ASSUME NEW i \in Ids, PostingFails(i) PROVE WipInv'
    BY <1>8, UncountedWip
<1>. QED
    BY <1>1, <1>2, <1>3, <1>4, <1>5, <1>6, <1>7, <1>8 DEF Next, RunNext, Posting

\* It always holds, with the other.
LEMMA WipHolds == Spec => [](IndInv /\ WipInv)
BY InitInv, InitWip, NextInv, NextWip, PTL DEF Spec

\* The work in progress under a live final, in terms of the sums.
LEMMA WipIs ==
    ASSUME IndInv, PartialsLoseNothing, NEW f \in LiveFinals
    PROVE  Wip = SeriesWip - AllFg - entry[f].writeOff
<1>. DEFINE Moved == [i \in Ids |-> entry[i].manual - entry[i].fg - entry[i].writeOff
                                      + comp[i].fg + comp[i].writeOff]
            Net == [i \in Ids |-> receipt[i].manual + -(receipt[i].fg)]
            Back == [i \in Ids |-> -(receipt[i].fg)]
            Loss == [i \in Ids |-> comp[i].writeOff - entry[i].writeOff]
<1>1. Wip = issued * IssueValue + SumFunctionOnSet(Moved, Ids)
    BY DEF Wip, Sum
<1>2. \A i \in Ids : /\ receipt[i].manual \in Nat /\ receipt[i].fg \in Nat
                     /\ entry[i].manual \in Nat /\ entry[i].fg \in Nat
                     /\ entry[i].writeOff \in Nat
                     /\ comp[i].fg \in Nat /\ comp[i].writeOff \in Nat
    <2>1. entry \in [Ids -> Lines] /\ comp \in [Ids -> Lines] /\ receipt \in [Ids -> Receipts]
        BY DEF IndInv, ReceiptTypeOK
    <2>. QED
        BY <2>1 DEF Lines, Receipts
<1>3. \A i \in Ids : receipt[i].manual = entry[i].manual /\ receipt[i].fg = entry[i].fg - comp[i].fg
    BY DEF IndInv, ClaimsMatchLedger
<1>4. SumFunctionOnSet(Moved, Ids) = SumFunctionOnSet(Net, Ids) + SumFunctionOnSet(Loss, Ids)
    <2>1. \A i \in Ids : Net[i] \in Int /\ Loss[i] \in Int /\ Moved[i] = Net[i] + Loss[i]
        BY <1>2, <1>3
    <2>. HIDE DEF Moved, Net, Loss
    <2>. QED
        BY <2>1, IdsFinite, SumPlus
<1>5. SumFunctionOnSet(Net, Ids) = AllManual + SumFunctionOnSet(Back, Ids)
    <2>1. \A i \in Ids : ManualOf[i] \in Int /\ Back[i] \in Int /\ Net[i] = ManualOf[i] + Back[i]
        BY <1>2 DEF ManualOf
    <2>. HIDE DEF Back, Net
    <2>. QED
        BY <2>1, IdsFinite, SumPlus DEF AllManual
<1>6. SumFunctionOnSet(Back, Ids) = -AllFg
    <2>1. PICK Zero : Zero = [i \in Ids |-> 0]
        OBVIOUS
    <2>2. \A i \in Ids : FgOf[i] \in Int /\ Back[i] \in Int /\ Zero[i] = FgOf[i] + Back[i]
        BY <1>2, <2>1 DEF FgOf
    <2>3. \A i \in Ids : Zero[i] = 0
        BY <2>1
    <2>. HIDE DEF Back
    <2>4. SumFunctionOnSet(Zero, Ids) = AllFg + SumFunctionOnSet(Back, Ids)
        BY <2>2, IdsFinite, SumPlus DEF AllFg
    <2>5. SumFunctionOnSet(Zero, Ids) = 0
        BY <2>3, IdsFinite, SumZero
    <2>6. SumFunctionOnSet(Back, Ids) \in Int /\ AllFg \in Nat
        BY <2>2, IdsFinite, SumInt, WipTypes DEF IndInv
    <2>. QED
        BY <2>4, <2>5, <2>6
<1>7. SumFunctionOnSet(Loss, Ids) = -(entry[f].writeOff)
    <2>1. f \in Ids /\ f \in Live
        BY DEF LiveFinals, Live
    <2>2. Loss[f] = -(entry[f].writeOff)
        BY <1>2, <2>1 DEF IndInv, ClaimsMatchLedger, Live, NoEntry
    <2>3. \A i \in Ids \ {f} : Loss[i] = 0
        <3>. TAKE i \in Ids \ {f}
        <3>2. CASE receipt[i].state = "absent"
            BY <3>2 DEF IndInv, Blank, Posted, NoEntry
        <3>3. CASE receipt[i].state = "reversed"
            BY <1>2, <3>3 DEF IndInv, ClaimsMatchLedger
        <3>4. CASE receipt[i].state = "live"
            <4>1. ~receipt[i].final
                BY <3>4, OneFinal DEF LiveFinals, Live
            <4>. QED
                BY <1>2, <3>4, <4>1 DEF IndInv, ClaimsMatchLedger, NoEntry, PartialsLoseNothing
        <3>. QED
            BY <3>2, <3>3, <3>4 DEF IndInv, ReceiptTypeOK, Receipts
    <2>4. \A i \in Ids : Loss[i] \in Int
        BY <1>2
    <2>. HIDE DEF Loss
    <2>5. SumFunctionOnSet(Loss, Ids) = Loss[f] + SumFunctionOnSet(Loss, Ids \ {f})
        BY <2>1, <2>4, IdsFinite, SumRemove
    <2>6. SumFunctionOnSet(Loss, Ids \ {f}) = 0
        BY <2>3, IdsFinite, FS_Subset, SumZero
    <2>7. entry[f].writeOff \in Nat
        BY <1>2, <2>1
    <2>. QED
        BY <2>2, <2>5, <2>6, <2>7
<1>8. f \in Ids
    BY DEF LiveFinals, Live
<1>9. entry[f].writeOff \in Nat
    BY <1>2, <1>8
<1>10. /\ SeriesWip = issued * IssueValue + AllManual /\ issued * IssueValue \in Nat
       /\ AllManual \in Nat /\ AllFg \in Nat
    BY WipTypes DEF SeriesWip, IndInv
<1>. HIDE DEF Moved, Net, Back, Loss
<1>. QED
    BY <1>1, <1>4, <1>5, <1>6, <1>7, <1>9, <1>10

\* Once the final receipt is posted nothing of the series' cost stays in work in
\* progress, and without material moves at most a cent for each receipt too much
\* was taken: for every plan, loss rate, cost and order of postings, partials
\* that are posted after the final included (buildReceiveLines of
\* accounting/production.go).
THEOREM NothingEverStrands == Spec => []NothingStrandsInWip
<1>1. ASSUME IndInv, WipInv
      PROVE  NothingStrandsInWip
    <2>. SUFFICES ASSUME count.entryReversals = 0, NEW f \in LiveFinals, entry[f] # NoEntry
                  PROVE  Wip <= 0 /\ (count.moves = 0 => Wip >= -Cardinality(Posted))
        BY DEF NothingStrandsInWip
    <2>1. f \in PostedFinals /\ f \in Posted /\ f \in Ids
        BY DEF PostedFinals, LiveFinals, Live, Posted
    <2>2. Wip = SeriesWip - AllFg - entry[f].writeOff
        BY <1>1, WipIs DEF WipInv
    <2>3. /\ SeriesWip <= AllFg + entry[f].writeOff
          /\ count.moves = 0 => AllFg + entry[f].writeOff <= SeriesWip + 1
        BY <1>1, <2>1 DEF WipInv, WipTaken
    <2>4. SeriesWip \in Nat /\ AllFg \in Nat /\ entry[f].writeOff \in Nat
        BY <1>1, <2>1, WipTypes, Types DEF IndInv, Lines
    <2>5. Cardinality(Posted) \in Nat /\ Cardinality(Posted) >= 1
        <3>1. IsFiniteSet(Posted)
            BY IdsFinite, FS_Subset DEF Posted
        <3>2. Cardinality(Posted) # 0
            BY <2>1, <3>1, FS_EmptySet
        <3>. QED
            BY <3>1, <3>2, FS_CardinalityType
    <2>. QED
        BY <2>2, <2>3, <2>4, <2>5
<1>. QED
    BY <1>1, WipHolds, PTL

\* The finished goods in the ledger always cover the cost price the final receipt
\* froze, but for the roundings, for every value of the constants, if nothing was
\* typed into the counters: the unit cost of productionrun_receipt.go and the
\* worker's split of the same money agree.
THEOREM CostPriceAlwaysCovered == Spec => []CostPriceCovered
<1>1. ASSUME IndInv, WipInv
      PROVE  CostPriceCovered
    <2>. DEFINE Fg == [i \in Ids |-> entry[i].fg - comp[i].fg]
    <2>. SUFFICES ASSUME NEW f \in LiveFinals, entry[f] # NoEntry,
                         count.entryReversals = 0, Typed = <<0, 0>>
                  PROVE  2 * receipt[f].unitCost * LiveGood
                            <= 2 * SumFunctionOnSet(Fg, Ids) + LiveGood + 1
        BY DEF CostPriceCovered, Sum, LiveGood, GoodOf
    <2>1. Fg = FgOf
        BY <1>1 DEF IndInv, ClaimsMatchLedger, FgOf
    <2>2. SumFunctionOnSet(Fg, Ids) = AllFg
        BY <2>1 DEF AllFg
    <2>0. NothingTyped
        <3>1. rollup[1] - LiveGood = 0 /\ rollup[2] - LiveDefects = 0
            BY TypedBySums
        <3>2. /\ rollup[1] \in Nat /\ rollup[2] \in Nat
              /\ LiveGood \in Nat /\ LiveDefects \in Nat
            BY <1>1, SumTypes DEF IndInv, ReceiptTypeOK
        <3>. QED
            BY <3>1, <3>2 DEF NothingTyped
    <2>3. CostsCovered(f)
        BY <1>1, <2>0 DEF WipInv, CostFrozen, PostedFinals
    <2>4. f \in Ids
        BY DEF LiveFinals, Live
    <2>5. PICK c \in Nat : c = receipt[f].unitCost
        BY <1>1, <2>4, Types DEF IndInv, Receipts
    <2>6. PICK g \in Nat : g = LiveGood
        BY <1>1, SumTypes DEF IndInv
    <2>7. 2 * c * g = 2 * (g * c)
        OBVIOUS
    <2>. HIDE DEF Fg
    <2>. QED
        BY <2>2, <2>3, <2>5, <2>6, <2>7 DEF CostsCovered
<1>. QED
    BY <1>1, WipHolds, PTL
=============================================================================
