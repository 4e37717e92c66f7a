------------------------- MODULE StockReserveProofs -------------------------
(***************************************************************************)
(* Proofs about StockReserve, for any sessions, items, orders, stock, TTLs   *)
(* and limits.                                                             *)
(***************************************************************************)
EXTENDS StockReserve, SumTheorems

(***************************************************************************)
(* Facts about one state                                                   *)
(***************************************************************************)
\* The arithmetic facts of ReserveAssumption.
LEMMA ConstantTypes ==
    /\ IsFiniteSet(Sessions) /\ IsFiniteSet(Items)
    /\ Stock \in [Items -> Nat]
    /\ CartTTL \in Nat \ {0} /\ OrderTTL \in Nat \ {0} /\ RateWindow \in Nat \ {0}
    /\ ReserveRatePerSession \in Nat \ {0}
    /\ MaxItemsPerSession \in Nat /\ MaxQtyPerItem \in Nat
    /\ MaxTotalReservations \in Nat /\ MaxTTLRefreshes \in Nat /\ MaxAsk \in Nat
    /\ NoOrder \notin OrderUUIDs
    /\ LongestTTL \in Nat /\ CartTTL <= LongestTTL /\ OrderTTL <= LongestTTL
BY ReserveAssumption DEF LongestTTL

\* There are finitely many keys.
LEMMA KeysFinite ==
    /\ IsFiniteSet(Keys)
    /\ \A s : IsFiniteSet(KeysOf(s)) /\ KeysOf(s) \subseteq Keys
<1>1. IsFiniteSet(Keys)
    BY ReserveAssumption, FS_Product DEF Keys
<1>. QED
    BY <1>1, FS_Subset DEF KeysOf

\* A hold that exists is a reservation.
LEMMA PresentIsReservation ==
    ASSUME TypeOK, NEW k \in Keys
    PROVE  Present(k) <=> res[k] \in Reservations
BY ConstantTypes DEF TypeOK, Present, Absent, Reservations

\* A record of the type of a reservation is not Absent.
LEMMA ReservationIsPresent ==
    Absent \notin Reservations
BY ConstantTypes DEF Absent, Reservations

\* What other sessions hold of an item is a natural number.
LEMMA ReservedQuantityNat ==
    ASSUME TypeOK, NEW i \in Items, NEW x
    PROVE  ReservedQuantity(i, x) \in Nat
<1>. DEFINE f == [s \in Sessions |-> IF s # x /\ Active(<<i, s>>)
                            THEN byProductSize[<<i, s>>] * res[<<i, s>>].qty
                            ELSE 0]
<1>1. ASSUME NEW s \in Sessions PROVE f[s] \in Nat
    <2>1. <<i, s>> \in Keys
        BY DEF Keys
    <2>2. byProductSize[<<i, s>>] \in Nat
        BY <2>1 DEF TypeOK
    <2>3. CASE s # x /\ Active(<<i, s>>)
        <3>1. res[<<i, s>>] \in Reservations
            BY <2>1, <2>3, PresentIsReservation DEF Active
        <3>2. res[<<i, s>>].qty \in Nat
            BY <3>1, ConstantTypes DEF Reservations
        <3>. QED
            BY <2>2, <2>3, <3>2
    <2>. QED
        BY <2>3
<1>2. SumFunctionOnSet(f, Sessions) \in Nat
    <2>. HIDE DEF f
    <2>. QED
        BY <1>1, ConstantTypes, SumNat
<1>. QED
    BY <1>2 DEF ReservedQuantity

----------------------------------------------------------------------------
(***************************************************************************)
(* Types                                                                   *)
(***************************************************************************)
\* The quantity ReserveIfAvailable settles on is within the cap.
LEMMA ReserveStep ==
    ASSUME TypeOK, NEW s \in Sessions, NEW i \in Items, NEW ask \in 1 .. MaxAsk,
           ReserveIfAvailable(s, i, ask)
    PROVE  \E qty \in 1 .. MaxQtyPerItem :
              /\ qty <= Stock[i] - ReservedQuantity(i, s)
              /\ \/ NewHold(<<i, s>>, qty)
                 \/ RenewHold(<<i, s>>, qty)
                 \/ UNCHANGED <<res, indexVars, claimant>>
              /\ RateAllows(s) /\ CountCall(s)
              /\ UNCHANGED submitted
<1>1. Stock[i] \in Nat /\ ReservedQuantity(i, s) \in Nat
    BY ConstantTypes, ReservedQuantityNat
<1>. DEFINE available == Stock[i] - ReservedQuantity(i, s)
            qty == IF ask > available THEN available ELSE ask
<1>2. available > 0 /\ qty <= MaxQtyPerItem
    BY DEF ReserveIfAvailable
<1>3. qty \in 1 .. MaxQtyPerItem /\ qty <= available
    <2>. HIDE DEF available
    <2>1. available \in Int
        BY <1>1 DEF available
    <2>. QED
        BY <1>2, <2>1, ConstantTypes
<1>4. /\ \/ NewHold(<<i, s>>, qty)
         \/ RenewHold(<<i, s>>, qty)
         \/ UNCHANGED <<res, indexVars, claimant>>
      /\ RateAllows(s) /\ CountCall(s)
      /\ UNCHANGED submitted
    BY DEF ReserveIfAvailable
<1>. QED
    <2>. HIDE DEF qty
    <2>. QED
        BY <1>3, <1>4 DEF qty

\* A counted call stays within the rate.
LEMMA RateType ==
    ASSUME TypeOK, NEW s \in Sessions, RateAllows(s), CountCall(s)
    PROVE  rate' \in [Sessions -> [count : 0 .. ReserveRatePerSession,
                                   expiresAt : Countdown(RateWindow)]]
<1>1. rate[s].count \in 0 .. ReserveRatePerSession
    BY DEF TypeOK
<1>. QED
    BY <1>1, ConstantTypes
       DEF TypeOK, RateAllows, CountCall, Countdown, PastDeadline

\* A hold's record keeps its type when it is made, renewed or committed, and
\* when its deadline comes closer.
LEMMA RecordTypes ==
    ASSUME NEW r \in Reservations, NEW qty \in 1 .. MaxQtyPerItem,
           NEW o \in OrderUUIDs
    PROVE  /\ [qty |-> qty, expiresAt |-> CartTTL, order |-> NoOrder,
               refreshCount |-> 0] \in Reservations
           /\ [r EXCEPT !.qty = qty] \in Reservations
           /\ r.refreshCount < MaxTTLRefreshes =>
                [qty |-> qty, expiresAt |-> r.expiresAt, order |-> NoOrder,
                 refreshCount |-> r.refreshCount + 1] \in Reservations
           /\ [r EXCEPT !.order = o, !.expiresAt = OrderTTL,
                        !.refreshCount = 0] \in Reservations
           /\ [r EXCEPT !.expiresAt = Closer(@)] \in Reservations
<1>1. CartTTL \in Countdown(LongestTTL) /\ OrderTTL \in Countdown(LongestTTL)
    BY ConstantTypes DEF Countdown, PastDeadline
<1>2. 0 \in 0 .. MaxTTLRefreshes
    BY ConstantTypes
<1>3. [qty |-> qty, expiresAt |-> CartTTL, order |-> NoOrder,
       refreshCount |-> 0] \in Reservations
    BY <1>1, <1>2 DEF Reservations
<1>4. [r EXCEPT !.qty = qty] \in Reservations
    BY DEF Reservations
<1>5. ASSUME r.refreshCount < MaxTTLRefreshes
      PROVE  [qty |-> qty, expiresAt |-> r.expiresAt, order |-> NoOrder,
              refreshCount |-> r.refreshCount + 1] \in Reservations
    <2>1. r.refreshCount + 1 \in 0 .. MaxTTLRefreshes
        BY <1>5, ConstantTypes DEF Reservations
    <2>. QED
        BY <2>1 DEF Reservations
<1>6. [r EXCEPT !.order = o, !.expiresAt = OrderTTL,
                !.refreshCount = 0] \in Reservations
    BY <1>1, <1>2 DEF Reservations
<1>7. [r EXCEPT !.expiresAt = Closer(@)] \in Reservations
    <2>1. Closer(r.expiresAt) \in Countdown(LongestTTL)
        BY ConstantTypes DEF Reservations, Countdown, PastDeadline, Closer
    <2>. QED
        BY <2>1 DEF Reservations
<1>. QED
    BY <1>3, <1>4, <1>5, <1>6, <1>7

\* What those records hold.
LEMMA RecordFields ==
    ASSUME NEW r \in Reservations, NEW qty, NEW o
    PROVE  /\ [r EXCEPT !.qty = qty].qty = qty
           /\ [r EXCEPT !.qty = qty].order = r.order
           /\ [r EXCEPT !.order = o, !.expiresAt = OrderTTL,
                        !.refreshCount = 0].order = o
           /\ [r EXCEPT !.expiresAt = Closer(@)].order = r.order
           /\ [r EXCEPT !.expiresAt = Closer(@)].qty = r.qty
           /\ [r EXCEPT !.expiresAt = Closer(@)].expiresAt = Closer(r.expiresAt)
<1>1. [r EXCEPT !.qty = qty].qty = qty /\ [r EXCEPT !.qty = qty].order = r.order
    BY DEF Reservations
<1>2. [r EXCEPT !.order = o, !.expiresAt = OrderTTL, !.refreshCount = 0].order = o
    BY DEF Reservations
<1>3. /\ [r EXCEPT !.expiresAt = Closer(@)].order = r.order
      /\ [r EXCEPT !.expiresAt = Closer(@)].qty = r.qty
      /\ [r EXCEPT !.expiresAt = Closer(@)].expiresAt = Closer(r.expiresAt)
    BY DEF Reservations
<1>. QED
    BY <1>1, <1>2, <1>3

\* A new or a renewed hold: one record changes, and it takes no order's name it
\* did not have.
LEMMA HoldWritten ==
    ASSUME TypeOK, NEW k \in Keys, NEW qty \in 1 .. MaxQtyPerItem,
           NewHold(k, qty) \/ RenewHold(k, qty)
    PROVE  /\ res' \in [Keys -> Reservations \cup {Absent}]
           /\ res'[k] \in Reservations
           /\ res'[k].qty = qty
           /\ \/ res'[k].order = NoOrder
              \/ Present(k) /\ res'[k].order = res[k].order
           /\ \A j \in Keys \ {k} : res'[j] = res[j]
<1>0. res \in [Keys -> Reservations \cup {Absent}]
    BY DEF TypeOK
<1>1. CASE NewHold(k, qty)
    <2>. DEFINE new == [qty |-> qty, expiresAt |-> CartTTL,
                        order |-> NoOrder, refreshCount |-> 0]
    <2>1. new \in Reservations
        BY ConstantTypes DEF Reservations, Countdown, PastDeadline
    <2>2. res' = [res EXCEPT ![k] = new]
        BY <1>1 DEF NewHold
    <2>3. new.qty = qty /\ new.order = NoOrder
        OBVIOUS
    <2>. HIDE DEF new
    <2>. QED
        BY <1>0, <2>1, <2>2, <2>3
<1>2. CASE RenewHold(k, qty)
    <2>1. Present(k) /\ res[k] \in Reservations
        BY <1>2, PresentIsReservation DEF RenewHold
    <2>2. PICK r \in Reservations : r = res[k]
        BY <2>1
    <2>3. r.refreshCount \in Nat
        BY DEF Reservations
    <2>. DEFINE new == [qty |-> qty, expiresAt |-> r.expiresAt, order |-> NoOrder,
                        refreshCount |-> r.refreshCount + 1]
    <2>4. CASE r.refreshCount >= MaxTTLRefreshes
        <3>1. res' = [res EXCEPT ![k] = [r EXCEPT !.qty = qty]]
            BY <1>2, <2>2, <2>4 DEF RenewHold
        <3>2. PICK n : n = [r EXCEPT !.qty = qty]
            OBVIOUS
        <3>3. n \in Reservations /\ n.qty = qty /\ n.order = r.order
            <4>1. [r EXCEPT !.qty = qty] \in Reservations
                BY DEF Reservations
            <4>. QED
                BY <3>2, <4>1, RecordFields
        <3>. QED
            BY <1>0, <2>1, <2>2, <3>1, <3>2, <3>3
    <2>5. CASE ~(r.refreshCount >= MaxTTLRefreshes)
        <3>1. res' = [res EXCEPT ![k] = new]
            BY <1>2, <2>2, <2>5 DEF RenewHold
        <3>2. new \in Reservations
            <4>1. r.refreshCount + 1 \in 0 .. MaxTTLRefreshes
                BY <2>3, <2>5, ConstantTypes
            <4>. QED
                BY <4>1 DEF Reservations
        <3>3. new.qty = qty /\ new.order = NoOrder
            OBVIOUS
        <3>. HIDE DEF new
        <3>. QED
            BY <1>0, <3>1, <3>2, <3>3
    <2>. QED
        BY <2>4, <2>5
<1>. QED
    BY <1>1, <1>2

\* Commit: the session's holds become the order's, no other record changes.
LEMMA CommitWrites ==
    ASSUME TypeOK, NEW s \in Sessions, NEW o \in OrderUUIDs, Commit(s, o)
    PROVE  /\ res' \in [Keys -> Reservations \cup {Absent}]
           /\ \A k \in Keys :
                \/ /\ bySession[k] > 0 /\ Present(k)
                   /\ res'[k] \in Reservations /\ res'[k].order = o
                   /\ claimant'[k] = o
                   /\ byOrder'[o][k] = byOrder[o][k] + bySession[k]
                \/ /\ res'[k] = res[k]
                   /\ claimant'[k] = claimant[k]
                   /\ byOrder'[o][k] = byOrder[o][k]
<1>. DEFINE mine == {k \in KeysOf(s) : bySession[k] > 0 /\ Present(k)}
<1>1. /\ res' = [k \in Keys |->
              IF k \in mine
              THEN [res[k] EXCEPT !.order = o, !.expiresAt = OrderTTL,
                                  !.refreshCount = 0]
              ELSE res[k]]
      /\ byOrder' = [byOrder EXCEPT ![o] =
              [k \in Keys |-> IF k \in mine THEN byOrder[o][k] + bySession[k]
                              ELSE byOrder[o][k]]]
      /\ claimant' = [k \in Keys |-> IF k \in mine THEN o ELSE claimant[k]]
    BY DEF Commit
<1>2. ASSUME NEW k \in Keys, k \in mine
      PROVE  /\ bySession[k] > 0 /\ Present(k)
             /\ res'[k] \in Reservations /\ res'[k].order = o
    <2>1. bySession[k] > 0 /\ Present(k)
        BY <1>2
    <2>2. PICK r \in Reservations : r = res[k]
        BY <2>1, PresentIsReservation
    <2>3. res'[k] = [r EXCEPT !.order = o, !.expiresAt = OrderTTL,
                              !.refreshCount = 0]
        BY <1>1, <1>2, <2>2
    <2>4. 1 \in 1 .. MaxQtyPerItem
        BY <2>2, ConstantTypes DEF Reservations
    <2>5. PICK n : n = [r EXCEPT !.order = o, !.expiresAt = OrderTTL,
                                 !.refreshCount = 0]
        OBVIOUS
    <2>6. n \in Reservations
        BY <2>4, <2>5, RecordTypes
    <2>7. n.order = o
        BY <2>5, RecordFields
    <2>. QED
        BY <2>1, <2>3, <2>5, <2>6, <2>7
<1>. HIDE DEF mine
<1>3. byOrder \in [OrderUUIDs -> [Keys -> Nat]]
        /\ res \in [Keys -> Reservations \cup {Absent}]
    BY DEF TypeOK
<1>4. byOrder'[o] = [k \in Keys |-> IF k \in mine THEN byOrder[o][k] + bySession[k]
                                    ELSE byOrder[o][k]]
    BY <1>1, <1>3
<1>5. ASSUME NEW k \in Keys
      PROVE  \/ /\ bySession[k] > 0 /\ Present(k)
                /\ res'[k] \in Reservations /\ res'[k].order = o
                /\ claimant'[k] = o
                /\ byOrder'[o][k] = byOrder[o][k] + bySession[k]
             \/ /\ res'[k] = res[k]
                /\ claimant'[k] = claimant[k]
                /\ byOrder'[o][k] = byOrder[o][k]
    <2>1. CASE k \in mine
        BY <1>1, <1>2, <1>4, <2>1
    <2>2. CASE k \notin mine
        BY <1>1, <1>4, <2>2
    <2>. QED
        BY <2>1, <2>2
<1>6. \A k \in Keys : res'[k] \in Reservations \cup {Absent}
    BY <1>3, <1>5
<1>7. res' \in [Keys -> Reservations \cup {Absent}]
    BY <1>1, <1>6
<1>. QED
    BY <1>5, <1>7

\* Tick: a hold changes nothing but its deadline.
LEMMA TickWrites ==
    ASSUME TypeOK, Tick
    PROVE  /\ res' \in [Keys -> Reservations \cup {Absent}]
           /\ \A k \in Keys :
                \/ /\ Present(k) /\ res'[k] \in Reservations
                   /\ res'[k].order = res[k].order /\ res'[k].qty = res[k].qty
                   /\ res'[k].expiresAt = Closer(res[k].expiresAt)
                \/ ~Present(k) /\ res'[k] = res[k]
<1>1. res' = [k \in Keys |-> IF Present(k)
                             THEN [res[k] EXCEPT !.expiresAt = Closer(@)]
                             ELSE res[k]]
    BY DEF Tick
<1>2. ASSUME NEW k \in Keys, Present(k)
      PROVE  /\ res'[k] \in Reservations
             /\ res'[k].order = res[k].order /\ res'[k].qty = res[k].qty
             /\ res'[k].expiresAt = Closer(res[k].expiresAt)
    <2>1. PICK r \in Reservations : r = res[k]
        BY <1>2, PresentIsReservation
    <2>2. res'[k] = [r EXCEPT !.expiresAt = Closer(@)]
        BY <1>1, <1>2, <2>1
    <2>3. [r EXCEPT !.expiresAt = Closer(@)] \in Reservations
        <3>1. Closer(r.expiresAt) \in Countdown(LongestTTL)
            BY ConstantTypes DEF Reservations, Countdown, PastDeadline, Closer
        <3>. QED
            BY <3>1 DEF Reservations
    <2>. QED
        BY <2>1, <2>2, <2>3, RecordFields
<1>3. \A k \in Keys : ~Present(k) => res'[k] = res[k] /\ res[k] = Absent
    BY <1>1 DEF Present
<1>. QED
    BY <1>1, <1>2, <1>3

\* The inductive invariant.  Beyond what the runs check, a hold's history names
\* no order once the hold is gone, so an order whose index is emptied by its
\* release claims nothing any more.
ClaimantsHold == \A k \in Keys : claimant[k] # NoOrder => Present(k)

IndInv ==
    /\ TypeOK
    /\ IndexesExact
    /\ CommittedHoldReleasable
    /\ ClaimantsHold
    /\ CapsRespected

\* The first state.
LEMMA InitInv == Init => IndInv
<1>. SUFFICES ASSUME Init PROVE IndInv
    OBVIOUS
<1>1. TypeOK
    BY ConstantTypes
       DEF Init, TypeOK, Countdown, PastDeadline
<1>2. \A k \in Keys : ~Present(k)
    BY DEF Init, Present
<1>3. IndexesExact
    BY <1>2 DEF Init, IndexesExact
<1>4. CommittedHoldReleasable /\ ClaimantsHold
    BY <1>2 DEF Init, CommittedHoldReleasable, ClaimantsHold
<1>5. CapsRespected
    <2>1. {k \in Keys : Present(k)} = {}
        BY <1>2
    <2>2. ASSUME NEW s \in Sessions PROVE SessionItems(s) = 0
        <3>1. IsFiniteSet(KeysOf(s)) /\ \A k \in KeysOf(s) : bySession[k] = 0
            BY KeysFinite DEF Init
        <3>. QED
            BY <3>1, SumZero DEF SessionItems
    <2>. QED
        BY <2>1, <2>2, ConstantTypes, FS_EmptySet DEF CapsRespected
<1>. QED
    BY <1>1, <1>3, <1>4, <1>5 DEF IndInv

\* A hold that goes is absent; the others stay as they are.
LEMMA RemoveWrites ==
    ASSUME TypeOK, NEW gone \in SUBSET Keys, RemoveReservations(gone)
    PROVE  /\ res' \in [Keys -> Reservations \cup {Absent}]
           /\ bySession' \in [Keys -> Nat] /\ byProductSize' \in [Keys -> Nat]
           /\ claimant' \in [Keys -> OrderUUIDs \cup {NoOrder}]
           /\ \A k \in gone : /\ res'[k] = Absent /\ bySession'[k] = 0
                              /\ byProductSize'[k] = 0 /\ claimant'[k] = NoOrder
           /\ \A k \in Keys \ gone :
                /\ res'[k] = res[k] /\ bySession'[k] = bySession[k]
                /\ byProductSize'[k] = byProductSize[k]
                /\ claimant'[k] = claimant[k]
BY DEF TypeOK, RemoveReservations, Unless

\* The shape of the state is kept.
LEMMA TypeStep ==
    ASSUME IndInv, [Next]_vars
    PROVE  TypeOK'
<1>0. TypeOK
    BY DEF IndInv
<1>1. ASSUME NEW s \in Sessions, NEW i \in Items, NEW ask \in 1 .. MaxAsk,
             ReserveIfAvailable(s, i, ask)
      PROVE  TypeOK'
    <2>1. PICK qty \in 1 .. MaxQtyPerItem :
              /\ \/ NewHold(<<i, s>>, qty)
                 \/ RenewHold(<<i, s>>, qty)
                 \/ UNCHANGED <<res, indexVars, claimant>>
              /\ RateAllows(s) /\ CountCall(s)
              /\ UNCHANGED submitted
        BY <1>0, <1>1, ReserveStep
    <2>2. rate' \in [Sessions -> [count : 0 .. ReserveRatePerSession,
                                  expiresAt : Countdown(RateWindow)]]
        BY <1>0, <2>1, RateType
    <2>3. PICK k \in Keys : k = <<i, s>>
        BY DEF Keys
    <2>4. CASE NewHold(k, qty)
        <3>1. res' \in [Keys -> Reservations \cup {Absent}]
            BY <1>0, <2>4, HoldWritten
        <3>. QED
            BY <1>0, <2>1, <2>2, <2>4, <3>1 DEF TypeOK, NewHold
    <2>5. CASE RenewHold(k, qty)
        <3>1. res' \in [Keys -> Reservations \cup {Absent}]
            BY <1>0, <2>5, HoldWritten
        <3>2. UNCHANGED <<indexVars, claimant>>
            BY <2>5 DEF RenewHold
        <3>. QED
            BY <1>0, <2>1, <2>2, <3>1, <3>2 DEF TypeOK, indexVars
    <2>6. CASE UNCHANGED <<res, indexVars, claimant>>
        BY <1>0, <2>1, <2>2, <2>6 DEF TypeOK, indexVars
    <2>. QED
        BY <2>1, <2>3, <2>4, <2>5, <2>6
<1>2. ASSUME NEW s \in Sessions, NEW o \in OrderUUIDs, Commit(s, o)
      PROVE  TypeOK'
    <2>1. res' \in [Keys -> Reservations \cup {Absent}]
        BY <1>0, <1>2, CommitWrites
    <2>2. /\ byOrder' \in [OrderUUIDs -> [Keys -> Nat]]
          /\ claimant' \in [Keys -> OrderUUIDs \cup {NoOrder}]
        <3>. DEFINE mine == {k \in KeysOf(s) : bySession[k] > 0 /\ Present(k)}
                    row == [k \in Keys |-> IF k \in mine
                                           THEN byOrder[o][k] + bySession[k]
                                           ELSE byOrder[o][k]]
        <3>1. /\ byOrder' = [byOrder EXCEPT ![o] = row]
              /\ claimant' = [k \in Keys |-> IF k \in mine THEN o ELSE claimant[k]]
            BY <1>2 DEF Commit
        <3>. HIDE DEF mine
        <3>2. row \in [Keys -> Nat]
            BY <1>0 DEF TypeOK
        <3>. HIDE DEF row
        <3>. QED
            BY <1>0, <3>1, <3>2 DEF TypeOK
    <2>3. submitted' \subseteq OrderUUIDs
            /\ UNCHANGED <<bySession, byProductSize, rate>>
        BY <1>0, <1>2 DEF TypeOK, Commit
    <2>. QED
        BY <1>0, <2>1, <2>2, <2>3 DEF TypeOK
<1>3. ASSUME NEW s \in Sessions, ReleaseSession(s)
      PROVE  TypeOK'
    <2>1. [count |-> 0, expiresAt |-> PastDeadline]
              \in [count : 0 .. ReserveRatePerSession,
                   expiresAt : Countdown(RateWindow)]
        BY ConstantTypes DEF Countdown, PastDeadline
    <2>2. rate' \in [Sessions -> [count : 0 .. ReserveRatePerSession,
                                  expiresAt : Countdown(RateWindow)]]
        BY <1>0, <1>3, <2>1 DEF TypeOK, ReleaseSession
    <2>. QED
        BY <1>0, <1>3, <2>2 DEF TypeOK, ReleaseSession, Unless
<1>4. ASSUME NEW o \in OrderUUIDs, Release(o)
      PROVE  TypeOK'
    <2>1. /\ res' \in [Keys -> Reservations \cup {Absent}]
          /\ bySession' \in [Keys -> Nat] /\ byProductSize' \in [Keys -> Nat]
          /\ claimant' \in [Keys -> OrderUUIDs \cup {NoOrder}]
        BY <1>0, <1>4 DEF TypeOK, Release, RemoveReservations, Unless
    <2>. QED
        BY <1>0, <1>4, <2>1 DEF TypeOK, Release
<1>5. CASE Tick
    <2>1. res' \in [Keys -> Reservations \cup {Absent}]
        BY <1>0, <1>5, TickWrites
    <2>2. ASSUME NEW s \in Sessions
          PROVE  rate'[s] \in [count : 0 .. ReserveRatePerSession,
                               expiresAt : Countdown(RateWindow)]
        <3>1. PICK r \in [count : 0 .. ReserveRatePerSession,
                          expiresAt : Countdown(RateWindow)] : r = rate[s]
            BY <1>0 DEF TypeOK
        <3>2. CASE r.expiresAt = 0
            BY <1>5, <3>1, <3>2, ConstantTypes DEF Tick, Countdown, PastDeadline
        <3>3. CASE r.expiresAt # 0
            <4>1. rate'[s] = [r EXCEPT !.expiresAt = Closer(@)]
                BY <1>5, <3>1, <3>3 DEF Tick
            <4>2. Closer(r.expiresAt) \in Countdown(RateWindow)
                BY <3>3, ConstantTypes DEF Closer, Countdown, PastDeadline
            <4>. QED
                BY <4>1, <4>2
        <3>. QED
            BY <3>2, <3>3
    <2>3. rate' \in [Sessions -> [count : 0 .. ReserveRatePerSession,
                                  expiresAt : Countdown(RateWindow)]]
        <3>1. PICK g : g = [s \in Sessions |-> rate'[s]]
            OBVIOUS
        <3>2. rate' = g
            BY <1>5, <3>1 DEF Tick
        <3>. QED
            BY <2>2, <3>1, <3>2
    <2>4. UNCHANGED <<indexVars, submitted, claimant>>
        BY <1>5 DEF Tick
    <2>. QED
        BY <1>0, <2>1, <2>3, <2>4 DEF TypeOK, indexVars
<1>6. CASE CleanUp
    <2>1. /\ res' \in [Keys -> Reservations \cup {Absent}]
          /\ bySession' \in [Keys -> Nat] /\ byProductSize' \in [Keys -> Nat]
          /\ claimant' \in [Keys -> OrderUUIDs \cup {NoOrder}]
        BY <1>0, <1>6 DEF TypeOK, CleanUp, RemoveReservations, Unless
    <2>2. byOrder' \in [OrderUUIDs -> [Keys -> Nat]]
        BY <1>0, <1>6 DEF TypeOK, CleanUp
    <2>3. UNCHANGED <<rate, submitted>>
        BY <1>6 DEF CleanUp
    <2>. QED
        BY <1>0, <2>1, <2>2, <2>3 DEF TypeOK
<1>7. CASE UNCHANGED vars
    BY <1>0, <1>7 DEF TypeOK, vars, indexVars
<1>. QED
    BY <1>1, <1>2, <1>3, <1>4, <1>5, <1>6, <1>7 DEF Next

(***************************************************************************)
(* The indexes and the orders                                              *)
(***************************************************************************)
\* The product-size index names the holds that exist, each once.
LEMMA IndexesStep ==
    ASSUME IndInv, [Next]_vars
    PROVE  IndexesExact'
<1>0. TypeOK /\ IndexesExact
    BY DEF IndInv
<1>1. ASSUME NEW s \in Sessions, NEW i \in Items, NEW ask \in 1 .. MaxAsk,
             ReserveIfAvailable(s, i, ask)
      PROVE  IndexesExact'
    <2>1. PICK qty \in 1 .. MaxQtyPerItem :
                 \/ NewHold(<<i, s>>, qty)
                 \/ RenewHold(<<i, s>>, qty)
                 \/ UNCHANGED <<res, indexVars, claimant>>
        BY <1>0, <1>1, ReserveStep
    <2>3. PICK k \in Keys : k = <<i, s>>
        BY DEF Keys
    <2>4. CASE NewHold(k, qty)
        <3>1. res'[k] \in Reservations /\ \A j \in Keys \ {k} : res'[j] = res[j]
            BY <1>0, <2>4, HoldWritten
        <3>2. /\ ~Present(k)
              /\ bySession' = [bySession EXCEPT ![k] = @ + 1]
              /\ byProductSize' = [byProductSize EXCEPT ![k] = @ + 1]
            BY <2>4 DEF NewHold
        <3>3. Present(k)'
            BY <3>1, ReservationIsPresent DEF Present
        <3>4. byProductSize[k] = 0 /\ bySession[k] = 0
            BY <1>0, <3>2 DEF IndexesExact, TypeOK
        <3>5. ASSUME NEW j \in Keys
              PROVE  /\ byProductSize'[j] = IF Present(j)' THEN 1 ELSE 0
                     /\ bySession'[j] <= byProductSize'[j]
            <4>1. CASE j = k
                BY <1>0, <3>2, <3>3, <3>4, <4>1 DEF TypeOK
            <4>2. CASE j # k
                <5>1. Present(j)' <=> Present(j)
                    BY <3>1, <4>2 DEF Present
                <5>2. byProductSize'[j] = byProductSize[j] /\ bySession'[j] = bySession[j]
                    BY <1>0, <3>2, <4>2 DEF TypeOK
                <5>. QED
                    BY <1>0, <5>1, <5>2 DEF IndexesExact
            <4>. QED
                BY <4>1, <4>2
        <3>. QED
            BY <3>5 DEF IndexesExact
    <2>5. CASE RenewHold(k, qty)
        <3>1. res'[k] \in Reservations /\ \A j \in Keys \ {k} : res'[j] = res[j]
            BY <1>0, <2>5, HoldWritten
        <3>2. Present(k) /\ UNCHANGED <<bySession, byProductSize>>
            BY <2>5 DEF RenewHold, indexVars
        <3>3. \A j \in Keys : Present(j)' <=> Present(j)
            BY <3>1, <3>2, ReservationIsPresent DEF Present
        <3>. QED
            BY <1>0, <3>2, <3>3 DEF IndexesExact
    <2>6. CASE UNCHANGED <<res, indexVars, claimant>>
        BY <1>0, <2>6 DEF IndexesExact, Present, indexVars
    <2>. QED
        BY <2>1, <2>3, <2>4, <2>5, <2>6
<1>2. ASSUME NEW s \in Sessions, NEW o \in OrderUUIDs, Commit(s, o)
      PROVE  IndexesExact'
    <2>1. UNCHANGED <<bySession, byProductSize>>
        BY <1>2 DEF Commit
    <2>2. ASSUME NEW k \in Keys PROVE Present(k)' <=> Present(k)
        <3>1. (Present(k) /\ res'[k] \in Reservations) \/ res'[k] = res[k]
            BY <1>0, <1>2, CommitWrites
        <3>. QED
            BY <3>1, ReservationIsPresent DEF Present
    <2>. QED
        BY <1>0, <2>1, <2>2 DEF IndexesExact
<1>3. ASSUME NEW s \in Sessions, ReleaseSession(s)
      PROVE  IndexesExact'
    <2>1. ASSUME NEW k \in Keys
          PROVE  \/ /\ res'[k] = Absent /\ byProductSize'[k] = 0
                    /\ bySession'[k] = 0
                 \/ /\ res'[k] = res[k] /\ byProductSize'[k] = byProductSize[k]
                    /\ bySession'[k] \in {0, bySession[k]}
        BY <1>3 DEF ReleaseSession, Unless
    <2>2. ASSUME NEW k \in Keys
          PROVE  /\ byProductSize'[k] = IF Present(k)' THEN 1 ELSE 0
                 /\ bySession'[k] <= byProductSize'[k]
        <3>1. /\ byProductSize[k] = IF Present(k) THEN 1 ELSE 0
              /\ bySession[k] <= byProductSize[k]
              /\ bySession[k] \in Nat /\ byProductSize[k] \in Nat
            BY <1>0 DEF IndexesExact, TypeOK
        <3>. QED
            BY <2>1, <3>1 DEF Present
    <2>. QED
        BY <2>2 DEF IndexesExact
<1>4. ASSUME NEW gone \in SUBSET Keys, RemoveReservations(gone)
      PROVE  IndexesExact'
    <2>1. ASSUME NEW k \in Keys
          PROVE  /\ byProductSize'[k] = IF Present(k)' THEN 1 ELSE 0
                 /\ bySession'[k] <= byProductSize'[k]
        <3>1. CASE k \in gone
            BY <1>0, <1>4, <3>1, RemoveWrites DEF Present
        <3>2. CASE k \notin gone
            BY <1>0, <1>4, <3>2, RemoveWrites DEF Present, IndexesExact
        <3>. QED
            BY <3>1, <3>2
    <2>. QED
        BY <2>1 DEF IndexesExact
<1>5. ASSUME NEW o \in OrderUUIDs, Release(o)
      PROVE  IndexesExact'
    <2>1. \E gone \in SUBSET Keys : RemoveReservations(gone)
        BY <1>5 DEF Release
    <2>. QED
        BY <1>4, <2>1
<1>6. CASE Tick
    <2>1. UNCHANGED <<bySession, byProductSize>>
        BY <1>6 DEF Tick, indexVars
    <2>2. ASSUME NEW k \in Keys PROVE Present(k)' <=> Present(k)
        <3>1. (Present(k) /\ res'[k] \in Reservations) \/ res'[k] = res[k]
            BY <1>0, <1>6, TickWrites
        <3>. QED
            BY <3>1, ReservationIsPresent DEF Present
    <2>. QED
        BY <1>0, <2>1, <2>2 DEF IndexesExact
<1>7. CASE CleanUp
    <2>1. \E gone \in SUBSET Keys : RemoveReservations(gone)
        BY <1>7 DEF CleanUp
    <2>. QED
        BY <1>4, <2>1
<1>8. CASE UNCHANGED vars
    BY <1>0, <1>8 DEF IndexesExact, Present, vars, indexVars
<1>. QED
    BY <1>1, <1>2, <1>3, <1>5, <1>6, <1>7, <1>8 DEF Next

\* A hold's record and its history agree with the order's index.
LEMMA ReleasableStep ==
    ASSUME IndInv, [Next]_vars
    PROVE  CommittedHoldReleasable' /\ ClaimantsHold'
<1>0. TypeOK /\ CommittedHoldReleasable /\ ClaimantsHold
    BY DEF IndInv
<1>. DEFINE Ok(k) == /\ Present(k) /\ res[k].order # NoOrder =>
                            res[k].order = claimant[k]
                     /\ claimant[k] # NoOrder => /\ byOrder[claimant[k]][k] > 0
                                                 /\ Present(k)
<1>00. \A k \in Keys : Ok(k)
    BY <1>0 DEF CommittedHoldReleasable, ClaimantsHold
<1>. SUFFICES ASSUME NEW k \in Keys PROVE Ok(k)'
    BY DEF CommittedHoldReleasable, ClaimantsHold
<1>a. /\ claimant[k] \in OrderUUIDs \cup {NoOrder}
      /\ \A o \in OrderUUIDs : byOrder[o][k] \in Nat
      /\ bySession[k] \in Nat
    BY <1>0 DEF TypeOK
<1>b. Ok(k)
    BY <1>00
<1>1. ASSUME NEW s \in Sessions, NEW i \in Items, NEW ask \in 1 .. MaxAsk,
             ReserveIfAvailable(s, i, ask)
      PROVE  Ok(k)'
    <2>1. PICK qty \in 1 .. MaxQtyPerItem :
                 \/ NewHold(<<i, s>>, qty)
                 \/ RenewHold(<<i, s>>, qty)
                 \/ UNCHANGED <<res, indexVars, claimant>>
        BY <1>0, <1>1, ReserveStep
    <2>2. PICK w \in Keys : w = <<i, s>>
        BY DEF Keys
    <2>3. UNCHANGED <<byOrder, claimant>>
        BY <2>1 DEF NewHold, RenewHold, indexVars
    <2>4. CASE NewHold(w, qty) \/ RenewHold(w, qty)
        <3>1. CASE k = w
            <4>1. /\ res'[k] \in Reservations
                  /\ \/ res'[k].order = NoOrder
                     \/ Present(k) /\ res'[k].order = res[k].order
                BY <1>0, <2>4, <3>1, HoldWritten
            <4>2. Present(k)'
                BY <4>1, ReservationIsPresent DEF Present
            <4>. QED
                BY <1>b, <2>3, <4>1, <4>2
        <3>2. CASE k # w
            <4>1. res'[k] = res[k]
                BY <1>0, <2>4, <3>2, HoldWritten
            <4>. QED
                BY <1>b, <2>3, <4>1 DEF Present
        <3>. QED
            BY <3>1, <3>2
    <2>5. CASE UNCHANGED <<res, indexVars, claimant>>
        BY <1>b, <2>3, <2>5 DEF Present
    <2>. QED
        BY <2>1, <2>2, <2>4, <2>5
<1>2. ASSUME NEW s \in Sessions, NEW o \in OrderUUIDs, Commit(s, o)
      PROVE  Ok(k)'
    <2>1. \A u \in OrderUUIDs \ {o} : byOrder'[u] = byOrder[u]
        BY <1>0, <1>2 DEF TypeOK, Commit
    <2>2. CASE /\ bySession[k] > 0 /\ Present(k)
               /\ res'[k] \in Reservations /\ res'[k].order = o
               /\ claimant'[k] = o
               /\ byOrder'[o][k] = byOrder[o][k] + bySession[k]
        <3>1. Present(k)'
            BY <2>2, ReservationIsPresent DEF Present
        <3>2. byOrder[o][k] + bySession[k] > 0
            BY <1>a, <2>2
        <3>. QED
            BY <2>2, <3>1, <3>2
    <2>3. CASE /\ res'[k] = res[k]
               /\ claimant'[k] = claimant[k]
               /\ byOrder'[o][k] = byOrder[o][k]
        BY <1>a, <1>b, <2>1, <2>3 DEF Present
    <2>. QED
        BY <1>0, <1>2, <2>2, <2>3, CommitWrites
<1>3. ASSUME NEW s \in Sessions, ReleaseSession(s)
      PROVE  Ok(k)'
    <2>1. UNCHANGED byOrder
        BY <1>3 DEF ReleaseSession
    <2>2. \/ res'[k] = Absent /\ claimant'[k] = NoOrder
          \/ res'[k] = res[k] /\ claimant'[k] = claimant[k]
        BY <1>3 DEF ReleaseSession
    <2>. QED
        BY <1>b, <2>1, <2>2 DEF Present
<1>4. ASSUME NEW o \in OrderUUIDs, Release(o)
      PROVE  Ok(k)'
    <2>. DEFINE gone == {j \in Keys : byOrder[o][j] > 0 /\ Present(j)}
    <2>1. RemoveReservations(gone) /\ gone \in SUBSET Keys
        BY <1>4 DEF Release
    <2>2. \A u \in OrderUUIDs \ {o} : byOrder'[u] = byOrder[u]
        BY <1>0, <1>4 DEF TypeOK, Release
    <2>3. CASE k \in gone
        <3>. HIDE DEF gone
        <3>1. res'[k] = Absent /\ claimant'[k] = NoOrder
            BY <1>0, <2>1, <2>3, RemoveWrites
        <3>. QED
            BY <3>1 DEF Present
    <2>4. CASE k \notin gone
        <3>1. claimant[k] # o
            BY <1>b, <2>4, ConstantTypes
        <3>. HIDE DEF gone
        <3>2. res'[k] = res[k] /\ claimant'[k] = claimant[k]
            BY <1>0, <2>1, <2>4, RemoveWrites
        <3>. QED
            BY <1>a, <1>b, <2>2, <3>1, <3>2 DEF Present
    <2>. QED
        BY <2>3, <2>4
<1>5. CASE Tick
    <2>1. UNCHANGED <<byOrder, claimant>>
        BY <1>5 DEF Tick, indexVars
    <2>2. \/ Present(k) /\ res'[k] \in Reservations /\ res'[k].order = res[k].order
          \/ res'[k] = res[k]
        BY <1>0, <1>5, TickWrites
    <2>. QED
        BY <1>b, <2>1, <2>2, ReservationIsPresent DEF Present
<1>6. CASE CleanUp
    <2>. DEFINE gone == {j \in Keys : Present(j) /\ res[j].expiresAt = PastDeadline}
    <2>1. /\ RemoveReservations(gone) /\ gone \in SUBSET Keys
          /\ byOrder' = [o \in OrderUUIDs |->
                [j \in Keys |-> IF j \in gone /\ res[j].order = o
                                THEN 0 ELSE byOrder[o][j]]]
        BY <1>6 DEF CleanUp
    <2>. HIDE DEF gone
    <2>2. CASE k \in gone
        <3>1. res'[k] = Absent /\ claimant'[k] = NoOrder
            BY <1>0, <2>1, <2>2, RemoveWrites
        <3>. QED
            BY <3>1 DEF Present
    <2>3. CASE k \notin gone
        <3>1. res'[k] = res[k] /\ claimant'[k] = claimant[k]
            BY <1>0, <2>1, <2>3, RemoveWrites
        <3>2. \A o \in OrderUUIDs : byOrder'[o][k] = byOrder[o][k]
            BY <2>1, <2>3
        <3>. QED
            BY <1>a, <1>b, <3>1, <3>2 DEF Present
    <2>. QED
        BY <2>2, <2>3
<1>7. CASE UNCHANGED vars
    BY <1>b, <1>7 DEF Present, vars, indexVars
<1>. QED
    BY <1>1, <1>2, <1>3, <1>4, <1>5, <1>6, <1>7 DEF Next

(***************************************************************************)
(* The caps                                                                *)
(***************************************************************************)
\* Fewer holds and a session index that names no more keep the caps.
LEMMA CapsShrink ==
    ASSUME TypeOK, CapsRespected, bySession' \in [Keys -> Nat],
           \A k \in Keys : /\ Present(k)' => Present(k)
                           /\ bySession'[k] <= bySession[k]
    PROVE  CapsRespected'
<1>1. Cardinality({k \in Keys : Present(k)'}) <= MaxTotalReservations
    <2>. DEFINE old == {k \in Keys : Present(k)}
                new == {k \in Keys : Present(k)'}
    <2>1. IsFiniteSet(old) /\ new \subseteq old
        BY KeysFinite, FS_Subset
    <2>2. Cardinality(old) <= MaxTotalReservations
        BY DEF CapsRespected
    <2>. HIDE DEF old, new
    <2>3. /\ Cardinality(new) <= Cardinality(old)
          /\ Cardinality(new) \in Nat /\ Cardinality(old) \in Nat
        BY <2>1, FS_Subset, FS_CardinalityType
    <2>. QED
        BY <2>2, <2>3, ConstantTypes DEF new
<1>2. ASSUME NEW s \in Sessions
      PROVE  SumFunctionOnSet(bySession', KeysOf(s)) <= MaxItemsPerSession
    <2>1. PICK K : K = KeysOf(s)
        OBVIOUS
    <2>2. /\ IsFiniteSet(K)
          /\ \A k \in K : bySession'[k] \in Int /\ bySession[k] \in Int
                            /\ bySession'[k] <= bySession[k]
        BY <2>1, KeysFinite DEF TypeOK
    <2>3. SumFunctionOnSet(bySession', K) <= SumFunctionOnSet(bySession, K)
        BY <2>2, SumMonotone
    <2>4. SumFunctionOnSet(bySession, K) \in Int /\ SumFunctionOnSet(bySession', K) \in Int
        BY <2>2, SumInt
    <2>5. SumFunctionOnSet(bySession, K) <= MaxItemsPerSession
        BY <2>1 DEF CapsRespected, SessionItems
    <2>6. SumFunctionOnSet(bySession', K) <= MaxItemsPerSession
        BY <2>3, <2>4, <2>5, ConstantTypes
    <2>. QED
        BY <2>1, <2>6
<1>. QED
    BY <1>1, <1>2 DEF CapsRespected, SessionItems

\* A new hold finds room under both caps.
LEMMA CapsNewHold ==
    ASSUME TypeOK, CapsRespected, NEW k \in Keys, NEW qty \in 1 .. MaxQtyPerItem,
           NewHold(k, qty)
    PROVE  CapsRespected'
<1>1. res'[k] \in Reservations /\ \A j \in Keys \ {k} : res'[j] = res[j]
    BY HoldWritten
<1>2. /\ ~Present(k) /\ HasRoom(k[2])
      /\ bySession' = [bySession EXCEPT ![k] = @ + 1]
    BY DEF NewHold
<1>3. Cardinality({j \in Keys : Present(j)'}) <= MaxTotalReservations
    <2>. DEFINE old == {j \in Keys : Present(j)}
                new == {j \in Keys : Present(j)'}
    <2>1. IsFiniteSet(old)
        BY KeysFinite, FS_Subset
    <2>2. new = old \cup {k} /\ k \notin old
        BY <1>1, <1>2, ReservationIsPresent DEF Present
    <2>3. Cardinality(old) < MaxTotalReservations
        BY <1>2 DEF HasRoom
    <2>. HIDE DEF old, new
    <2>4. Cardinality(new) = Cardinality(old) + 1 /\ Cardinality(old) \in Nat
        BY <2>1, <2>2, FS_AddElement, FS_CardinalityType
    <2>. QED
        BY <2>3, <2>4, ConstantTypes DEF new
<1>4. ASSUME NEW s \in Sessions
      PROVE  SumFunctionOnSet(bySession', KeysOf(s)) <= MaxItemsPerSession
    <2>1. PICK K : K = KeysOf(s)
        OBVIOUS
    <2>2. /\ IsFiniteSet(K) /\ K \subseteq Keys
          /\ \A j \in K : bySession[j] \in Int /\ bySession'[j] \in Int
          /\ \A j \in K \ {k} : bySession'[j] = bySession[j]
        BY <1>2, <2>1, KeysFinite DEF TypeOK
    <2>3. SumFunctionOnSet(bySession, K) \in Int
        BY <2>2, SumInt
    <2>4. CASE s = k[2]
        <3>1. k \in K
            BY <2>1, <2>4 DEF KeysOf
        <3>2. SumFunctionOnSet(bySession', K)
                = SumFunctionOnSet(bySession, K) + bySession'[k] - bySession[k]
            BY <2>2, <3>1, SumChange
        <3>3. bySession'[k] = bySession[k] + 1 /\ bySession[k] \in Int
            BY <1>2 DEF TypeOK
        <3>4. SumFunctionOnSet(bySession, K) < MaxItemsPerSession
            BY <1>2, <2>1, <2>4 DEF HasRoom, SessionItems
        <3>5. SumFunctionOnSet(bySession', K) <= MaxItemsPerSession
            BY <2>3, <3>2, <3>3, <3>4, ConstantTypes
        <3>. QED
            BY <2>1, <3>5
    <2>5. CASE s # k[2]
        <3>1. k \notin K
            BY <2>1, <2>5 DEF KeysOf
        <3>2. SumFunctionOnSet(bySession, K) = SumFunctionOnSet(bySession', K)
            BY <2>2, <3>1, SumEqual
        <3>3. SumFunctionOnSet(bySession, K) <= MaxItemsPerSession
            BY <2>1 DEF CapsRespected, SessionItems
        <3>. QED
            BY <2>1, <3>2, <3>3
    <2>. QED
        BY <2>4, <2>5
<1>. QED
    BY <1>3, <1>4 DEF CapsRespected, SessionItems

\* No step exceeds a cap.
LEMMA CapsStep ==
    ASSUME IndInv, [Next]_vars
    PROVE  CapsRespected'
<1>0. TypeOK /\ CapsRespected /\ TypeOK'
    BY TypeStep DEF IndInv
<1>a. /\ bySession \in [Keys -> Nat] /\ bySession' \in [Keys -> Nat]
      /\ \A k \in Keys : bySession[k] \in Nat
    BY <1>0 DEF TypeOK
<1>. DEFINE Shrinks == \A k \in Keys : /\ Present(k)' => Present(k)
                                       /\ bySession'[k] <= bySession[k]
<1>b. Shrinks => CapsRespected'
    BY <1>0, <1>a, CapsShrink
<1>1. ASSUME NEW s \in Sessions, NEW i \in Items, NEW ask \in 1 .. MaxAsk,
             ReserveIfAvailable(s, i, ask)
      PROVE  CapsRespected'
    <2>1. PICK qty \in 1 .. MaxQtyPerItem :
                 \/ NewHold(<<i, s>>, qty)
                 \/ RenewHold(<<i, s>>, qty)
                 \/ UNCHANGED <<res, indexVars, claimant>>
        BY <1>0, <1>1, ReserveStep
    <2>2. PICK k \in Keys : k = <<i, s>>
        BY DEF Keys
    <2>3. CASE NewHold(k, qty)
        BY <1>0, <2>3, CapsNewHold
    <2>4. CASE RenewHold(k, qty)
        <3>1. \A j \in Keys \ {k} : res'[j] = res[j]
            BY <1>0, <2>4, HoldWritten
        <3>2. Present(k) /\ UNCHANGED bySession
            BY <2>4 DEF RenewHold, indexVars
        <3>3. Shrinks
            BY <1>a, <3>1, <3>2 DEF Present
        <3>. QED
            BY <1>b, <3>3
    <2>5. CASE UNCHANGED <<res, indexVars, claimant>>
        <3>1. Shrinks
            BY <1>a, <2>5 DEF Present, indexVars
        <3>. QED
            BY <1>b, <3>1
    <2>. QED
        BY <2>1, <2>2, <2>3, <2>4, <2>5
<1>2. ASSUME NEW s \in Sessions, NEW o \in OrderUUIDs, Commit(s, o)
      PROVE  CapsRespected'
    <2>1. UNCHANGED bySession
        BY <1>2 DEF Commit
    <2>2. \A k \in Keys : Present(k) \/ res'[k] = res[k]
        BY <1>0, <1>2, CommitWrites
    <2>3. Shrinks
        BY <1>a, <2>1, <2>2 DEF Present
    <2>. QED
        BY <1>b, <2>3
<1>3. ASSUME NEW s \in Sessions, ReleaseSession(s)
      PROVE  CapsRespected'
    <2>1. \A k \in Keys : res'[k] \in {Absent, res[k]}
        BY <1>3 DEF ReleaseSession
    <2>2. \A k \in Keys : bySession'[k] \in {0, bySession[k]}
        BY <1>3 DEF ReleaseSession, Unless
    <2>3. Shrinks
        BY <1>a, <2>1, <2>2 DEF Present
    <2>. QED
        BY <1>b, <2>3
<1>4. ASSUME NEW gone \in SUBSET Keys, RemoveReservations(gone)
      PROVE  CapsRespected'
    <2>1. \A k \in Keys : res'[k] \in {Absent, res[k]}
        BY <1>4 DEF RemoveReservations
    <2>2. \A k \in Keys : bySession'[k] \in {0, bySession[k]}
        BY <1>4 DEF RemoveReservations, Unless
    <2>3. Shrinks
        BY <1>a, <2>1, <2>2 DEF Present
    <2>. QED
        BY <1>b, <2>3
<1>5. ASSUME NEW o \in OrderUUIDs, Release(o)
      PROVE  CapsRespected'
    <2>1. \E gone \in SUBSET Keys : RemoveReservations(gone)
        BY <1>5 DEF Release
    <2>. QED
        BY <1>4, <2>1
<1>6. CASE Tick
    <2>1. UNCHANGED bySession
        BY <1>6 DEF Tick, indexVars
    <2>2. \A k \in Keys : Present(k) \/ res'[k] = res[k]
        BY <1>0, <1>6, TickWrites
    <2>3. Shrinks
        BY <1>a, <2>1, <2>2 DEF Present
    <2>. QED
        BY <1>b, <2>3
<1>7. CASE CleanUp
    <2>1. \E gone \in SUBSET Keys : RemoveReservations(gone)
        BY <1>7 DEF CleanUp
    <2>. QED
        BY <1>4, <2>1
<1>8. CASE UNCHANGED vars
    <2>1. Shrinks
        BY <1>a, <1>8 DEF Present, vars, indexVars
    <2>. QED
        BY <1>b, <2>1
<1>. QED
    BY <1>1, <1>2, <1>3, <1>5, <1>6, <1>7, <1>8 DEF Next

----------------------------------------------------------------------------
\* Every step keeps the inductive invariant.
LEMMA NextInv == IndInv /\ [Next]_vars => IndInv'
BY TypeStep, IndexesStep, ReleasableStep, CapsStep DEF IndInv

\* The invariant holds throughout.
LEMMA InvHolds == Spec => []IndInv
BY InitInv, NextInv, PTL DEF Spec

\* The state keeps its shape: no hold above the quantity cap, no session
\* counted past its rate within one window (reserveLocked, allowSessionRate).
THEOREM TypeCorrect == Spec => []TypeOK
<1>1. IndInv => TypeOK
    BY DEF IndInv
<1>. QED
    BY <1>1, InvHolds, PTL

\* The product-size index names exactly the holds that exist, each once, and
\* the session index none that is gone (reserveLocked, removeReservation).
THEOREM IndexesAlwaysExact == Spec => []IndexesExact
<1>1. IndInv => IndexesExact
    BY DEF IndInv
<1>. QED
    BY <1>1, InvHolds, PTL

\* The order a hold was committed to can release it until the hold goes or
\* another order takes it over, whatever renewals do to its record (Commit,
\* Release and reserveLocked).
THEOREM HoldsReleasable == Spec => []CommittedHoldReleasable
<1>1. IndInv => CommittedHoldReleasable
    BY DEF IndInv
<1>. QED
    BY <1>1, InvHolds, PTL

\* Neither the cap on all holds nor the cap on a session's is ever exceeded
\* (reserveLocked's two checks).
THEOREM CapsHold == Spec => []CapsRespected
<1>1. IndInv => CapsRespected
    BY DEF IndInv
<1>. QED
    BY <1>1, InvHolds, PTL

(***************************************************************************)
(* Holding no more than the stock                                          *)
(***************************************************************************)
\* What each session actively holds of an item.
HeldBy(i) ==
    [s \in Sessions |-> IF Active(<<i, s>>) THEN res[<<i, s>>].qty ELSE 0]

HeldNat == \A i \in Items, s \in Sessions : HeldBy(i)[s] \in Nat

\* Active holds are counted in natural numbers.
LEMMA HeldByNat == TypeOK => HeldNat
<1>. SUFFICES ASSUME TypeOK, NEW i \in Items, NEW s \in Sessions
              PROVE  HeldBy(i)[s] \in Nat
    BY DEF HeldNat
<1>1. <<i, s>> \in Keys
    BY DEF Keys
<1>2. CASE Active(<<i, s>>)
    <2>1. res[<<i, s>>] \in Reservations
        BY <1>1, <1>2, PresentIsReservation DEF Active
    <2>2. res[<<i, s>>].qty \in Nat
        BY <2>1, ConstantTypes DEF Reservations
    <2>. QED
        BY <1>2, <2>2 DEF HeldBy
<1>. QED
    BY <1>2 DEF HeldBy

\* If no session holds more of an item than before, no more of it is held.
LEMMA HeldShrinks ==
    ASSUME TypeOK, TypeOK', NEW i \in Items,
           \A s \in Sessions : HeldBy(i)'[s] <= HeldBy(i)[s]
    PROVE  ~(Held(i)' > Held(i))
<1>1. PICK f : f = HeldBy(i)
    OBVIOUS
<1>2. PICK g : g = HeldBy(i)'
    OBVIOUS
<1>3. \A s \in Sessions : f[s] \in Int
    BY <1>1, HeldByNat DEF HeldNat
<1>4. \A s \in Sessions : g[s] \in Int
    <2>1. HeldNat'
        BY HeldByNat, PTL
    <2>. QED
        BY <1>2, <2>1 DEF HeldNat
<1>5. SumFunctionOnSet(g, Sessions) <= SumFunctionOnSet(f, Sessions)
    BY <1>1, <1>2, <1>3, <1>4, ConstantTypes, SumMonotone
<1>6. SumFunctionOnSet(g, Sessions) \in Int /\ SumFunctionOnSet(f, Sessions) \in Int
    BY <1>3, <1>4, ConstantTypes, SumInt
<1>7. Held(i) = SumFunctionOnSet(f, Sessions)
    BY <1>1 DEF Held, HeldBy
<1>8. Held(i)' = SumFunctionOnSet(g, Sessions)
    BY <1>2 DEF Held, HeldBy
<1>. QED
    BY <1>5, <1>6, <1>7, <1>8

\* A hold that stays active and keeps its quantity is held as before; one that
\* is no longer active is not held.
LEMMA HeldPointwise ==
    ASSUME TypeOK, NEW i \in Items, NEW s \in Sessions,
           \/ ~Active(<<i, s>>)'
           \/ Active(<<i, s>>) /\ res'[<<i, s>>].qty = res[<<i, s>>].qty
    PROVE  HeldBy(i)'[s] <= HeldBy(i)[s]
<1>1. HeldBy(i)[s] \in Nat
    BY HeldByNat DEF HeldNat
<1>2. CASE ~Active(<<i, s>>)'
    <2>1. HeldBy(i)'[s] = 0
        BY <1>2 DEF HeldBy
    <2>. QED
        BY <1>1, <2>1
<1>3. CASE Active(<<i, s>>)' /\ Active(<<i, s>>)
             /\ res'[<<i, s>>].qty = res[<<i, s>>].qty
    <2>1. HeldBy(i)'[s] = HeldBy(i)[s]
        BY <1>3 DEF HeldBy
    <2>. QED
        BY <1>1, <2>1
<1>. QED
    BY <1>2, <1>3

\* A hold that does not change is held as before.
LEMMA HeldUnchanged ==
    ASSUME TypeOK, NEW i \in Items, NEW s \in Sessions,
           res'[<<i, s>>] \in {Absent, res[<<i, s>>]}
    PROVE  HeldBy(i)'[s] <= HeldBy(i)[s]
<1>1. \/ ~Active(<<i, s>>)'
      \/ Active(<<i, s>>) /\ res'[<<i, s>>].qty = res[<<i, s>>].qty
    BY DEF Active, Present
<1>. QED
    BY <1>1, HeldPointwise

\* What ReserveIfAvailable takes fits into what the other sessions leave.
LEMMA ReserveWithinStock ==
    ASSUME TypeOK, TypeOK', IndexesExact, NEW i \in Items, NEW s \in Sessions,
           NEW qty \in 1 .. MaxQtyPerItem,
           qty <= Stock[i] - ReservedQuantity(i, s),
           NewHold(<<i, s>>, qty) \/ RenewHold(<<i, s>>, qty)
    PROVE  Held(i)' \in Int /\ Held(i)' <= Stock[i]
<1>1. PICK k \in Keys : k = <<i, s>>
    BY DEF Keys
<1>2. res'[k].qty = qty /\ \A j \in Keys \ {k} : res'[j] = res[j]
    BY <1>1, HoldWritten
<1>3. PICK g : g = HeldBy(i)'
    OBVIOUS
<1>4. PICK f : f = [t \in Sessions |-> IF t # s /\ Active(<<i, t>>)
                            THEN byProductSize[<<i, t>>] * res[<<i, t>>].qty
                            ELSE 0]
    OBVIOUS
<1>5. \A t \in Sessions : g[t] \in Nat
    <2>1. HeldNat'
        BY HeldByNat, PTL
    <2>. QED
        BY <1>3, <2>1 DEF HeldNat
<1>6. ASSUME NEW t \in Sessions \ {s} PROVE g[t] = f[t]
    <2>1. <<i, t>> \in Keys \ {k}
        BY <1>1 DEF Keys
    <2>2. res'[<<i, t>>] = res[<<i, t>>]
        BY <1>2, <2>1
    <2>3. Active(<<i, t>>)' <=> Active(<<i, t>>)
        BY <2>2 DEF Active, Present
    <2>4. CASE Active(<<i, t>>)
        <3>1. byProductSize[<<i, t>>] = 1
            BY <2>1, <2>4 DEF IndexesExact, Active
        <3>2. g[t] = res[<<i, t>>].qty
            BY <1>3, <2>2, <2>3, <2>4 DEF HeldBy
        <3>3. g[t] \in Nat
            BY <1>5
        <3>4. f[t] = 1 * res[<<i, t>>].qty
            BY <1>4, <2>4, <3>1
        <3>. QED
            BY <3>2, <3>3, <3>4
    <2>5. CASE ~Active(<<i, t>>)
        BY <1>3, <1>4, <2>3, <2>5 DEF HeldBy
    <2>. QED
        BY <2>4, <2>5
<1>7. f[s] = 0
    BY <1>4
<1>8. \A t \in Sessions : f[t] \in Int /\ g[t] \in Int
    BY <1>5, <1>6, <1>7
<1>9. SumFunctionOnSet(g, Sessions) = SumFunctionOnSet(f, Sessions) + g[s] - f[s]
    BY <1>6, <1>8, ConstantTypes, SumChange
<1>10. g[s] <= qty /\ g[s] \in Nat
    <2>1. g[s] = IF Active(<<i, s>>)' THEN res'[k].qty ELSE 0
        BY <1>1, <1>3 DEF HeldBy
    <2>. QED
        BY <1>2, <1>5, <2>1
<1>11. SumFunctionOnSet(f, Sessions) = ReservedQuantity(i, s)
    BY <1>4 DEF ReservedQuantity
<1>12. ReservedQuantity(i, s) \in Nat /\ Stock[i] \in Nat
    BY ReservedQuantityNat, ConstantTypes
<1>13. Held(i)' = SumFunctionOnSet(g, Sessions)
    BY <1>3 DEF Held, HeldBy
<1>. QED
    BY <1>7, <1>9, <1>10, <1>11, <1>12, <1>13

\* A step that adds to what is held of an item, beyond its stock, submits an
\* order.
LEMMA OverholdStep ==
    ASSUME IndInv, [Next]_vars, NEW i \in Items, Held(i)' > Held(i),
           Held(i)' > Stock[i]
    PROVE  submitted' # submitted
<1>. SUFFICES ASSUME submitted' = submitted PROVE FALSE
    OBVIOUS
<1>0. TypeOK /\ TypeOK' /\ IndexesExact
    BY TypeStep DEF IndInv
<1>a. Stock[i] \in Nat
    BY ConstantTypes
<1>b. \A s \in Sessions : <<i, s>> \in Keys
    BY DEF Keys
<1>c. PICK t \in Sessions : ~(HeldBy(i)'[t] <= HeldBy(i)[t])
    BY <1>0, HeldShrinks
<1>d. ~(res'[<<i, t>>] \in {Absent, res[<<i, t>>]})
    BY <1>0, <1>c, HeldUnchanged
<1>1. ASSUME NEW s \in Sessions, NEW j \in Items, NEW ask \in 1 .. MaxAsk,
             ReserveIfAvailable(s, j, ask)
      PROVE  FALSE
    <2>1. PICK qty \in 1 .. MaxQtyPerItem :
                 /\ qty <= Stock[j] - ReservedQuantity(j, s)
                 /\ \/ NewHold(<<j, s>>, qty)
                    \/ RenewHold(<<j, s>>, qty)
                    \/ UNCHANGED <<res, indexVars, claimant>>
        BY <1>0, <1>1, ReserveStep
    <2>2. PICK k \in Keys : k = <<j, s>>
        BY DEF Keys
    <2>3. CASE UNCHANGED <<res, indexVars, claimant>>
        BY <1>d, <2>3
    <2>4. CASE NewHold(k, qty) \/ RenewHold(k, qty)
        <3>1. \A l \in Keys \ {k} : res'[l] = res[l]
            BY <1>0, <2>4, HoldWritten
        <3>2. <<i, t>> = k
            BY <1>b, <1>d, <3>1
        <3>3. i = j
            BY <2>2, <3>2
        <3>4. Held(i)' \in Int /\ Held(i)' <= Stock[i]
            BY <1>0, <2>1, <2>2, <2>4, <3>3, ReserveWithinStock
        <3>. QED
            BY <1>a, <3>4
    <2>. QED
        BY <2>1, <2>2, <2>3, <2>4
<1>2. ASSUME NEW s \in Sessions, NEW o \in OrderUUIDs, Commit(s, o)
      PROVE  FALSE
    BY <1>2 DEF Commit
<1>3. ASSUME NEW s \in Sessions, ReleaseSession(s)
      PROVE  FALSE
    <2>1. \A k \in Keys : res'[k] \in {Absent, res[k]}
        BY <1>3 DEF ReleaseSession
    <2>. QED
        BY <1>b, <1>d, <2>1
<1>4. ASSUME NEW gone \in SUBSET Keys, RemoveReservations(gone)
      PROVE  FALSE
    <2>1. \A k \in Keys : res'[k] \in {Absent, res[k]}
        BY <1>4 DEF RemoveReservations
    <2>. QED
        BY <1>b, <1>d, <2>1
<1>5. ASSUME NEW o \in OrderUUIDs, Release(o)
      PROVE  FALSE
    <2>1. \E gone \in SUBSET Keys : RemoveReservations(gone)
        BY <1>5 DEF Release
    <2>. QED
        BY <1>4, <2>1
<1>6. CASE Tick
    <2>1. PICK k \in Keys : k = <<i, t>>
        BY <1>b
    <2>2. /\ Present(k)
          /\ res'[k].qty = res[k].qty
          /\ res'[k].expiresAt = Closer(res[k].expiresAt)
        BY <1>0, <1>6, <1>d, <2>1, TickWrites
    <2>3. res[k].expiresAt \in Int
        BY <1>0, <2>2, PresentIsReservation, ConstantTypes
           DEF Reservations, Countdown, PastDeadline
    <2>4. Active(k)' => Active(k)
        BY <2>2, <2>3 DEF Active, Closer, PastDeadline
    <2>. QED
        BY <1>0, <1>c, <2>1, <2>2, <2>4, HeldPointwise
<1>7. CASE CleanUp
    <2>1. \E gone \in SUBSET Keys : RemoveReservations(gone)
        BY <1>7 DEF CleanUp
    <2>. QED
        BY <1>4, <2>1
<1>8. CASE UNCHANGED vars
    BY <1>d, <1>8 DEF vars
<1>. QED
    BY <1>1, <1>2, <1>3, <1>5, <1>6, <1>7, <1>8 DEF Next

\* No call of ReserveIfAvailable, and no other step but a commit, pushes the
\* active holds of an item above its stock (the lock that makes the check and
\* the reservation one step).
THEOREM ReservingNeverOverholds == Spec => OnlyCommitOverholds
<1>1. IndInv /\ [Next]_vars =>
        [\A i \in Items :
            Held(i)' > Held(i) /\ Held(i)' > Stock[i] => submitted' # submitted]_vars
    BY OverholdStep
<1>. QED
    BY <1>1, InvHolds, PTL DEF Spec, OnlyCommitOverholds
=============================================================================
