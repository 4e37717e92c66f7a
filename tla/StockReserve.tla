---------------------------- MODULE StockReserve ----------------------------
(***************************************************************************)
(* The in-memory stock holds of internal/stockreserve: a session holds       *)
(* units of a (product, size) while it shops, commits its holds to the order *)
(* it submits, and the order's end or the clock frees them.  Every operation *)
(* runs under rm.mu, so it is one action.                                   *)
(*                                                                         *)
(* A time is how far it lies ahead: Tick brings every deadline closer, and  *)
(* PastDeadline stands for all that is over.  An index (a list of keys that *)
(* is only searched, filtered and summed over) is the number of times it    *)
(* names each key.                                                         *)
(***************************************************************************)
EXTENDS Integers, FiniteSetsExt

CONSTANTS
    Sessions,               \* session ids
    Items,                  \* (product, size) pairs
    OrderUUIDs,             \* orders the sessions submit
    NoOrder,                \* OrderUUID = ""
    Stock,                  \* product_size.quantity as the callers read it
    CartTTL, OrderTTL, RateWindow,
    MaxItemsPerSession, MaxQtyPerItem, MaxTotalReservations, MaxTTLRefreshes,
    ReserveRatePerSession,
    MaxAsk                  \* bound on the quantity a cart line asks for

ASSUME ReserveAssumption ==
    /\ IsFiniteSet(Sessions) /\ IsFiniteSet(Items)
    /\ Stock \in [Items -> Nat]
    /\ {CartTTL, OrderTTL, RateWindow, ReserveRatePerSession} \subseteq Nat \ {0}
    /\ {MaxItemsPerSession, MaxQtyPerItem, MaxTotalReservations,
        MaxTTLRefreshes, MaxAsk} \subseteq Nat
    /\ NoOrder \notin OrderUUIDs

VARIABLES
    res,            \* reservations: per key a record, or Absent
    bySession,      \* times bySession[the key's session] names a key
    byProductSize,  \* times byProductSize[the key's item] names a key
    byOrder,        \* times byOrder[order] names a key
    rate,           \* sessionRates
    submitted,      \* orders created so far
    claimant        \* history: the order a hold was last committed to

indexVars == <<bySession, byProductSize, byOrder>>
vars == <<res, indexVars, rate, submitted, claimant>>

Keys == Items \X Sessions
Absent == [qty |-> 0]
PastDeadline == -1
Countdown(max) == PastDeadline .. max
LongestTTL == IF CartTTL >= OrderTTL THEN CartTTL ELSE OrderTTL
Reservations ==
    [qty : 1 .. MaxQtyPerItem, expiresAt : Countdown(LongestTTL),
     order : OrderUUIDs \cup {NoOrder}, refreshCount : 0 .. MaxTTLRefreshes]

Present(k) == res[k] # Absent
KeysOf(s) == {k \in Keys : k[2] = s}

\* now.Before(ExpiresAt): at the deadline itself a hold is neither active nor
\* up for removal.
Active(k) == Present(k) /\ res[k].expiresAt > 0

(***************************************************************************)
(* Quantities                                                              *)
(***************************************************************************)
\* Mutant: holds of submitted orders are not counted.
CartQuantity(i, exclude) ==
    SumFunctionOnSet(
        [s \in Sessions |-> IF s # exclude /\ Active(<<i, s>>)
                               /\ res[<<i, s>>].order = NoOrder
                            THEN byProductSize[<<i, s>>] * res[<<i, s>>].qty
                            ELSE 0], Sessions)

\* reservedQuantityLocked, over the index.
ReservedQuantity(i, exclude) ==
    SumFunctionOnSet(
        [s \in Sessions |-> IF s # exclude /\ Active(<<i, s>>)
                            THEN byProductSize[<<i, s>>] * res[<<i, s>>].qty
                            ELSE 0], Sessions)

SessionItems(s) == SumFunctionOnSet(bySession, KeysOf(s))

(***************************************************************************)
(* Removing a hold                                                         *)
(***************************************************************************)
Unless(gone, f) == [k \in Keys |-> IF k \in gone THEN 0 ELSE f[k]]

\* Mutant: the product-size index keeps the key.
RemoveFromMapOnly(gone) ==
    /\ res' = [k \in Keys |-> IF k \in gone THEN Absent ELSE res[k]]
    /\ bySession' = Unless(gone, bySession)
    /\ claimant' = [k \in Keys |-> IF k \in gone THEN NoOrder ELSE claimant[k]]
    /\ UNCHANGED byProductSize

\* removeReservation, for a set of keys.
RemoveReservations(gone) ==
    /\ res' = [k \in Keys |-> IF k \in gone THEN Absent ELSE res[k]]
    /\ bySession' = Unless(gone, bySession)
    /\ byProductSize' = Unless(gone, byProductSize)
    /\ claimant' = [k \in Keys |-> IF k \in gone THEN NoOrder ELSE claimant[k]]

----------------------------------------------------------------------------
Init ==
    /\ res = [k \in Keys |-> Absent]
    /\ bySession = [k \in Keys |-> 0]
    /\ byProductSize = [k \in Keys |-> 0]
    /\ byOrder = [o \in OrderUUIDs |-> [k \in Keys |-> 0]]
    /\ rate = [s \in Sessions |-> [count |-> 0, expiresAt |-> PastDeadline]]
    /\ submitted = {}
    /\ claimant = [k \in Keys |-> NoOrder]

(***************************************************************************)
(* Reserving                                                               *)
(***************************************************************************)
\* Mutant: one call too many.
RateAllowsOneMore(s) ==
    rate[s].expiresAt = PastDeadline \/ rate[s].count <= ReserveRatePerSession

\* allowSessionRate: the call counts even when a later check refuses it.
RateAllows(s) ==
    rate[s].expiresAt = PastDeadline \/ rate[s].count < ReserveRatePerSession
CountCall(s) ==
    rate' = [rate EXCEPT ![s] =
                IF @.expiresAt = PastDeadline
                THEN [count |-> 1, expiresAt |-> RateWindow]
                ELSE [count |-> @.count + 1, expiresAt |-> @.expiresAt]]

\* Mutant: one more than the cap.
HasRoomOffByOne(s) ==
    /\ SessionItems(s) <= MaxItemsPerSession
    /\ Cardinality({k \in Keys : Present(k)}) <= MaxTotalReservations

\* The caps on a new hold.
HasRoom(s) ==
    /\ SessionItems(s) < MaxItemsPerSession
    /\ Cardinality({k \in Keys : Present(k)}) < MaxTotalReservations

NewHold(k, qty) ==
    /\ ~Present(k)
    /\ HasRoom(k[2])
    /\ res' = [res EXCEPT ![k] = [qty |-> qty, expiresAt |-> CartTTL,
                                  order |-> NoOrder, refreshCount |-> 0]]
    /\ bySession' = [bySession EXCEPT ![k] = @ + 1]
    /\ byProductSize' = [byProductSize EXCEPT ![k] = @ + 1]
    /\ UNCHANGED <<byOrder, claimant>>

\* Mutant: renewing extends the hold.
ExtendHold(k, qty) ==
    /\ Present(k)
    /\ res' = [res EXCEPT ![k] =
          [qty |-> qty, expiresAt |-> CartTTL, order |-> NoOrder,
           refreshCount |-> 0]]
    /\ UNCHANGED <<indexVars, claimant>>

\* A hold that exists keeps its deadline.  Up to the refresh limit a new record
\* replaces it, without the order it may have been committed to; at the limit
\* only the quantity changes.
RenewHold(k, qty) ==
    /\ Present(k)
    /\ res' = [res EXCEPT ![k] =
          IF @.refreshCount >= MaxTTLRefreshes
          THEN [res[k] EXCEPT !.qty = qty]
          ELSE [qty |-> qty, expiresAt |-> @.expiresAt, order |-> NoOrder,
                refreshCount |-> @.refreshCount + 1]]
    /\ UNCHANGED <<indexVars, claimant>>

\* ReserveIfAvailable: the smaller of what is asked and what other sessions
\* leave, if that is positive.  A refused call still counts against the rate.
ReserveIfAvailable(s, i, ask) ==
    LET available == Stock[i] - ReservedQuantity(i, s)
        qty == IF ask > available THEN available ELSE ask
    IN  /\ available > 0
        /\ qty <= MaxQtyPerItem
        /\ RateAllows(s)
        /\ CountCall(s)
        /\ \/ NewHold(<<i, s>>, qty)
           \/ RenewHold(<<i, s>>, qty)
           \/ /\ ~Present(<<i, s>>) /\ ~HasRoom(s)
              /\ UNCHANGED <<res, indexVars, claimant>>
        /\ UNCHANGED submitted

(***************************************************************************)
(* Orders                                                                  *)
(***************************************************************************)
\* Mutant: a hold that another order has is not indexed again.
CommitKeepsFirstIndex(s, o) ==
    LET mine == {k \in KeysOf(s) : bySession[k] > 0 /\ Present(k)}
    IN  /\ o \notin submitted
        /\ submitted' = submitted \cup {o}
        /\ res' = [k \in Keys |->
              IF k \in mine
              THEN [res[k] EXCEPT !.order = o, !.expiresAt = OrderTTL,
                                  !.refreshCount = 0]
              ELSE res[k]]
        /\ byOrder' = [byOrder EXCEPT ![o] =
              [k \in Keys |-> IF k \in mine /\ claimant[k] = NoOrder
                              THEN @[k] + bySession[k] ELSE @[k]]]
        /\ claimant' = [k \in Keys |-> IF k \in mine THEN o ELSE claimant[k]]
        /\ UNCHANGED <<bySession, byProductSize, rate>>

\* Commit, which SubmitOrder calls once with the order it has just created:
\* every hold of the session, expired or committed before or not, is the
\* order's now.
Commit(s, o) ==
    LET mine == {k \in KeysOf(s) : bySession[k] > 0 /\ Present(k)}
    IN  /\ o \notin submitted
        /\ submitted' = submitted \cup {o}
        /\ res' = [k \in Keys |->
              IF k \in mine
              THEN [res[k] EXCEPT !.order = o, !.expiresAt = OrderTTL,
                                  !.refreshCount = 0]
              ELSE res[k]]
        /\ byOrder' = [byOrder EXCEPT ![o] =
              [k \in Keys |-> IF k \in mine THEN @[k] + bySession[k] ELSE @[k]]]
        /\ claimant' = [k \in Keys |-> IF k \in mine THEN o ELSE claimant[k]]
        /\ UNCHANGED <<bySession, byProductSize, rate>>

\* Release: the order is paid, cancelled or expired.  It may be called more
\* than once, and frees whatever the order's index names.
Release(o) ==
    /\ o \in submitted
    /\ RemoveReservations({k \in Keys : byOrder[o][k] > 0 /\ Present(k)})
    /\ byOrder' = [byOrder EXCEPT ![o] = [k \in Keys |-> 0]]
    /\ UNCHANGED <<rate, submitted>>

\* ReleaseSession: the cart is abandoned.  Holds of its orders stay, but the
\* session's index forgets them.
ReleaseSession(s) ==
    LET carts == {k \in KeysOf(s) : bySession[k] > 0 /\ Present(k)
                                    /\ res[k].order = NoOrder}
    IN  /\ res' = [k \in Keys |-> IF k \in carts THEN Absent ELSE res[k]]
        /\ byProductSize' = Unless(carts, byProductSize)
        /\ bySession' = Unless(KeysOf(s), bySession)
        /\ claimant' = [k \in Keys |-> IF k \in carts THEN NoOrder ELSE claimant[k]]
        /\ rate' = [rate EXCEPT ![s] = [count |-> 0, expiresAt |-> PastDeadline]]
        /\ UNCHANGED <<byOrder, submitted>>

(***************************************************************************)
(* Time                                                                    *)
(***************************************************************************)
Closer(t) == IF t = PastDeadline THEN t ELSE t - 1

Tick ==
    /\ res' = [k \in Keys |-> IF Present(k)
                              THEN [res[k] EXCEPT !.expiresAt = Closer(@)]
                              ELSE res[k]]
    /\ rate' = [s \in Sessions |->
          IF rate[s].expiresAt = 0 THEN [count |-> 0, expiresAt |-> PastDeadline]
          ELSE [rate[s] EXCEPT !.expiresAt = Closer(@)]]
    /\ UNCHANGED <<indexVars, submitted, claimant>>

\* runCleanupOnce: holds past their deadline go, from their order's index too.
\* A rate entry past its window counts as none already (see Tick).
CleanUp ==
    LET expired == {k \in Keys : Present(k) /\ res[k].expiresAt = PastDeadline}
    IN  /\ expired # {}
        /\ RemoveReservations(expired)
        /\ byOrder' = [o \in OrderUUIDs |->
              [k \in Keys |-> IF k \in expired /\ res[k].order = o
                              THEN 0 ELSE byOrder[o][k]]]
        /\ UNCHANGED <<rate, submitted>>

----------------------------------------------------------------------------
Next ==
    \/ \E s \in Sessions :
        \/ \E i \in Items, ask \in 1 .. MaxAsk : ReserveIfAvailable(s, i, ask)
        \/ \E o \in OrderUUIDs : Commit(s, o)
        \/ ReleaseSession(s)
    \/ \E o \in OrderUUIDs : Release(o)
    \/ Tick
    \/ CleanUp

\* The clock runs and the cleanup goroutine's ticker fires; nothing is assumed
\* of the sessions or the orders.
Spec == Init /\ [][Next]_vars /\ WF_vars(Tick) /\ WF_vars(CleanUp)

(***************************************************************************)
(* Correctness                                                             *)
(***************************************************************************)
\* The shape of the state; no hold exceeds the quantity cap and no session is
\* counted past its rate within one window (reserveLocked, allowSessionRate).
TypeOK ==
    /\ res \in [Keys -> Reservations \cup {Absent}]
    /\ bySession \in [Keys -> Nat]
    /\ byProductSize \in [Keys -> Nat]
    /\ byOrder \in [OrderUUIDs -> [Keys -> Nat]]
    /\ rate \in [Sessions -> [count : 0 .. ReserveRatePerSession,
                              expiresAt : Countdown(RateWindow)]]
    /\ submitted \subseteq OrderUUIDs
    /\ claimant \in [Keys -> OrderUUIDs \cup {NoOrder}]

\* The product-size index names exactly the holds that exist, each once, so a
\* quantity computed from it neither misses nor double counts a hold after any
\* mix of renewals, commits, late releases and cleanups; the session index
\* names no hold that is gone (reserveLocked and removeReservation).
IndexesExact ==
    \A k \in Keys :
        /\ byProductSize[k] = IF Present(k) THEN 1 ELSE 0
        /\ bySession[k] <= byProductSize[k]

\* A hold that was committed to an order can be released by it until it goes
\* or another order takes it over, even if a renewal has dropped the order's
\* name from the record (Commit's index against the renewal in reserveLocked).
CommittedHoldReleasable ==
    \A k \in Keys :
        /\ Present(k) /\ res[k].order # NoOrder => res[k].order = claimant[k]
        /\ claimant[k] # NoOrder => byOrder[claimant[k]][k] > 0

\* However sessions interleave, the caps on all holds and on the holds a
\* session is charged with are never exceeded (reserveLocked's two checks).
CapsRespected ==
    /\ Cardinality({k \in Keys : Present(k)}) <= MaxTotalReservations
    /\ \A s \in Sessions : SessionItems(s) <= MaxItemsPerSession

Held(i) ==
    SumFunctionOnSet(
        [s \in Sessions |-> IF Active(<<i, s>>) THEN res[<<i, s>>].qty ELSE 0],
        Sessions)

\* No call of ReserveIfAvailable pushes the active holds of an item above its
\* stock; the one step that can is a commit, which revives holds that had
\* expired and whose units others may have taken (the check-then-act window
\* ReserveIfAvailable closes).
OnlyCommitOverholds ==
    [][\A i \in Items :
          Held(i)' > Held(i) /\ Held(i)' > Stock[i] => submitted' # submitted]_vars

\* A cart cannot be kept alive by renewing it: every hold that belongs to no
\* order is eventually gone or committed, because renewals keep the first
\* deadline and the cleanup goes on.
CartHoldsEnd ==
    \A k \in Keys :
        (Present(k) /\ res[k].order = NoOrder)
            ~> (~Present(k) \/ res[k].order # NoOrder)
=============================================================================
