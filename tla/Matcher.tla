------------------------------ MODULE Matcher -------------------------------
(* The matcher of pkg/netting/matcher.  The payments are a list, in the     *)
(* order the caller has them; a work item is an index into it, and the      *)
(* amounts the algorithm updates are functions on the items:                *)
(*    w.remaining, w.matched    the fields of the work items                *)
(*    w.allocations             the allocations, in the order made          *)
(*    w.failed                  ErrMatchingInvariant was returned           *)
(* A payment is [ID, SourceShard, DestinationShard, Amount]: version, chain,*)
(* participants and asset are the same for all that the window admits.      *)
EXTENDS Integers, Sequences, FiniteSets, FiniteSetsExt, Functions

FullMode == "full"
BestFitMode == "best_fit"
ExactOnlyMode == "exact_only"
Modes == {FullMode, BestFitMode, ExactOnlyMode}

(* prepare: what it accepts, and the work items it starts from.             *)
validatePaymentShape(payment) ==
    /\ payment.Amount > 0
    /\ payment.SourceShard >= 0
    /\ payment.DestinationShard >= 0
    /\ payment.SourceShard # payment.DestinationShard

Accepted(payments) ==
    /\ \A i \in DOMAIN payments : validatePaymentShape(payments[i])
    /\ \A i, j \in DOMAIN payments : payments[i].ID = payments[j].ID => i = j

NewWork(payments) ==
    [remaining |-> [i \in DOMAIN payments |-> payments[i].Amount],
     matched |-> [i \in DOMAIN payments |-> 0],
     allocations |-> <<>>,
     failed |-> FALSE]

LowerToHigher(payments, key) ==
    {i \in DOMAIN payments : /\ payments[i].SourceShard = key[1]
                             /\ payments[i].DestinationShard = key[2]}
HigherToLower(payments, key) ==
    {i \in DOMAIN payments : /\ payments[i].SourceShard = key[2]
                             /\ payments[i].DestinationShard = key[1]}

(* The keys of the groups that have a payment, lower shard first.           *)
GroupKeys(payments) ==
    LET shards == UNION {{payments[i].SourceShard, payments[i].DestinationShard} :
                            i \in DOMAIN payments}
    IN  {key \in shards \X shards :
            /\ key[1] < key[2]
            /\ LowerToHigher(payments, key) \cup HigherToLower(payments, key) # {}}

(* The order of sortedGroupKeys.                                            *)
FirstKey(keys) ==
    CHOOSE key \in keys : \A k \in keys :
        key[1] < k[1] \/ (key[1] = k[1] /\ key[2] <= k[2])

(* Bug: items of one amount are taken in the order of the list.             *)
Bug_FirstInList(payments, items) == Min(items)

smallestID(payments, items) ==
    CHOOSE i \in items : \A j \in items : payments[i].ID <= payments[j].ID

positiveRemaining(w, items) == {i \in items : w.remaining[i] > 0}
sumOf(field, items) == SumFunctionOnSet(field, items)

allocate(payments, w, left, right, amount, phase) ==
    LET Update(field, delta) ==
            [i \in DOMAIN field |-> IF i \in {left, right} THEN field[i] + delta ELSE field[i]]
    IN  [w EXCEPT !.remaining = Update(@, -amount),
                  !.matched = Update(@, amount),
                  !.allocations = Append(@, [Items |-> {left, right}, Amount |-> amount,
                                             Phase |-> phase])]

(***************************************************************************)
(* matchExact: for the amounts both directions have, largest first, the     *)
(* items of that amount are paired in the order of their IDs.               *)
(***************************************************************************)
commonAmounts(w, lower, higher) ==
    {w.remaining[i] : i \in positiveRemaining(w, lower)}
        \cap {w.remaining[i] : i \in positiveRemaining(w, higher)}

RECURSIVE matchExact(_, _, _, _)
matchExact(payments, w, lower, higher) ==
    IF commonAmounts(w, lower, higher) = {} THEN w
    ELSE LET amount == Max(commonAmounts(w, lower, higher))
             First(items) == smallestID(payments, {i \in items : w.remaining[i] = amount})
         IN  matchExact(payments,
                        allocate(payments, w, First(lower), First(higher), amount, "exact"),
                        lower, higher)

(***************************************************************************)
(* matchRemaining.  The tree holds the counter items with something left,   *)
(* in the order of (remaining, ID).                                         *)
(***************************************************************************)
lowerBound(payments, w, tree, amount) ==
    LET enough == {i \in tree : w.remaining[i] >= amount}
        least == Min({w.remaining[i] : i \in enough})
    IN  smallestID(payments, {i \in enough : w.remaining[i] = least})

largestAmountSmallestID(payments, w, tree) ==
    LET most == Max({w.remaining[i] : i \in tree})
    IN  smallestID(payments, {i \in tree : w.remaining[i] = most})

(* The item of the sorted list active that comes next.                      *)
nextActive(payments, w, active) == largestAmountSmallestID(payments, w, active)

(* The split of one active item over the largest counter items.             *)
RECURSIVE split(_, _, _, _)
split(payments, w, item, tree) ==
    IF w.remaining[item] <= 0 \/ w.failed THEN w
    ELSE IF tree = {} THEN [w EXCEPT !.failed = TRUE]
    ELSE LET candidate == largestAmountSmallestID(payments, w, tree)
             amount == Min({w.remaining[item], w.remaining[candidate]})
             after == allocate(payments, w, item, candidate, amount, "split")
         IN  split(payments, after, item, positiveRemaining(after, tree))

(* Bug: a counter item with just the amount wanted is passed over.          *)
Bug_StrictFit(payments, w, item, tree, allowSplit) ==
    LET wanted == w.remaining[item]
    IN  IF \E i \in tree : w.remaining[i] > wanted
        THEN allocate(payments, w, item, lowerBound(payments, w, tree, wanted), wanted, "best_fit")
        ELSE IF allowSplit THEN split(payments, w, item, tree) ELSE w

(* Bug: an item that no counter item can carry is not split.                *)
Bug_NeverSplit(payments, w, item, tree, allowSplit) ==
    LET wanted == w.remaining[item]
    IN  IF \E i \in tree : w.remaining[i] >= wanted
        THEN allocate(payments, w, item, lowerBound(payments, w, tree, wanted), wanted, "best_fit")
        ELSE w

matchItem(payments, w, item, tree, allowSplit) ==
    LET wanted == w.remaining[item]
    IN  IF \E i \in tree : w.remaining[i] >= wanted
        THEN allocate(payments, w, item, lowerBound(payments, w, tree, wanted), wanted, "best_fit")
        ELSE IF allowSplit THEN split(payments, w, item, tree) ELSE w

RECURSIVE matchActive(_, _, _, _, _)
matchActive(payments, w, active, counter, allowSplit) ==
    IF active = {} \/ w.failed THEN w
    ELSE LET item == nextActive(payments, w, active)
         IN  matchActive(payments,
                         matchItem(payments, w, item, positiveRemaining(w, counter), allowSplit),
                         active \ {item}, counter, allowSplit)

(* Bug: the direction with more left is the active one.                     *)
Bug_LargerIsActive(w, lower, higher) ==
    sumOf(w.remaining, lower) >= sumOf(w.remaining, higher)

(* The direction with less left is the active one, the lower one on a tie.  *)
activeIsLower(w, lower, higher) == sumOf(w.remaining, lower) <= sumOf(w.remaining, higher)

(* Bug: the active items that the exact phase completed are kept.           *)
Bug_KeepCompleted(payments, w, lower, higher, allowSplit) ==
    IF activeIsLower(w, lower, higher) THEN matchActive(payments, w, lower, higher, allowSplit)
    ELSE matchActive(payments, w, higher, lower, allowSplit)

matchRemaining(payments, w, lower, higher, allowSplit) ==
    LET active == IF activeIsLower(w, lower, higher) THEN lower ELSE higher
        counter == IF activeIsLower(w, lower, higher) THEN higher ELSE lower
    IN  matchActive(payments, w, positiveRemaining(w, active), counter, allowSplit)

validateGroup(payments, w, lower, higher) ==
    /\ sumOf(w.matched, lower) = sumOf(w.matched, higher)
    /\ \A i \in lower \cup higher :
          /\ w.remaining[i] >= 0
          /\ w.matched[i] >= 0
          /\ w.remaining[i] + w.matched[i] = payments[i].Amount

matchGroup(payments, w, key, mode) ==
    LET lower == LowerToHigher(payments, key)
        higher == HigherToLower(payments, key)
        exact == matchExact(payments, w, lower, higher)
        done == IF mode = ExactOnlyMode THEN exact
                ELSE matchRemaining(payments, exact, lower, higher, mode = FullMode)
    IN  [done EXCEPT !.failed = @ \/ ~validateGroup(payments, done, lower, higher)]

RECURSIVE matchGroups(_, _, _, _)
matchGroups(payments, w, keys, mode) ==
    IF keys = {} \/ w.failed THEN w
    ELSE matchGroups(payments, matchGroup(payments, w, FirstKey(keys), mode),
                     keys \ {FirstKey(keys)}, mode)

(* MatchWithMode, for payments that prepare accepts.                        *)
MatchWithMode(payments, mode) ==
    matchGroups(payments, NewWork(payments), GroupKeys(payments), mode)

(* buildResults: the results, which the code lists by ID, are a set.        *)
NewIntentResult(payment, matched) ==
    [Intent |-> payment, MatchedAmount |-> matched, FallbackAmount |-> payment.Amount - matched]

buildResults(payments, w) ==
    {NewIntentResult(payments[i], w.matched[i]) : i \in DOMAIN payments}
=============================================================================
