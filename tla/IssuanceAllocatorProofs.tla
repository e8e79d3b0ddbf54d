----------------------- MODULE IssuanceAllocatorProofs ----------------------
(***************************************************************************)
(* The books of the issuance, proved for any targets, rates and blocks.    *)
(*                                                                         *)
(* That nothing is minted twice rests on how much self-minted issuance is  *)
(* still to be deducted: it never exceeds what is pending, unless the      *)
(* issuance was changed for blocks gone by, and whatever has been minted   *)
(* beyond it stays within the highest rate up to the last distribution.    *)
(***************************************************************************)
EXTENDS IssuanceAllocator, SumTheorems

-----------------------------------------------------------------------------
(* The inductive invariant.                                                *)

Offset == distribution.selfMintingOffset
LastBlock == distribution.lastDistributionBlock

(* Self-minted issuance that is still to be deducted, and issuance that is *)
(* still to be distributed.                                                *)
Tracked == Offset + totalSelfMintingRate * (now - distribution.lastSelfMintingBlock)
Pending == issuancePerBlock * (now - LastBlock)

Highest(rate) == \A r \in IssuanceRates : r <= rate

BlocksInOrder ==
  /\ LastBlock \in 1 .. now
  /\ distribution.lastSelfMintingBlock \in 0 .. now

TrackedIsPending == ~retroactive => Tracked <= Pending

MintedUpToLastBlock ==
  \A rate \in IssuanceRates :
    Highest(rate) => TotalMinted + selfMinted - Tracked <= rate * (LastBlock - 1)

IInv ==
  /\ TypeOK
  /\ issuancePerBlock \in IssuanceRates \cup {0}
  /\ AllocationComplete
  /\ BlocksInOrder
  /\ IssuanceAccounted /\ TrackedIsPending
  /\ IssuanceWithinHighest /\ MintedUpToLastBlock

-----------------------------------------------------------------------------
(* Allocations.                                                            *)

LEMMA AddressesFinite == IsFiniteSet(Addresses) /\ IsFiniteSet(Targets)
BY FS_AddElement, IssuanceAssumption DEF Addresses

MintingRates(alloc) == SumFunctionOnSet([t \in Addresses |-> alloc[t].allocatorMintingRate], Addresses)
OwnRates(alloc) == SumFunctionOnSet([t \in Addresses |-> alloc[t].selfMintingRate], Addresses)

(* The sums after one allocation changes.                                  *)
LEMMA RatesUpdate ==
  ASSUME NEW old \in [Addresses -> AllocationType], NEW t \in Addresses,
         NEW new \in AllocationType, NEW changed, changed = [old EXCEPT ![t] = new]
  PROVE  /\ changed \in [Addresses -> AllocationType]
         /\ MintingRates(old) \in Nat /\ OwnRates(old) \in Nat
         /\ old[t].allocatorMintingRate \in Nat /\ old[t].selfMintingRate \in Nat
         /\ old[t].selfMintingRate <= OwnRates(old)
         /\ MintingRates(changed) =
              MintingRates(old) + new.allocatorMintingRate - old[t].allocatorMintingRate
         /\ OwnRates(changed) =
              OwnRates(old) + new.selfMintingRate - old[t].selfMintingRate
<1> DEFINE f == [a \in Addresses |-> old[a].allocatorMintingRate]
           g == [a \in Addresses |-> changed[a].allocatorMintingRate]
           h == [a \in Addresses |-> old[a].selfMintingRate]
           k == [a \in Addresses |-> changed[a].selfMintingRate]
<1>1. changed \in [Addresses -> AllocationType]
  OBVIOUS
<1>2. /\ \A a \in Addresses : f[a] \in Nat /\ g[a] \in Nat /\ h[a] \in Nat /\ k[a] \in Nat
      /\ \A a \in Addresses \ {t} : g[a] = f[a] /\ k[a] = h[a]
      /\ f[t] = old[t].allocatorMintingRate /\ g[t] = new.allocatorMintingRate
      /\ h[t] = old[t].selfMintingRate /\ k[t] = new.selfMintingRate
  BY DEF AllocationType
<1>3. /\ MintingRates(old) = SumFunctionOnSet(f, Addresses)
      /\ MintingRates(changed) = SumFunctionOnSet(g, Addresses)
      /\ OwnRates(old) = SumFunctionOnSet(h, Addresses)
      /\ OwnRates(changed) = SumFunctionOnSet(k, Addresses)
  BY DEF MintingRates, OwnRates
<1> HIDE DEF f, g, h, k
<1>4. /\ SumFunctionOnSet(f, Addresses) \in Nat /\ SumFunctionOnSet(h, Addresses) \in Nat
      /\ SumFunctionOnSet(h, Addresses) >= h[t]
  BY <1>2, AddressesFinite, SumType, SumAtLeast
<1>5. \A a \in Addresses : f[a] \in Int /\ g[a] \in Int /\ h[a] \in Int /\ k[a] \in Int
  BY <1>2
<1>6. SumFunctionOnSet(g, Addresses) = SumFunctionOnSet(f, Addresses) + g[t] - f[t]
  BY <1>2, <1>5, AddressesFinite, SumUpdate
<1>7. SumFunctionOnSet(k, Addresses) = SumFunctionOnSet(h, Addresses) + k[t] - h[t]
  BY <1>2, <1>5, AddressesFinite, SumUpdate
<1>8. f[t] \in Nat /\ h[t] \in Nat
  BY <1>2
<1> QED
  BY <1>1, <1>2, <1>3, <1>4, <1>6, <1>7, <1>8

(* AllocationComplete of given values.                                     *)
Complete(perBlock, alloc, own, default, list) ==
  /\ MintingRates(alloc) + OwnRates(alloc) = perBlock
  /\ OwnRates(alloc) = own
  /\ alloc[default].selfMintingRate = 0
  /\ list = {t \in Addresses : alloc[t] # NoAllocation} \ {default}

LEMMA CompleteIsComplete ==
  AllocationComplete <=>
    Complete(issuancePerBlock, allocation, totalSelfMintingRate, defaultTarget, targets)
BY DEF AllocationComplete, Complete, AllocatorRates, SelfRates, MintingRates, OwnRates

LEMMA CompleteNext ==
  AllocationComplete' <=>
    Complete(issuancePerBlock', allocation', totalSelfMintingRate', defaultTarget', targets')
BY DEF AllocationComplete, Complete, AllocatorRates, SelfRates, MintingRates, OwnRates

-----------------------------------------------------------------------------
(* What a distribution gives to the targets.                               *)

(* The rates of all targets but the default one add up to AllocatedRate.   *)
LEMMA AllocatedRateSum ==
  ASSUME TypeOK, AllocationComplete
  PROVE  LET w == [t \in Addresses |-> IF t = defaultTarget THEN 0
                                       ELSE allocation[t].allocatorMintingRate]
         IN  /\ SumFunctionOnSet(w, Targets) = AllocatedRate
             /\ AllocatedRate \in Nat
<1> DEFINE f == [t \in Addresses |-> allocation[t].allocatorMintingRate]
           w == [t \in Addresses |-> IF t = defaultTarget THEN 0
                                     ELSE allocation[t].allocatorMintingRate]
<1>1. /\ allocation \in [Addresses -> AllocationType] /\ defaultTarget \in Addresses
      /\ issuancePerBlock \in Nat /\ totalSelfMintingRate \in Nat /\ targets \subseteq Targets
  BY DEF TypeOK
<1>2. /\ \A t \in Addresses : f[t] \in Nat /\ w[t] \in Nat
      /\ \A t \in Addresses \ {defaultTarget} : w[t] = f[t]
      /\ w[defaultTarget] = 0
      /\ f[defaultTarget] = allocation[defaultTarget].allocatorMintingRate
  BY <1>1 DEF AllocationType
<1>3. SumFunctionOnSet(f, Addresses) = issuancePerBlock - totalSelfMintingRate
  <2>1. /\ AllocatorRates + SelfRates = issuancePerBlock
        /\ SelfRates = totalSelfMintingRate /\ AllocatorRates = SumFunctionOnSet(f, Addresses)
    BY DEF AllocationComplete, AllocatorRates
  <2> HIDE DEF f
  <2>2. SumFunctionOnSet(f, Addresses) \in Nat
    BY <1>2, AddressesFinite, SumType
  <2> QED BY <1>1, <2>1, <2>2
<1>4. w[NoTarget] = 0
  <2>1. CASE NoTarget = defaultTarget
    BY <1>2, <2>1
  <2>2. CASE NoTarget # defaultTarget
    <3>1. NoTarget \notin targets /\ NoTarget \in Addresses
      BY <1>1, IssuanceAssumption DEF Addresses
    <3>2. allocation[NoTarget] = NoAllocation
      BY <2>2, <3>1 DEF AllocationComplete
    <3> QED BY <2>2, <3>1, <3>2 DEF NoAllocation
  <2> QED BY <2>1, <2>2
<1> HIDE DEF f, w
<1>5. SumFunctionOnSet(w, Addresses) =
        SumFunctionOnSet(f, Addresses) + w[defaultTarget] - f[defaultTarget]
  <2>1. \A t \in Addresses : f[t] \in Int /\ w[t] \in Int
    BY <1>2
  <2> QED BY <1>1, <1>2, <2>1, AddressesFinite, SumUpdate
<1>6. SumFunctionOnSet(w, Addresses) = w[NoTarget] + SumFunctionOnSet(w, Targets)
  <2>1. \A t \in Addresses : w[t] \in Int
    BY <1>2
  <2>2. NoTarget \in Addresses /\ Addresses \ {NoTarget} = Targets
    BY IssuanceAssumption DEF Addresses
  <2>3. SumFunctionOnSet(w, Addresses) =
          w[NoTarget] + SumFunctionOnSet(w, Addresses \ {NoTarget})
    BY <2>1, <2>2, AddressesFinite, SumSplit
  <2> QED BY <2>2, <2>3
<1>7. SumFunctionOnSet(w, Targets) \in Nat
  <2>1. \A t \in Targets : w[t] \in Nat
    BY <1>2 DEF Addresses
  <2> QED BY <2>1, AddressesFinite, SumType
<1>8. f[defaultTarget] \in Nat
  BY <1>1, <1>2
<1>9. SumFunctionOnSet(w, Targets) = AllocatedRate
  BY <1>1, <1>2, <1>3, <1>4, <1>5, <1>6, <1>7, <1>8 DEF AllocatedRate
<1> QED
  BY <1>7, <1>9 DEF w

(* Never more is minted than is available.                                 *)
LEMMA AmountsAvailable ==
  ASSUME TypeOK, AllocationComplete, NEW available \in Nat, NEW blocks \in Nat
  PROVE  LET amount == [t \in Targets |-> Amount(t, available, blocks)]
         IN  /\ \A t \in Targets : amount[t] \in Nat
             /\ SumFunctionOnSet(amount, Targets) \in 0 .. available
<1> DEFINE amount == [t \in Targets |-> Amount(t, available, blocks)]
           R == AllocatedRate
           w == [t \in Addresses |-> IF t = defaultTarget THEN 0
                                     ELSE allocation[t].allocatorMintingRate]
<1>1. /\ allocation \in [Addresses -> AllocationType] /\ defaultTarget \in Addresses
      /\ targets \subseteq Targets /\ defaultTarget \notin targets
      /\ \A t \in Addresses : t \notin targets /\ t # defaultTarget =>
           allocation[t].allocatorMintingRate = 0
  BY DEF TypeOK, AllocationComplete, NoAllocation
<1>2. /\ \A t \in Targets : t \in Addresses /\ w[t] \in Nat
      /\ \A t \in targets : w[t] = allocation[t].allocatorMintingRate
      /\ \A t \in Targets \ targets : w[t] = 0
  BY <1>1 DEF AllocationType, Addresses
<1>3. SumFunctionOnSet(w, Targets) = R /\ R \in Nat
  BY AllocatedRateSum
<1>4. R * blocks \in Nat
  BY <1>3
<1> HIDE DEF w, R
<1>5. CASE available < R * blocks
  <2>1. R > 0
    BY <1>3, <1>5
  <2>2. ASSUME NEW t \in Targets
        PROVE  amount[t] \in Nat /\ amount[t] * R <= w[t] * available
    <3>1. CASE t \in targets
      <4>1. amount[t] = (available * w[t]) \div R
        <5>1. Amount(t, available, blocks) =
                (available * allocation[t].allocatorMintingRate) \div AllocatedRate
          BY <1>1, <1>4, <1>5, <3>1 DEF Amount, R
        <5> QED BY <1>2, <3>1, <5>1 DEF R
      <4>2. available * w[t] \in Nat /\ available * w[t] = w[t] * available
        BY <1>2
      <4> QED BY <1>3, <2>1, <4>1, <4>2, Quotient
    <3>2. CASE t \notin targets
      <4>1. amount[t] = 0
        <5>1. ~(available > R * blocks)
          BY <1>4, <1>5
        <5> QED BY <3>2, <5>1 DEF Amount, R
      <4> QED BY <1>2, <1>3, <3>2, <4>1
    <3> QED BY <3>1, <3>2
  <2> HIDE DEF amount
  <2>3. SumFunctionOnSet(amount, Targets) * R <= SumFunctionOnSet(w, Targets) * available
    BY <1>2, <1>3, <2>2, AddressesFinite, SumBounded
  <2>4. SumFunctionOnSet(amount, Targets) \in Nat
    BY <2>2, AddressesFinite, SumType
  <2>5. SumFunctionOnSet(amount, Targets) <= available
    <3> DEFINE total == SumFunctionOnSet(amount, Targets)
    <3>1. total \in Nat /\ total * R <= R * available
      BY <1>3, <2>3, <2>4
    <3> HIDE DEF total
    <3>2. SUFFICES ASSUME total >= available + 1 PROVE FALSE
      BY <3>1 DEF total
    <3>3. total * R >= (available + 1) * R
      BY <1>3, <3>1, <3>2
    <3>4. (available + 1) * R = R * available + R /\ R * available \in Nat
      BY <1>3
    <3> QED BY <1>3, <2>1, <3>1, <3>3, <3>4
  <2> QED BY <2>2, <2>4, <2>5 DEF amount
<1>6. CASE available >= R * blocks
  <2> DEFINE base == [t \in Targets |-> w[t] * blocks]
             rest == available - R * blocks
  <2>1. \A t \in Targets : base[t] \in Nat /\ base[t] * 1 = w[t] * blocks /\ base[t] = w[t] * blocks
    BY <1>2
  <2>2. \A t \in Targets : /\ t \in targets => amount[t] = base[t]
                           /\ t = defaultTarget => amount[t] = rest /\ base[t] = 0
                           /\ t \notin targets /\ t # defaultTarget => amount[t] = 0 /\ base[t] = 0
    <3>1. ASSUME NEW t \in targets
          PROVE  amount[t] = base[t]
      BY <1>1, <1>2, <1>4, <1>6 DEF Amount, R
    <3>2. ASSUME defaultTarget \in Targets
          PROVE  amount[defaultTarget] = rest /\ base[defaultTarget] = 0
      BY <1>1, <1>2, <1>4, <1>6, <3>2 DEF Amount, R
    <3>3. ASSUME NEW t \in Targets, t \notin targets, t # defaultTarget
          PROVE  amount[t] = 0 /\ base[t] = 0
      BY <1>1, <1>2, <3>3 DEF Amount
    <3> QED BY <3>1, <3>2, <3>3, <1>1
  <2>3. rest \in Nat
    BY <1>4, <1>6
  <2> HIDE DEF amount, base, rest
  <2>4. \A t \in Targets : amount[t] \in Nat
    BY <2>1, <2>2, <2>3
  <2>5. SumFunctionOnSet(base, Targets) = R * blocks
    <3>1. /\ \A t \in Targets : base[t] \in Nat /\ w[t] \in Nat /\ base[t] * 1 <= w[t] * blocks
          /\ \A t \in Targets : w[t] \in Nat /\ base[t] \in Nat /\ w[t] * blocks <= base[t] * 1
      BY <1>2, <2>1
    <3>2. /\ SumFunctionOnSet(base, Targets) * 1 <= SumFunctionOnSet(w, Targets) * blocks
          /\ SumFunctionOnSet(w, Targets) * blocks <= SumFunctionOnSet(base, Targets) * 1
      BY <3>1, AddressesFinite, SumBounded
    <3>3. SumFunctionOnSet(base, Targets) \in Nat
      BY <2>1, AddressesFinite, SumType
    <3> QED BY <1>3, <1>4, <3>2, <3>3
  <2>6. CASE defaultTarget \in Targets
    <3>1. \A t \in Targets : base[t] \in Int /\ amount[t] \in Int
      BY <2>1, <2>4
    <3>2. \A t \in Targets \ {defaultTarget} : amount[t] = base[t]
      BY <2>2
    <3>3. SumFunctionOnSet(amount, Targets) =
            SumFunctionOnSet(base, Targets) + amount[defaultTarget] - base[defaultTarget]
      BY <2>6, <3>1, <3>2, AddressesFinite, SumUpdate
    <3>4. SumFunctionOnSet(amount, Targets) = available
      BY <1>4, <2>2, <2>5, <2>6, <3>3 DEF rest
    <3> QED BY <2>4, <3>4 DEF amount
  <2>7. CASE defaultTarget \notin Targets
    <3>1. \A t \in Targets : amount[t] = base[t]
      BY <2>2, <2>7
    <3>2. SumFunctionOnSet(amount, Targets) = SumFunctionOnSet(base, Targets)
      BY <3>1, AddressesFinite, SumEqual
    <3> QED BY <1>4, <1>6, <2>4, <2>5, <3>2 DEF amount
  <2> QED BY <2>6, <2>7
<1> QED
  BY <1>4, <1>5, <1>6

-----------------------------------------------------------------------------
(* Distribution.                                                           *)

(* The books right after a distribution, at the rates before the call.     *)
Distributed ==
  LET pending == issuancePerBlock * (now - LastBlock')
      total   == TotalMinted' + selfMinted
  IN  /\ distribution' \in DistributionType
      /\ minted' \in [Targets -> Nat] /\ unminted' \in Nat
      /\ LastBlock' \in 1 .. now
      /\ distribution'.lastSelfMintingBlock = now
      /\ ~retroactive => /\ total + unminted' = issued - pending + Offset'
                         /\ Offset' <= pending
      /\ \A rate \in IssuanceRates :
           Highest(rate) => /\ TotalMinted' + selfMinted - Offset' <= rate * (LastBlock' - 1)
                            /\ total <= rate * (now - 1)

(* Types that the arithmetic below needs.                                  *)
LEMMA BookTypes ==
  ASSUME IInv
  PROVE  /\ now \in Nat /\ LastBlock \in Nat /\ LastBlock > 0 /\ LastBlock <= now
         /\ issuancePerBlock \in Nat /\ totalSelfMintingRate \in Nat
         /\ Offset \in Nat /\ Tracked \in Nat /\ Pending \in Nat
         /\ TotalMinted \in Nat /\ selfMinted \in Nat /\ unminted \in Nat /\ issued \in Nat
         /\ totalSelfMintingRate <= issuancePerBlock
         /\ IssuanceRates \subseteq Nat
         /\ \A rate \in IssuanceRates : Highest(rate) => issuancePerBlock <= rate
<1>1. /\ now \in Nat /\ LastBlock \in Nat /\ LastBlock > 0 /\ LastBlock <= now
      /\ issuancePerBlock \in Nat /\ totalSelfMintingRate \in Nat /\ Offset \in Nat
      /\ distribution.lastSelfMintingBlock \in Nat /\ distribution.lastSelfMintingBlock <= now
      /\ selfMinted \in Nat /\ unminted \in Nat /\ issued \in Nat
  BY DEF IInv, TypeOK, DistributionType, BlocksInOrder, LastBlock, Offset
<1>2. Tracked \in Nat
  <2>1. now - distribution.lastSelfMintingBlock \in Nat
    BY <1>1
  <2>2. totalSelfMintingRate * (now - distribution.lastSelfMintingBlock) \in Nat
    BY <1>1, <2>1
  <2> QED BY <1>1, <2>2 DEF Tracked
<1>3. Pending \in Nat
  <2>1. now - LastBlock \in Nat
    BY <1>1
  <2> QED BY <1>1, <2>1 DEF Pending
<1>4. TotalMinted \in Nat
  <2>1. \A t \in Targets : minted[t] \in Nat
    BY DEF IInv, TypeOK
  <2> QED BY <2>1, AddressesFinite, SumType DEF TotalMinted
<1>5. totalSelfMintingRate <= issuancePerBlock
  <2>1. /\ MintingRates(allocation) \in Nat /\ OwnRates(allocation) = totalSelfMintingRate
        /\ MintingRates(allocation) + OwnRates(allocation) = issuancePerBlock
    BY CompleteIsComplete, RatesUpdate DEF IInv, TypeOK, Complete
  <2> QED BY <1>1, <2>1
<1>6. IssuanceRates \subseteq Nat
  BY IssuanceAssumption
<1>7. \A rate \in IssuanceRates : Highest(rate) => issuancePerBlock <= rate
  BY <1>6 DEF IInv, Highest
<1> QED
  BY <1>1, <1>2, <1>3, <1>4, <1>5, <1>6, <1>7

(* The self-minted issuance joins the offset.                              *)
LEMMA Advanced ==
  ASSUME IInv
  PROVE  LET d == AdvanceSelfMinting(distribution)
         IN  /\ d \in DistributionType
             /\ d.selfMintingOffset = Tracked
             /\ d.lastDistributionBlock = LastBlock
             /\ d.lastSelfMintingBlock = now
<1>1. distribution \in DistributionType /\ now \in Nat /\ Tracked \in Nat
  BY BookTypes DEF IInv, TypeOK
<1> QED
  BY <1>1 DEF AdvanceSelfMinting, DistributionType, Tracked, Offset, LastBlock

(* The arithmetic of a distribution.  The issuance of the period is the    *)
(* difference of what is pending before and after it.                      *)
LEMMA DistributionArithmetic ==
  ASSUME NEW rate \in Nat, NEW highest \in Nat, rate <= highest,
         NEW last \in Nat, NEW to \in Nat, NEW time \in Nat,
         last > 0, last <= to, to <= time
  PROVE  /\ rate * (to - last) \in Nat /\ rate * (time - to) \in Nat
         /\ rate * (time - last) = rate * (to - last) + rate * (time - to)
         /\ highest * (to - 1) >= highest * (last - 1) + rate * (to - last)
         /\ highest * (time - 1) >= highest * (to - 1)
<1> DEFINE a == last - 1
           b == to - last
           c == time - to
<1>1. a \in Nat /\ b \in Nat /\ c \in Nat
  BY DEF a, b, c
<1>2. /\ to - 1 = a + b /\ time - 1 = a + b + c /\ time - last = b + c
      /\ last - 1 = a /\ to - last = b /\ time - to = c
  OBVIOUS
<1> HIDE DEF a, b, c
<1>3. /\ rate * (b + c) = rate * b + rate * c
      /\ highest * (a + b) = highest * a + highest * b
      /\ highest * (a + b + c) = highest * (a + b) + highest * c
      /\ rate * b <= highest * b
      /\ rate * b \in Nat /\ rate * c \in Nat /\ highest * a \in Nat /\ highest * b \in Nat
      /\ highest * c \in Nat
  BY <1>1
<1> QED
  BY <1>2, <1>3

LEMMA PendingDistributed ==
  ASSUME IInv, NEW toBlock, DistributePending(toBlock),
         UNCHANGED <<now, selfMinted, issued>>
  PROVE  Distributed
<1> DEFINE d == AdvanceSelfMinting(distribution)
           total == issuancePerBlock * (toBlock - LastBlock)
           available == Available(d, toBlock)
           blocks == toBlock - LastBlock
           amount == [t \in Targets |-> Amount(t, available, blocks)]
           given == SumFunctionOnSet(amount, Targets)
           left == issuancePerBlock * (now - toBlock)
<1>1. /\ d \in DistributionType /\ d.selfMintingOffset = Tracked
      /\ d.lastDistributionBlock = LastBlock /\ d.lastSelfMintingBlock = now
  BY Advanced
<1>2. toBlock \in LastBlock .. now
  BY <1>1 DEF DistributePending
<1>3. /\ now \in Nat /\ LastBlock \in Nat /\ LastBlock > 0 /\ toBlock \in Nat
      /\ LastBlock <= toBlock /\ toBlock <= now
      /\ issuancePerBlock \in Nat /\ Tracked \in Nat /\ Pending \in Nat
      /\ TotalMinted \in Nat /\ selfMinted \in Nat /\ unminted \in Nat /\ issued \in Nat
  BY <1>2, BookTypes
<1>4. total \in Nat /\ left \in Nat /\ Pending = total + left
  BY <1>3, DistributionArithmetic DEF Pending
<1>5. available = IF Tracked < total THEN total - Tracked ELSE 0
  BY <1>1 DEF Available, TotalForPeriod
<1>6. /\ distribution' = IF blocks = 0 THEN d
                         ELSE [d EXCEPT !.lastDistributionBlock = toBlock,
                                        !.selfMintingOffset = OffsetAfter(d, toBlock)]
      /\ minted' = [t \in Targets |-> minted[t] + amount[t]]
      /\ unminted' = unminted + available - given
  BY <1>1 DEF DistributePending
<1>7. OffsetAfter(d, toBlock) = IF toBlock = now \/ Tracked <= total THEN 0 ELSE Tracked - total
  BY <1>1 DEF OffsetAfter, TotalForPeriod
<1>8. available \in Nat /\ blocks \in Nat
  BY <1>3, <1>4, <1>5
<1>9. (\A t \in Targets : amount[t] \in Nat) /\ given \in 0 .. available
  <2> HIDE DEF available, blocks
  <2> QED BY <1>8, AmountsAvailable DEF IInv
<1>10. /\ distribution' \in DistributionType /\ LastBlock' = toBlock
       /\ distribution'.lastSelfMintingBlock = now
       /\ Offset' = IF blocks = 0 THEN Tracked ELSE OffsetAfter(d, toBlock)
  <2>1. OffsetAfter(d, toBlock) \in Nat
    BY <1>3, <1>4, <1>7
  <2>2. CASE blocks = 0
    BY <1>1, <1>3, <1>6, <2>2 DEF LastBlock, Offset
  <2>3. CASE blocks # 0
    <3> DEFINE after == OffsetAfter(d, toBlock)
    <3>1. /\ distribution' = [d EXCEPT !.lastDistributionBlock = toBlock,
                                       !.selfMintingOffset = after]
          /\ after \in Nat
      BY <1>6, <2>1, <2>3
    <3> HIDE DEF d, after
    <3>2. /\ distribution' \in DistributionType
          /\ distribution'.lastDistributionBlock = toBlock
          /\ distribution'.selfMintingOffset = after
          /\ distribution'.lastSelfMintingBlock = now
      BY <1>1, <1>3, <3>1 DEF DistributionType
    <3> QED BY <2>3, <3>2 DEF LastBlock, Offset, after
  <2> QED BY <2>2, <2>3
<1>11. /\ minted' \in [Targets -> Nat]
       /\ TotalMinted' = TotalMinted + given
  <2>1. /\ minted \in [Targets -> Nat] /\ IsFiniteSet(Targets)
    BY AddressesFinite DEF IInv, TypeOK
  <2> HIDE DEF amount
  <2>2. minted' \in [Targets -> Nat]
    BY <1>6, <1>9, <2>1
  <2>3. \A t \in Targets : minted[t] \in Int /\ amount[t] \in Int /\ minted'[t] = minted[t] + amount[t]
    BY <1>6, <1>9, <2>1
  <2>4. SumFunctionOnSet(minted', Targets) =
          SumFunctionOnSet(minted, Targets) + SumFunctionOnSet(amount, Targets)
    BY <2>1, <2>3, SumPlus
  <2> QED BY <2>2, <2>4 DEF TotalMinted
<1> HIDE DEF d, total, available, amount, given, left
<1>12. CASE blocks = 0
  <2>1. toBlock = LastBlock /\ total = 0 /\ left = Pending /\ Offset' = Tracked
    BY <1>3, <1>4, <1>10, <1>12 DEF total
  <2>2. available = 0 /\ given = 0
    BY <1>3, <1>5, <1>9, <2>1
  <2>3. TotalMinted' = TotalMinted /\ unminted' = unminted
    BY <1>3, <1>6, <1>11, <2>2
  <2>4. issuancePerBlock * (now - LastBlock') = Pending
    BY <1>10, <2>1 DEF Pending
  <2>5. ~retroactive => /\ TotalMinted' + selfMinted + unminted' = issued - Pending + Offset'
                        /\ Offset' <= Pending
    BY <2>1, <2>3 DEF IInv, IssuanceAccounted, TrackedIsPending, Tracked, Pending, LastBlock, Offset
  <2>6. \A rate \in IssuanceRates :
          Highest(rate) => /\ TotalMinted' + selfMinted - Offset' <= rate * (LastBlock' - 1)
                           /\ TotalMinted' + selfMinted <= rate * (now - 1)
    BY <1>10, <2>1, <2>3 DEF IInv, MintedUpToLastBlock, IssuanceWithinHighest, Highest
  <2> QED
    BY <1>3, <1>6, <1>10, <1>11, <2>1, <2>3, <2>4, <2>5, <2>6 DEF Distributed
<1>13. CASE blocks # 0
  <2>1. Offset' = IF toBlock = now \/ Tracked <= total THEN 0 ELSE Tracked - total
    BY <1>7, <1>10, <1>13
  <2>2. issuancePerBlock * (now - LastBlock') = left /\ (toBlock = now => left = 0)
    BY <1>3, <1>10 DEF left
  <2>3. given \in Nat /\ given <= available
    BY <1>8, <1>9
  <2>4. ~retroactive => /\ TotalMinted' + selfMinted + unminted' = issued - left + Offset'
                        /\ Offset' <= left
    <3>1. SUFFICES ASSUME ~retroactive
                   PROVE  /\ TotalMinted' + selfMinted + unminted' = issued - left + Offset'
                          /\ Offset' <= left
      OBVIOUS
    <3>2. /\ TotalMinted + selfMinted + unminted = issued - Pending + Tracked
          /\ Tracked <= Pending
      BY <3>1 DEF IInv, IssuanceAccounted, TrackedIsPending, Tracked, Pending, LastBlock, Offset
    <3> QED BY <1>3, <1>4, <1>5, <1>6, <1>8, <1>11, <2>1, <2>2, <2>3, <3>2
  <2>5. ASSUME NEW rate \in IssuanceRates, Highest(rate)
        PROVE  /\ TotalMinted' + selfMinted - Offset' <= rate * (LastBlock' - 1)
               /\ TotalMinted' + selfMinted <= rate * (now - 1)
    <3> DEFINE before == rate * (LastBlock - 1)
               up == rate * (toBlock - 1)
               end == rate * (now - 1)
    <3>1. rate \in Nat /\ issuancePerBlock <= rate
      BY <2>5, BookTypes
    <3>2. before \in Nat /\ up \in Nat /\ end \in Nat
      <4>1. LastBlock - 1 \in Nat /\ toBlock - 1 \in Nat /\ now - 1 \in Nat
        BY <1>3
      <4> QED BY <3>1, <4>1
    <3>3. up >= before + total /\ end >= up
      BY <1>3, <3>1, DistributionArithmetic DEF total
    <3>4. /\ TotalMinted + selfMinted - Tracked <= before
          /\ TotalMinted + selfMinted <= end
      BY <2>5 DEF IInv, MintedUpToLastBlock, IssuanceWithinHighest, Highest
    <3>5. LastBlock' = toBlock /\ (toBlock = now => up = end)
      BY <1>10
    <3> HIDE DEF before, up, end
    <3>6. /\ TotalMinted' + selfMinted - Offset' <= up
          /\ TotalMinted' + selfMinted <= end
      <4>1. CASE Tracked < total
        BY <1>3, <1>4, <1>5, <1>11, <2>1, <2>3, <3>2, <3>3, <3>4, <4>1
      <4>2. CASE Tracked >= total
        BY <1>3, <1>4, <1>5, <1>11, <2>1, <2>3, <3>2, <3>3, <3>4, <3>5, <4>2
      <4> QED BY <1>3, <1>4, <4>1, <4>2
    <3> QED BY <3>5, <3>6 DEF up, end
  <2>6. unminted' \in Nat
    BY <1>3, <1>6, <1>8, <2>3
  <2> QED
    BY <1>3, <1>10, <1>11, <2>2, <2>4, <2>5, <2>6 DEF Distributed
<1> QED
  BY <1>12, <1>13

(* While paused a call only notes what targets mint themselves.            *)
LEMMA DistributeDone ==
  ASSUME IInv, Distribute, UNCHANGED <<now, selfMinted, issued>>
  PROVE  Distributed
<1>1. CASE ~paused
  BY <1>1, PendingDistributed DEF Distribute
<1>2. CASE paused
  <2> DEFINE d == AdvanceSelfMinting(distribution)
  <2>1. distribution' = d /\ minted' = minted /\ unminted' = unminted
    BY <1>2 DEF Distribute
  <2>2. /\ d \in DistributionType /\ d.selfMintingOffset = Tracked
        /\ d.lastDistributionBlock = LastBlock /\ d.lastSelfMintingBlock = now
    BY Advanced
  <2> HIDE DEF d
  <2>3. /\ distribution' \in DistributionType /\ Offset' = Tracked /\ LastBlock' = LastBlock
        /\ distribution'.lastSelfMintingBlock = now /\ TotalMinted' = TotalMinted
    BY <2>1, <2>2 DEF Offset, LastBlock, TotalMinted
  <2>4. /\ minted' \in [Targets -> Nat] /\ unminted' \in Nat /\ LastBlock' \in 1 .. now
    BY <2>1, <2>3 DEF IInv, TypeOK, BlocksInOrder
  <2>5. issuancePerBlock * (now - LastBlock') = Pending
    BY <2>3 DEF Pending
  <2>6. ~retroactive => /\ TotalMinted' + selfMinted + unminted' = issued - Pending + Offset'
                        /\ Offset' <= Pending
    BY <2>1, <2>3 DEF IInv, IssuanceAccounted, TrackedIsPending, Tracked, Pending, LastBlock, Offset
  <2>7. \A rate \in IssuanceRates :
          Highest(rate) => /\ TotalMinted' + selfMinted - Offset' <= rate * (LastBlock' - 1)
                           /\ TotalMinted' + selfMinted <= rate * (now - 1)
    BY <2>3 DEF IInv, MintedUpToLastBlock, IssuanceWithinHighest, Highest
  <2>8. ~retroactive => /\ TotalMinted' + selfMinted + unminted' =
                             issued - issuancePerBlock * (now - LastBlock') + Offset'
                        /\ Offset' <= issuancePerBlock * (now - LastBlock')
    BY <2>5, <2>6
  <2>9. now \in Nat /\ selfMinted \in Nat /\ issued \in Nat /\ IssuanceRates \subseteq Nat
    BY BookTypes
  <2> QED
    BY <2>3, <2>4, <2>7, <2>8, <2>9 DEF Distributed
<1> QED
  BY <1>1, <1>2

-----------------------------------------------------------------------------
(* The steps.                                                              *)

SettingTypes ==
  /\ paused \in BOOLEAN /\ retroactive \in BOOLEAN
  /\ issuancePerBlock \in IssuanceRates \cup {0}
  /\ totalSelfMintingRate \in Nat
  /\ allocation \in [Addresses -> AllocationType]
  /\ defaultTarget \in Addresses /\ targets \subseteq Targets
  /\ lastChangeNotifiedBlock \in [Addresses -> Nat]
  /\ told \subseteq Targets

(* After a distribution the rates may change: those of the targets at any  *)
(* time, the issuance when all is distributed, or retroactively.           *)
LEMMA RatesMayChange ==
  ASSUME IInv, Distributed, SettingTypes', AllocationComplete',
         UNCHANGED <<now, selfMinted, issued>>,
         \/ retroactive'
         \/ UNCHANGED retroactive /\ (issuancePerBlock' = issuancePerBlock \/ LastBlock' = now)
  PROVE  IInv'
<1>1. /\ now \in Nat /\ issuancePerBlock \in Nat /\ selfMinted \in Nat /\ issued \in Nat
      /\ IssuanceRates \subseteq Nat
  BY BookTypes
<1>2. /\ distribution' \in DistributionType
      /\ minted' \in [Targets -> Nat] /\ unminted' \in Nat
      /\ LastBlock' \in 1 .. now
      /\ distribution'.lastSelfMintingBlock = now
  BY DEF Distributed
<1>3. issuancePerBlock' \in Nat /\ totalSelfMintingRate' \in Nat /\ Offset' \in Nat
  BY <1>1, <1>2 DEF SettingTypes, DistributionType, Offset
<1>4. TypeOK'
  BY <1>1, <1>2, <1>3 DEF TypeOK, SettingTypes, IInv
<1>5. BlocksInOrder'
  BY <1>1, <1>2 DEF BlocksInOrder
<1>6. Tracked' = Offset'
  <2>1. now' - distribution'.lastSelfMintingBlock = 0
    BY <1>1, <1>2
  <2>2. totalSelfMintingRate' * (now' - distribution'.lastSelfMintingBlock) = 0
    BY <1>3, <2>1
  <2> QED BY <1>3, <2>2 DEF Tracked
<1>7. /\ ~retroactive' => /\ TotalMinted' + selfMinted + unminted' = issued - Pending' + Offset'
                          /\ Offset' <= Pending'
  <2> SUFFICES ASSUME ~retroactive'
               PROVE  /\ TotalMinted' + selfMinted + unminted' = issued - Pending' + Offset'
                      /\ Offset' <= Pending'
    OBVIOUS
  <2>1. issuancePerBlock' * (now - LastBlock') = issuancePerBlock * (now - LastBlock')
    <3>1. CASE issuancePerBlock' = issuancePerBlock
      BY <3>1
    <3>2. CASE LastBlock' = now
      <4>1. now - LastBlock' = 0
        BY <1>1, <3>2
      <4> QED BY <1>1, <1>3, <4>1
    <3> QED BY <3>1, <3>2
  <2>2. Pending' = issuancePerBlock * (now - LastBlock')
    BY <2>1 DEF Pending
  <2> QED BY <2>2 DEF Distributed
<1>8. IssuanceAccounted' /\ TrackedIsPending'
  BY <1>6, <1>7 DEF IssuanceAccounted, TrackedIsPending, Tracked, Pending, Offset, LastBlock
<1>9. IssuanceWithinHighest' /\ MintedUpToLastBlock'
  <2>1. ASSUME NEW rate \in IssuanceRates, Highest(rate)
        PROVE  /\ TotalMinted' + selfMinted' - Tracked' <= rate * (LastBlock' - 1)
               /\ TotalMinted' + selfMinted' <= rate * (now' - 1)
    <3>1. /\ TotalMinted' + selfMinted - Offset' <= rate * (LastBlock' - 1)
          /\ TotalMinted' + selfMinted <= rate * (now - 1)
      BY <2>1 DEF Distributed
    <3>2. selfMinted' = selfMinted /\ now' = now
      OBVIOUS
    <3> QED BY <1>6, <3>1, <3>2
  <2> QED BY <2>1 DEF IssuanceWithinHighest, MintedUpToLastBlock, Highest
<1> QED
  BY <1>4, <1>5, <1>8, <1>9 DEF IInv, SettingTypes

(* A step that touches neither rates nor tokens.                           *)
LEMMA BooksUntouched ==
  ASSUME IInv, UNCHANGED <<now, rates, tokens, histories>>, SettingTypes'
  PROVE  IInv'
<1>1. /\ UNCHANGED <<now, issuancePerBlock, allocation, totalSelfMintingRate, defaultTarget>>
      /\ UNCHANGED <<targets, distribution, minted, unminted, selfMinted, issued, retroactive>>
  BY DEF rates, tokens, histories
<1>2. TypeOK'
  BY <1>1 DEF IInv, TypeOK, SettingTypes
<1>3. AllocationComplete'
  BY <1>1 DEF IInv, AllocationComplete, AllocatorRates, SelfRates
<1>4. /\ Tracked' = Tracked /\ Pending' = Pending /\ LastBlock' = LastBlock
      /\ TotalMinted' = TotalMinted
  BY <1>1 DEF Tracked, Pending, Offset, LastBlock, TotalMinted
<1>5. IssuanceAccounted'
  BY <1>1, <1>4 DEF IInv, IssuanceAccounted
<1>6. BlocksInOrder' /\ TrackedIsPending' /\ IssuanceWithinHighest' /\ MintedUpToLastBlock'
  BY <1>1, <1>4 DEF IInv, BlocksInOrder, TrackedIsPending, IssuanceWithinHighest,
                    MintedUpToLastBlock
<1> QED
  BY <1>1, <1>2, <1>3, <1>5, <1>6 DEF IInv

(* What NotifiedBeforeChange says of a step.                               *)
NotifiedStep ==
  \A t \in Targets :
    allocation'[t] # allocation[t] => t \in told' \/ lastChangeNotifiedBlock[t] >= now

(* Whoever is asked is told, unless it was already told in this block.     *)
LEMMA Notified ==
  ASSUME IInv, NEW asked \in SUBSET Addresses, NEW deleted, Notify(asked, deleted)
  PROVE  /\ lastChangeNotifiedBlock' \in [Addresses -> Nat]
         /\ told' \subseteq Targets
         /\ \A t \in asked \cap Targets : t \in told' \/ lastChangeNotifiedBlock[t] >= now
<1>1. /\ now \in Nat /\ lastChangeNotifiedBlock \in [Addresses -> Nat] /\ told \subseteq Targets
  BY DEF IInv, TypeOK
<1>2. lastChangeNotifiedBlock' \in [Addresses -> Nat]
  BY <1>1 DEF Notify
<1>3. told' \subseteq Targets
  BY <1>1 DEF Notify, IsNotified, Addresses
<1>4. ASSUME NEW t \in asked \cap Targets
      PROVE  t \in told' \/ lastChangeNotifiedBlock[t] >= now
  BY <1>1, IssuanceAssumption DEF Notify, IsNotified, Addresses
<1> QED
  BY <1>2, <1>3, <1>4

(* A call that does not reach far enough changes no rate.                  *)
LEMMA NotYetStep ==
  ASSUME IInv, Distributed, UNCHANGED <<now, paused, rates, notices, histories>>
  PROVE  IInv' /\ NotifiedStep
<1>1. /\ UNCHANGED <<now, paused, issuancePerBlock, allocation, totalSelfMintingRate>>
      /\ UNCHANGED <<defaultTarget, targets, lastChangeNotifiedBlock, told>>
      /\ UNCHANGED <<selfMinted, issued, retroactive>>
  BY DEF rates, notices, histories
<1>2. SettingTypes' /\ AllocationComplete'
  BY <1>1 DEF IInv, TypeOK, SettingTypes, AllocationComplete, AllocatorRates, SelfRates
<1> QED
  BY <1>1, <1>2, RatesMayChange DEF NotifiedStep

LEMMA SetIssuanceStep ==
  ASSUME IInv, NEW new \in IssuanceRates, NEW min, SetIssuancePerBlock(new, min)
  PROVE  IInv' /\ NotifiedStep
<1> DEFINE unallocated == allocation[defaultTarget].allocatorMintingRate
           changed == [allocation[defaultTarget] EXCEPT !.allocatorMintingRate =
                         unallocated + new - issuancePerBlock]
<1>1. Distribute /\ UNCHANGED <<now, paused>>
  BY DEF SetIssuancePerBlock
<1>2. CASE ~Reached(min)
  <2>1. UNCHANGED <<now, paused, rates, notices, histories>>
    BY <1>1, <1>2 DEF SetIssuancePerBlock, NotYet
  <2>2. Distributed
    BY <1>1, <2>1, DistributeDone DEF histories
  <2> QED BY <2>1, <2>2, NotYetStep
<1>3. CASE Reached(min)
  <2>1. /\ issuancePerBlock <= new + unallocated
        /\ Notify({defaultTarget}, {})
        /\ issuancePerBlock' = new
        /\ allocation' = [allocation EXCEPT ![defaultTarget].allocatorMintingRate =
                            unallocated + new - issuancePerBlock]
        /\ retroactive' = (retroactive \/ distribution'.lastDistributionBlock < now)
        /\ UNCHANGED <<totalSelfMintingRate, defaultTarget, targets, selfMinted, issued>>
    BY <1>3 DEF SetIssuancePerBlock
  <2>2. Distributed
    BY <1>1, <2>1, DistributeDone
  <2>3. /\ allocation \in [Addresses -> AllocationType] /\ defaultTarget \in Addresses
        /\ targets \subseteq Targets /\ issuancePerBlock \in Nat /\ new \in Nat
        /\ totalSelfMintingRate \in Nat /\ retroactive \in BOOLEAN /\ paused \in BOOLEAN
        /\ allocation[defaultTarget] \in AllocationType /\ unallocated \in Nat
    BY IssuanceAssumption DEF IInv, TypeOK, AllocationType
  <2>4. /\ allocation' = [allocation EXCEPT ![defaultTarget] = changed]
        /\ changed \in AllocationType
        /\ changed.allocatorMintingRate = unallocated + new - issuancePerBlock
        /\ changed.selfMintingRate = allocation[defaultTarget].selfMintingRate
    BY <2>1, <2>3 DEF AllocationType
  <2> HIDE DEF changed
  <2>5. /\ allocation' \in [Addresses -> AllocationType]
        /\ MintingRates(allocation) \in Nat /\ OwnRates(allocation) \in Nat
        /\ allocation[defaultTarget].selfMintingRate \in Nat
        /\ MintingRates(allocation') = MintingRates(allocation) + new - issuancePerBlock
        /\ OwnRates(allocation') = OwnRates(allocation)
    <3>1. /\ allocation' \in [Addresses -> AllocationType]
          /\ MintingRates(allocation) \in Nat /\ OwnRates(allocation) \in Nat
          /\ allocation[defaultTarget].selfMintingRate \in Nat
          /\ MintingRates(allocation') = MintingRates(allocation)
               + changed.allocatorMintingRate - allocation[defaultTarget].allocatorMintingRate
          /\ OwnRates(allocation') = OwnRates(allocation)
               + changed.selfMintingRate - allocation[defaultTarget].selfMintingRate
      BY <2>3, <2>4, RatesUpdate
    <3>3. changed.selfMintingRate = allocation[defaultTarget].selfMintingRate
      BY <2>4
    <3>4. changed.allocatorMintingRate = unallocated + new - issuancePerBlock
      BY <2>4
    <3> QED BY <2>3, <3>1, <3>3, <3>4
  <2>6. AllocationComplete'
    <3>1. Complete(issuancePerBlock, allocation, totalSelfMintingRate, defaultTarget, targets)
      BY CompleteIsComplete DEF IInv
    <3>2. /\ allocation'[defaultTarget] = changed
          /\ \A t \in Addresses \ {defaultTarget} : allocation'[t] = allocation[t]
      BY <2>3, <2>4
    <3>3. {t \in Addresses : allocation'[t] # NoAllocation} \ {defaultTarget} =
            {t \in Addresses : allocation[t] # NoAllocation} \ {defaultTarget}
      BY <3>2
    <3>4. Complete(issuancePerBlock', allocation', totalSelfMintingRate', defaultTarget', targets')
      BY <2>1, <2>3, <2>4, <2>5, <3>1, <3>2, <3>3 DEF Complete
    <3> QED BY <3>4, CompleteNext
  <2>7. /\ lastChangeNotifiedBlock' \in [Addresses -> Nat] /\ told' \subseteq Targets
        /\ \A t \in {defaultTarget} \cap Targets :
             t \in told' \/ lastChangeNotifiedBlock[t] >= now
    BY <2>1, <2>3, Notified
  <2>8. retroactive' \in BOOLEAN
    BY Zenon, <2>1
  <2>9. SettingTypes'
    BY <1>1, <2>1, <2>3, <2>5, <2>7, <2>8 DEF SettingTypes
  <2>10. retroactive' \/ (UNCHANGED retroactive /\ LastBlock' = now)
    <3>1. LastBlock' \in 1 .. now /\ now \in Nat
      BY <2>2, BookTypes DEF Distributed
    <3>2. LastBlock' < now \/ LastBlock' = now
      BY <3>1
    <3>3. LastBlock' = distribution'.lastDistributionBlock
      BY DEF LastBlock
    <3>4. CASE retroactive \/ distribution'.lastDistributionBlock < now
      BY <2>1, <3>4
    <3>5. CASE ~(retroactive \/ distribution'.lastDistributionBlock < now)
      <4>1. retroactive' = retroactive
        BY <2>1, <2>3, <3>5
      <4> QED BY <3>2, <3>3, <3>5, <4>1
    <3> QED BY <3>4, <3>5
  <2>11. IInv'
    BY <1>1, <2>1, <2>2, <2>6, <2>9, <2>10, RatesMayChange
  <2>12. NotifiedStep
    BY <2>3, <2>4, <2>7 DEF NotifiedStep, Addresses
  <2> QED BY <2>11, <2>12
<1> QED
  BY <1>2, <1>3

LEMMA SetTargetAllocationStep ==
  ASSUME IInv, NEW t \in Targets, NEW new \in AllocationType, NEW min,
         SetTargetAllocation(t, new, min)
  PROVE  IInv' /\ NotifiedStep
<1> DEFINE rate == new.allocatorMintingRate + new.selfMintingRate
           removed == IF new = NoAllocation THEN {t} ELSE {}
           mid == [allocation EXCEPT ![t] = new]
           rest == [allocation[defaultTarget] EXCEPT !.allocatorMintingRate =
                      AvailableRate(t) - rate]
<1>1. Distribute /\ UNCHANGED <<now, paused>> /\ t # defaultTarget
  BY DEF SetTargetAllocation
<1>2. CASE ~Reached(min)
  <2>1. UNCHANGED <<now, paused, rates, notices, histories>>
    BY <1>1, <1>2 DEF SetTargetAllocation, NotYet
  <2>2. Distributed
    BY <1>1, <2>1, DistributeDone DEF histories
  <2> QED BY <2>1, <2>2, NotYetStep
<1>3. CASE Reached(min)
  <2>1. /\ rate <= AvailableRate(t)
        /\ Notify({t, defaultTarget}, removed)
        /\ allocation' = [allocation EXCEPT ![t] = new,
             ![defaultTarget].allocatorMintingRate = AvailableRate(t) - rate]
        /\ totalSelfMintingRate' =
             totalSelfMintingRate - allocation[t].selfMintingRate + new.selfMintingRate
        /\ targets' = (targets \cup {t}) \ removed
        /\ UNCHANGED <<issuancePerBlock, defaultTarget, selfMinted, issued, retroactive>>
    BY <1>3 DEF SetTargetAllocation, histories
  <2>2. Distributed
    BY <1>1, <2>1, DistributeDone
  <2>3. /\ allocation \in [Addresses -> AllocationType] /\ defaultTarget \in Addresses
        /\ t \in Addresses /\ targets \subseteq Targets
        /\ issuancePerBlock \in IssuanceRates \cup {0} /\ totalSelfMintingRate \in Nat
    BY DEF IInv, TypeOK, Addresses
  <2>4. /\ new.allocatorMintingRate \in Nat /\ new.selfMintingRate \in Nat
        /\ allocation[t].allocatorMintingRate \in Nat /\ allocation[t].selfMintingRate \in Nat
        /\ allocation[defaultTarget].allocatorMintingRate \in Nat
        /\ allocation[defaultTarget].selfMintingRate \in Nat
    BY <2>3 DEF AllocationType
  <2>5. /\ rest \in AllocationType
        /\ rest.allocatorMintingRate = allocation[defaultTarget].allocatorMintingRate
             + allocation[t].allocatorMintingRate + allocation[t].selfMintingRate - rate
        /\ rest.selfMintingRate = allocation[defaultTarget].selfMintingRate
    <3>1. allocation[defaultTarget] \in AllocationType
      BY <2>3
    <3>2. AvailableRate(t) - rate \in Nat
      BY <2>1, <2>4 DEF AvailableRate
    <3>3. /\ rest \in AllocationType /\ rest.allocatorMintingRate = AvailableRate(t) - rate
          /\ rest.selfMintingRate = allocation[defaultTarget].selfMintingRate
      BY <3>1, <3>2 DEF AllocationType
    <3> HIDE DEF rest
    <3> QED BY <2>4, <3>3 DEF AvailableRate
  <2>6. /\ mid \in [Addresses -> AllocationType] /\ mid[defaultTarget] = allocation[defaultTarget]
        /\ allocation' = [mid EXCEPT ![defaultTarget] = rest]
    BY <1>1, <2>1, <2>3
  <2>7. /\ allocation'[t] = new /\ allocation'[defaultTarget] = rest
        /\ \A a \in Addresses \ {t, defaultTarget} : allocation'[a] = allocation[a]
        /\ allocation' \in [Addresses -> AllocationType]
    BY <1>1, <2>3, <2>5, <2>6
  <2>8. /\ MintingRates(allocation) \in Nat /\ OwnRates(allocation) \in Nat
        /\ MintingRates(mid) = MintingRates(allocation)
             + new.allocatorMintingRate - allocation[t].allocatorMintingRate
        /\ OwnRates(mid) = OwnRates(allocation)
             + new.selfMintingRate - allocation[t].selfMintingRate
    <3> HIDE DEF mid
    <3>1. mid = [allocation EXCEPT ![t] = new]
      BY DEF mid
    <3> QED BY <2>3, <3>1, RatesUpdate
  <2> HIDE DEF mid, rest
  <2>9. /\ MintingRates(mid) \in Nat /\ OwnRates(mid) \in Nat
        /\ MintingRates(allocation') = MintingRates(mid)
             + rest.allocatorMintingRate - allocation[defaultTarget].allocatorMintingRate
        /\ OwnRates(allocation') = OwnRates(mid)
             + rest.selfMintingRate - allocation[defaultTarget].selfMintingRate
    <3>1. /\ MintingRates(mid) \in Nat /\ OwnRates(mid) \in Nat
          /\ MintingRates(allocation') = MintingRates(mid)
               + rest.allocatorMintingRate - mid[defaultTarget].allocatorMintingRate
          /\ OwnRates(allocation') = OwnRates(mid)
               + rest.selfMintingRate - mid[defaultTarget].selfMintingRate
      BY <2>3, <2>5, <2>6, RatesUpdate
    <3>2. mid[defaultTarget] = allocation[defaultTarget]
      BY <2>6
    <3> QED BY <3>1, <3>2
  <2>10. /\ MintingRates(allocation') + OwnRates(allocation') =
              MintingRates(allocation) + OwnRates(allocation)
         /\ OwnRates(allocation') = OwnRates(allocation)
              + new.selfMintingRate - allocation[t].selfMintingRate
         /\ OwnRates(allocation') \in Nat
    BY <2>4, <2>5, <2>8, <2>9
  <2>11. AllocationComplete' /\ totalSelfMintingRate' \in Nat
    <3>1. Complete(issuancePerBlock, allocation, totalSelfMintingRate, defaultTarget, targets)
      BY CompleteIsComplete DEF IInv
    <3>2. totalSelfMintingRate' = OwnRates(allocation')
      BY <2>1, <2>3, <2>4, <2>8, <2>10, <3>1 DEF Complete
    <3>3. targets' = {a \in Addresses : allocation'[a] # NoAllocation} \ {defaultTarget}
      <4>1. targets = {a \in Addresses : allocation[a] # NoAllocation} \ {defaultTarget}
        BY <3>1 DEF Complete
      <4>2. CASE new = NoAllocation
        BY <1>1, <2>1, <2>3, <2>7, <4>1, <4>2
      <4>3. CASE new # NoAllocation
        BY <1>1, <2>1, <2>3, <2>7, <4>1, <4>3
      <4> QED BY <4>2, <4>3
    <3>4. /\ allocation'[defaultTarget].selfMintingRate = 0
          /\ MintingRates(allocation') + OwnRates(allocation') = issuancePerBlock
      BY <2>5, <2>7, <2>10, <3>1 DEF Complete
    <3>5. Complete(issuancePerBlock', allocation', totalSelfMintingRate', defaultTarget', targets')
      BY <2>1, <3>2, <3>3, <3>4 DEF Complete
    <3> QED BY <2>10, <3>2, <3>5, CompleteNext
  <2>12. /\ lastChangeNotifiedBlock' \in [Addresses -> Nat] /\ told' \subseteq Targets
         /\ \A a \in {t, defaultTarget} \cap Targets :
              a \in told' \/ lastChangeNotifiedBlock[a] >= now
    BY <2>1, <2>3, Notified
  <2>13. paused' \in BOOLEAN /\ retroactive' \in BOOLEAN
    BY Zenon, <1>1, <2>1 DEF IInv, TypeOK
  <2>14. SettingTypes'
    BY <1>1, <2>1, <2>3, <2>7, <2>11, <2>12, <2>13 DEF SettingTypes
  <2>15. IInv'
    BY <1>1, <2>1, <2>2, <2>11, <2>14, RatesMayChange
  <2>16. NotifiedStep
    BY <2>7, <2>12 DEF NotifiedStep, Addresses
  <2> QED BY <2>15, <2>16
<1> QED
  BY <1>2, <1>3

LEMMA SetDefaultTargetStep ==
  ASSUME IInv, NEW new \in Addresses, NEW min, SetDefaultTarget(new, min)
  PROVE  IInv' /\ NotifiedStep
<1> DEFINE mid == [allocation EXCEPT ![new] = allocation[defaultTarget]]
<1>1. Distribute /\ UNCHANGED <<now, paused>> /\ new # defaultTarget /\ new \notin targets
  BY DEF SetDefaultTarget
<1>2. CASE ~Reached(min)
  <2>1. UNCHANGED <<now, paused, rates, notices, histories>>
    BY <1>1, <1>2 DEF SetDefaultTarget, NotYet
  <2>2. Distributed
    BY <1>1, <2>1, DistributeDone DEF histories
  <2> QED BY <2>1, <2>2, NotYetStep
<1>3. CASE Reached(min)
  <2>1. /\ Notify({defaultTarget, new}, {defaultTarget})
        /\ defaultTarget' = new
        /\ allocation' = [allocation EXCEPT ![new] = allocation[defaultTarget],
                                            ![defaultTarget] = NoAllocation]
        /\ UNCHANGED <<issuancePerBlock, totalSelfMintingRate, targets>>
        /\ UNCHANGED <<selfMinted, issued, retroactive>>
    BY <1>3 DEF SetDefaultTarget, histories
  <2>2. Distributed
    BY <1>1, <2>1, DistributeDone
  <2>3. /\ allocation \in [Addresses -> AllocationType] /\ defaultTarget \in Addresses
        /\ targets \subseteq Targets /\ NoAllocation \in AllocationType
        /\ issuancePerBlock \in IssuanceRates \cup {0} /\ totalSelfMintingRate \in Nat
        /\ allocation[defaultTarget] \in AllocationType
    BY DEF IInv, TypeOK, NoAllocation, AllocationType
  <2>4. Complete(issuancePerBlock, allocation, totalSelfMintingRate, defaultTarget, targets)
    BY CompleteIsComplete DEF IInv
  <2>5. allocation[new] = NoAllocation
    BY <1>1, <2>4 DEF Complete
  <2>6. /\ mid \in [Addresses -> AllocationType] /\ mid[defaultTarget] = allocation[defaultTarget]
        /\ allocation' = [mid EXCEPT ![defaultTarget] = NoAllocation]
    BY <1>1, <2>1, <2>3
  <2>7. /\ allocation'[new] = allocation[defaultTarget] /\ allocation'[defaultTarget] = NoAllocation
        /\ \A a \in Addresses \ {new, defaultTarget} : allocation'[a] = allocation[a]
        /\ allocation' \in [Addresses -> AllocationType]
    BY <1>1, <2>3, <2>6
  <2>8. mid = [allocation EXCEPT ![new] = allocation[defaultTarget]]
    OBVIOUS
  <2> HIDE DEF mid
  <2>9. /\ MintingRates(allocation) \in Nat /\ OwnRates(allocation) \in Nat
        /\ MintingRates(mid) = MintingRates(allocation)
             + allocation[defaultTarget].allocatorMintingRate - allocation[new].allocatorMintingRate
        /\ OwnRates(mid) = OwnRates(allocation)
             + allocation[defaultTarget].selfMintingRate - allocation[new].selfMintingRate
    <3> DEFINE default == allocation[defaultTarget]
    <3>1. /\ allocation \in [Addresses -> AllocationType]
          /\ default \in AllocationType /\ mid = [allocation EXCEPT ![new] = default]
      BY <2>3, <2>8
    <3> HIDE DEF default
    <3>2. /\ MintingRates(allocation) \in Nat /\ OwnRates(allocation) \in Nat
          /\ MintingRates(mid) = MintingRates(allocation)
               + default.allocatorMintingRate - allocation[new].allocatorMintingRate
          /\ OwnRates(mid) = OwnRates(allocation)
               + default.selfMintingRate - allocation[new].selfMintingRate
      BY <3>1, RatesUpdate
    <3> QED BY <3>2 DEF default
  <2>10. /\ allocation[defaultTarget].allocatorMintingRate \in Nat
         /\ allocation[defaultTarget].selfMintingRate \in Nat
         /\ MintingRates(allocation') = MintingRates(mid)
              + NoAllocation.allocatorMintingRate - allocation[defaultTarget].allocatorMintingRate
         /\ OwnRates(allocation') = OwnRates(mid)
              + NoAllocation.selfMintingRate - allocation[defaultTarget].selfMintingRate
    <3>2. \A a \in Addresses : allocation[a].allocatorMintingRate \in Nat
                            /\ allocation[a].selfMintingRate \in Nat
      BY <2>3 DEF AllocationType
    <3>3. /\ MintingRates(allocation') = MintingRates(mid)
               + NoAllocation.allocatorMintingRate - mid[defaultTarget].allocatorMintingRate
          /\ OwnRates(allocation') = OwnRates(mid)
               + NoAllocation.selfMintingRate - mid[defaultTarget].selfMintingRate
      BY <2>3, <2>6, RatesUpdate
    <3>4. mid[defaultTarget] = allocation[defaultTarget]
      BY <2>6
    <3> QED BY <2>3, <3>2, <3>3, <3>4
  <2>11. /\ MintingRates(allocation') = MintingRates(allocation)
         /\ OwnRates(allocation') = OwnRates(allocation)
    BY <2>5, <2>9, <2>10 DEF NoAllocation
  <2>12. AllocationComplete'
    <3>1. targets = {a \in Addresses : allocation'[a] # NoAllocation} \ {new}
      <4>1. targets = {a \in Addresses : allocation[a] # NoAllocation} \ {defaultTarget}
        BY <2>4 DEF Complete
      <4> QED BY <1>1, <2>3, <2>5, <2>7, <4>1
    <3>2. Complete(issuancePerBlock', allocation', totalSelfMintingRate', defaultTarget', targets')
      BY <2>1, <2>4, <2>7, <2>11, <3>1 DEF Complete
    <3> QED BY <3>2, CompleteNext
  <2>13. /\ lastChangeNotifiedBlock' \in [Addresses -> Nat] /\ told' \subseteq Targets
         /\ \A a \in {defaultTarget, new} \cap Targets :
              a \in told' \/ lastChangeNotifiedBlock[a] >= now
    BY <2>1, <2>3, Notified
  <2>14. paused' \in BOOLEAN /\ retroactive' \in BOOLEAN
    BY Zenon, <1>1, <2>1 DEF IInv, TypeOK
  <2>15. SettingTypes'
    BY <1>1, <2>1, <2>3, <2>7, <2>13, <2>14 DEF SettingTypes
  <2>16. IInv'
    BY <1>1, <2>1, <2>2, <2>12, <2>15, RatesMayChange
  <2>17. NotifiedStep
    BY <2>7, <2>13 DEF NotifiedStep, Addresses
  <2> QED BY <2>16, <2>17
<1> QED
  BY <1>2, <1>3

(* The rates of a block hold for all of it.                                *)
LEMMA BlockPassesStep ==
  ASSUME IInv, BlockPasses
  PROVE  IInv' /\ NotifiedStep
<1>1. /\ now' = now + 1
      /\ selfMinted' = selfMinted + totalSelfMintingRate
      /\ issued' = issued + issuancePerBlock
      /\ told' = {}
      /\ UNCHANGED <<paused, issuancePerBlock, allocation, totalSelfMintingRate, defaultTarget>>
      /\ UNCHANGED <<targets, distribution, minted, unminted, lastChangeNotifiedBlock, retroactive>>
  BY DEF BlockPasses, rates, tokens
<1>2. /\ now \in Nat /\ LastBlock \in Nat /\ LastBlock > 0 /\ LastBlock <= now
      /\ issuancePerBlock \in Nat /\ totalSelfMintingRate \in Nat
      /\ Offset \in Nat /\ Tracked \in Nat /\ Pending \in Nat
      /\ TotalMinted \in Nat /\ selfMinted \in Nat /\ unminted \in Nat /\ issued \in Nat
      /\ totalSelfMintingRate <= issuancePerBlock /\ IssuanceRates \subseteq Nat
  BY BookTypes
<1>3. distribution.lastSelfMintingBlock \in 0 .. now
  BY DEF IInv, BlocksInOrder
<1>4. TypeOK'
  BY <1>1, <1>2 DEF IInv, TypeOK
<1>5. AllocationComplete'
  BY <1>1 DEF IInv, AllocationComplete, AllocatorRates, SelfRates
<1>6. LastBlock' = LastBlock /\ Offset' = Offset /\ TotalMinted' = TotalMinted
  BY <1>1 DEF LastBlock, Offset, TotalMinted
<1>7. Tracked' = Tracked + totalSelfMintingRate
  <2> DEFINE blocks == now - distribution.lastSelfMintingBlock
  <2>1. blocks \in Nat /\ (now + 1) - distribution.lastSelfMintingBlock = blocks + 1
    BY <1>2, <1>3
  <2>2. /\ Tracked = Offset + totalSelfMintingRate * blocks
        /\ Tracked' = Offset + totalSelfMintingRate * ((now + 1) - distribution.lastSelfMintingBlock)
    BY <1>1, <1>6 DEF Tracked
  <2> HIDE DEF blocks
  <2>3. /\ totalSelfMintingRate * (blocks + 1) = totalSelfMintingRate * blocks + totalSelfMintingRate
        /\ totalSelfMintingRate * blocks \in Nat
    BY <1>2, <2>1
  <2> QED BY <1>2, <2>1, <2>2, <2>3
<1>8. Pending' = Pending + issuancePerBlock
  <2> DEFINE blocks == now - LastBlock
  <2>1. blocks \in Nat /\ (now + 1) - LastBlock = blocks + 1
    BY <1>2
  <2>2. Pending = issuancePerBlock * blocks /\ Pending' = issuancePerBlock * ((now + 1) - LastBlock)
    BY <1>1, <1>6 DEF Pending
  <2> HIDE DEF blocks
  <2>3. issuancePerBlock * (blocks + 1) = issuancePerBlock * blocks + issuancePerBlock
    BY <1>2, <2>1
  <2> QED BY <2>1, <2>2, <2>3
<1>9. BlocksInOrder'
  BY <1>1, <1>2, <1>3, <1>6 DEF BlocksInOrder
<1>10. TrackedIsPending'
  <2>1. ~retroactive => Tracked <= Pending
    BY DEF IInv, TrackedIsPending
  <2> QED BY <1>1, <1>2, <1>7, <1>8, <2>1 DEF TrackedIsPending
<1>11. IssuanceAccounted'
  <2>1. ~retroactive => TotalMinted + selfMinted + unminted = issued - Pending + Tracked
    BY DEF IInv, IssuanceAccounted, Tracked, Pending, Offset, LastBlock
  <2>2. ~retroactive' => TotalMinted' + selfMinted' + unminted' = issued' - Pending' + Tracked'
    BY <1>1, <1>2, <1>6, <1>7, <1>8, <2>1
  <2> QED BY <2>2 DEF IssuanceAccounted, Tracked, Pending, Offset, LastBlock
<1>12. MintedUpToLastBlock'
  <2>1. selfMinted' - Tracked' = selfMinted - Tracked
    BY <1>1, <1>2, <1>7
  <2>2. /\ TotalMinted' + selfMinted' - Tracked' = TotalMinted' + (selfMinted' - Tracked')
        /\ TotalMinted + selfMinted - Tracked = TotalMinted + (selfMinted - Tracked)
    OBVIOUS
  <2> QED BY <1>6, <2>1, <2>2 DEF IInv, MintedUpToLastBlock, Highest
<1>13. IssuanceWithinHighest'
  <2>1. ASSUME NEW rate \in IssuanceRates, Highest(rate)
        PROVE  TotalMinted' + selfMinted' <= rate * (now' - 1)
    <3>1. TotalMinted + selfMinted <= rate * (now - 1)
      BY <2>1 DEF IInv, IssuanceWithinHighest, Highest
    <3>2. rate \in Nat /\ issuancePerBlock <= rate
      BY <2>1, BookTypes
    <3> DEFINE blocks == now - 1
    <3>3. blocks \in Nat /\ now' - 1 = blocks + 1
      BY <1>1, <1>2
    <3>4. TotalMinted + selfMinted <= rate * blocks
      BY <3>1
    <3> HIDE DEF blocks
    <3>5. rate * (blocks + 1) = rate * blocks + rate /\ rate * blocks \in Nat
      BY <3>2, <3>3
    <3>6. TotalMinted' + selfMinted' <= rate * (blocks + 1)
      BY <1>1, <1>2, <1>6, <3>2, <3>4, <3>5
    <3> QED BY <3>3, <3>6
  <2> QED BY <2>1 DEF IssuanceWithinHighest, Highest
<1> QED
  BY <1>1, <1>4, <1>5, <1>9, <1>10, <1>11, <1>12, <1>13 DEF IInv, NotifiedStep

-----------------------------------------------------------------------------
(* The invariant.                                                          *)

LEMMA Initial == Init => IInv
<1> SUFFICES ASSUME Init PROVE IInv
  OBVIOUS
<1>1. /\ now = 1 /\ paused = FALSE /\ issuancePerBlock = 0 /\ totalSelfMintingRate = 0
      /\ distribution = [lastDistributionBlock |-> 1, lastSelfMintingBlock |-> 0,
                         selfMintingOffset |-> 0]
      /\ allocation = [t \in Addresses |-> NoAllocation]
      /\ defaultTarget = NoTarget /\ targets = {}
      /\ lastChangeNotifiedBlock = [t \in Addresses |-> 0]
      /\ minted = [t \in Targets |-> 0] /\ unminted = 0 /\ selfMinted = 0 /\ issued = 0
      /\ retroactive = FALSE /\ told = {}
  BY DEF Init
<1>2. TypeOK
  <2>1. distribution \in DistributionType
    BY <1>1 DEF DistributionType
  <2>2. allocation \in [Addresses -> AllocationType] /\ defaultTarget \in Addresses
    BY <1>1 DEF AllocationType, NoAllocation, Addresses
  <2>3. lastChangeNotifiedBlock \in [Addresses -> Nat] /\ minted \in [Targets -> Nat]
    BY <1>1
  <2>4. paused \in BOOLEAN /\ retroactive \in BOOLEAN
    BY <1>1
  <2> QED BY <1>1, <2>1, <2>2, <2>3, <2>4 DEF TypeOK
<1>3. /\ Offset = 0 /\ LastBlock = 1 /\ distribution.lastSelfMintingBlock = 0
  BY <1>1 DEF Offset, LastBlock
<1>4. Tracked = 0 /\ Pending = 0
  BY <1>1, <1>3 DEF Tracked, Pending
<1>5. TotalMinted = 0
  <2>1. \A t \in Targets : minted[t] = 0
    BY <1>1
  <2> QED BY <2>1, AddressesFinite, SumZero DEF TotalMinted
<1>6. AllocationComplete
  <2> DEFINE f == [t \in Addresses |-> allocation[t].allocatorMintingRate]
             g == [t \in Addresses |-> allocation[t].selfMintingRate]
  <2>1. \A t \in Addresses : f[t] = 0 /\ g[t] = 0
    BY <1>1 DEF NoAllocation
  <2>2. AllocatorRates = SumFunctionOnSet(f, Addresses) /\ SelfRates = SumFunctionOnSet(g, Addresses)
    BY DEF AllocatorRates, SelfRates
  <2> HIDE DEF f, g
  <2>3. AllocatorRates = 0 /\ SelfRates = 0
    BY <2>1, <2>2, AddressesFinite, SumZero
  <2>4. allocation[defaultTarget].selfMintingRate = 0
    BY <1>1 DEF NoAllocation, Addresses
  <2>5. targets = {t \in Addresses : allocation[t] # NoAllocation} \ {defaultTarget}
    BY <1>1
  <2> QED BY <1>1, <2>3, <2>4, <2>5 DEF AllocationComplete
<1>7. BlocksInOrder
  BY <1>1, <1>3 DEF BlocksInOrder
<1>8. TrackedIsPending
  BY <1>4 DEF TrackedIsPending
<1>9. IssuanceAccounted
  <2>1. TotalMinted + selfMinted + unminted = issued - Pending + Tracked
    BY <1>1, <1>4, <1>5
  <2> QED BY <2>1 DEF IssuanceAccounted, Tracked, Pending, Offset, LastBlock
<1>10. \A rate \in IssuanceRates : rate * (1 - 1) = 0
  BY IssuanceAssumption
<1>11. IssuanceWithinHighest
  BY <1>1, <1>5, <1>10 DEF IssuanceWithinHighest
<1>12. MintedUpToLastBlock
  BY <1>1, <1>3, <1>4, <1>5, <1>10 DEF MintedUpToLastBlock
<1> QED
  BY <1>1, <1>2, <1>6, <1>7, <1>8, <1>9, <1>11, <1>12 DEF IInv

LEMMA Step == IInv /\ [Next]_vars => IInv' /\ NotifiedStep
<1> SUFFICES ASSUME IInv, [Next]_vars
             PROVE  IInv' /\ NotifiedStep
  OBVIOUS
<1>1. /\ allocation \in [Addresses -> AllocationType] /\ lastChangeNotifiedBlock \in [Addresses -> Nat]
      /\ told \subseteq Targets
  BY DEF IInv, TypeOK
<1>2. SettingTypes
  BY DEF IInv, TypeOK, SettingTypes
<1>3. CASE DistributeIssuance
  <2>1. Distribute /\ UNCHANGED <<now, paused, rates, notices, histories>>
    BY <1>3 DEF DistributeIssuance
  <2>2. Distributed
    BY <2>1, DistributeDone DEF histories
  <2> QED BY <2>1, <2>2, NotYetStep
<1>4. ASSUME NEW toBlock, DistributePendingIssuance(toBlock)
      PROVE  IInv' /\ NotifiedStep
  <2>1. DistributePending(toBlock) /\ UNCHANGED <<now, paused, rates, notices, histories>>
    BY <1>4 DEF DistributePendingIssuance
  <2>2. Distributed
    BY <2>1, PendingDistributed DEF histories
  <2> QED BY <2>1, <2>2, NotYetStep
<1>5. ASSUME NEW t \in Addresses, NotifyTarget(t)
      PROVE  IInv' /\ NotifiedStep
  <2>1. Notify({t}, {}) /\ UNCHANGED <<now, paused, rates, tokens, histories>>
    BY <1>5 DEF NotifyTarget
  <2>2. lastChangeNotifiedBlock' \in [Addresses -> Nat] /\ told' \subseteq Targets
    BY <2>1, Notified
  <2>3. SettingTypes' /\ allocation' = allocation
    BY <1>2, <2>1, <2>2 DEF SettingTypes, rates, histories
  <2> QED BY <2>1, <2>3, BooksUntouched DEF NotifiedStep
<1>6. ASSUME NEW t \in Targets, NEW block \in ForcedBlocks,
             ForceTargetNoChangeNotificationBlock(t, block)
      PROVE  IInv' /\ NotifiedStep
  <2>1. UNCHANGED <<now, paused, rates, tokens, histories>> /\ told' = told
    BY <1>6 DEF ForceTargetNoChangeNotificationBlock
  <2>2. lastChangeNotifiedBlock' \in [Addresses -> Nat]
    BY <1>1, <1>6, IssuanceAssumption DEF ForceTargetNoChangeNotificationBlock
  <2>3. SettingTypes' /\ allocation' = allocation
    BY <1>2, <2>1, <2>2 DEF SettingTypes, rates, histories
  <2> QED BY <2>1, <2>3, BooksUntouched DEF NotifiedStep
<1>7. ASSUME NEW min, GovernorChanges(min)
      PROVE  IInv' /\ NotifiedStep
  <2>1. CASE \E new \in IssuanceRates : SetIssuancePerBlock(new, min)
    BY <2>1, SetIssuanceStep
  <2>2. CASE \E t \in Targets : \E new \in [allocatorMintingRate : TargetRates,
                                            selfMintingRate : TargetRates] :
               SetTargetAllocation(t, new, min)
    <3>1. [allocatorMintingRate : TargetRates, selfMintingRate : TargetRates] \subseteq AllocationType
      BY IssuanceAssumption DEF AllocationType
    <3> QED BY <2>2, <3>1, SetTargetAllocationStep
  <2>3. CASE \E t \in Addresses : SetDefaultTarget(t, min)
    BY <2>3, SetDefaultTargetStep
  <2> QED BY <1>7, <2>1, <2>2, <2>3 DEF GovernorChanges
<1>8. CASE PauseOrUnpause
  <2>1. /\ UNCHANGED <<now, rates, tokens, notices, histories>>
        /\ paused' = ~paused
    BY <1>8 DEF PauseOrUnpause
  <2>2. paused' \in BOOLEAN
    BY <2>1
  <2>3. SettingTypes' /\ allocation' = allocation
    BY <1>2, <2>1, <2>2 DEF SettingTypes, rates, histories, notices
  <2> QED BY <2>1, <2>3, BooksUntouched DEF NotifiedStep
<1>9. CASE BlockPasses
  BY <1>9, BlockPassesStep
<1>10. CASE UNCHANGED vars
  <2>1. UNCHANGED <<now, paused, rates, tokens, notices, histories>>
    BY <1>10 DEF vars
  <2>2. SettingTypes' /\ allocation' = allocation
    BY <1>2, <2>1 DEF SettingTypes, rates, histories, notices
  <2> QED BY <2>1, <2>2, BooksUntouched DEF NotifiedStep
<1> QED
  BY <1>3, <1>4, <1>5, <1>6, <1>7, <1>8, <1>9, <1>10 DEF Next

-----------------------------------------------------------------------------
(* What follows for every behaviour.                                       *)

(* The invariant holds in every reachable state.                           *)
THEOREM IssuanceInvariance == Spec => []IInv
<1>1. IInv /\ [Next]_vars => IInv'
  BY Step
<1> QED
  BY Initial, <1>1, PTL DEF Spec

(* AllocationComplete for any targets and rates: all issuance is           *)
(* allocated, and the totals are those of the listed targets.              *)
THEOREM AllocationCompleteAlways == Spec => []AllocationComplete
<1>1. IInv => AllocationComplete
  BY DEF IInv
<1> QED
  BY <1>1, IssuanceInvariance, PTL

(* IssuanceConsistent for any targets and rates: every issued token is     *)
(* accounted for, and never more is minted than the highest rate issues.   *)
THEOREM IssuanceConsistentAlways == Spec => []IssuanceConsistent
<1>1. IInv => IssuanceConsistent
  BY DEF IInv, IssuanceConsistent
<1> QED
  BY <1>1, IssuanceInvariance, PTL

(* NotifiedBeforeChange for any targets and rates: no target's rate        *)
(* changes in a block in which it was not told, unless it was silenced.    *)
THEOREM NotifiedBeforeChangeTheorem == Spec => NotifiedBeforeChange
<1>1. IInv /\ [Next]_vars => [NotifiedStep]_vars
  BY Step
<1>2. NotifiedBeforeChange <=> [][NotifiedStep]_vars
  BY DEF NotifiedBeforeChange, NotifiedStep
<1> QED
  BY <1>1, <1>2, IssuanceInvariance, PTL DEF Spec
=============================================================================
