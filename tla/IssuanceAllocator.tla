------------------------- MODULE IssuanceAllocator -------------------------
(***************************************************************************)
(* IssuanceAllocator shares out the tokens issued per block.  Every target *)
(* has a rate at which the allocator mints for it, and a rate at which it  *)
(* mints for itself; the default target takes what the others leave, so    *)
(* that all issuance is always allocated.                                  *)
(*                                                                         *)
(* What the allocator mints lags behind: it is distributed when somebody   *)
(* calls, and not while the contract is paused, unless the governor asks   *)
(* for it, up to a block of the governor's choice.  What targets mint      *)
(* themselves runs on, and is deducted later through an offset.            *)
(*                                                                         *)
(* A target that is notified may call distributeIssuance back.  That is an *)
(* action of its own here: the callback comes after the caller distributed *)
(* and before it changes a rate, so it has nothing left to do.             *)
(***************************************************************************)
EXTENDS Integers, FiniteSets, Functions

CONSTANTS
  Targets,                \* addresses that support IIssuanceTarget
  NoTarget,               \* address(0), the first default target
  IssuanceRates,          \* rates that the governor may set, per block
  TargetRates,            \* rates of targets
  ForcedBlocks,           \* blocks that the governor may force as a target's last notice
  MaxBlock                \* bound on the block number

ASSUME IssuanceAssumption ==
  /\ IsFiniteSet(Targets) /\ NoTarget \notin Targets
  /\ IssuanceRates \subseteq Nat /\ TargetRates \subseteq Nat
  /\ ForcedBlocks \subseteq Nat /\ MaxBlock \in Nat \ {0}

Addresses == Targets \cup {NoTarget}

VARIABLES
  now,                    \* block.number
  paused,
  issuancePerBlock,
  distribution,           \* how far issuance is distributed
  allocation,             \* the two rates of every address
  totalSelfMintingRate,
  defaultTarget,          \* targetAddresses[0]
  targets,                \* targetAddresses from 1 on
  lastChangeNotifiedBlock,\* by address
  minted,                 \* tokens minted for every target
  unminted,               \* history: available for distribution, but not minted
  selfMinted,             \* history: what targets were to mint themselves
  issued,                 \* history: the issuance of all blocks so far
  retroactive,            \* history: issuance was changed for blocks gone by
  told                    \* history: the targets notified in this block

rates == <<issuancePerBlock, allocation, totalSelfMintingRate, defaultTarget, targets>>
tokens == <<distribution, minted, unminted>>
notices == <<lastChangeNotifiedBlock, told>>
histories == <<selfMinted, issued, retroactive>>
vars == <<now, paused, rates, tokens, notices, histories>>

AllocationType == [allocatorMintingRate : Nat, selfMintingRate : Nat]
NoAllocation == [allocatorMintingRate |-> 0, selfMintingRate |-> 0]

DistributionType ==
  [lastDistributionBlock : Nat, lastSelfMintingBlock : Nat, selfMintingOffset : Nat]

Init ==
  /\ now = 1
  /\ paused = FALSE
  /\ issuancePerBlock = 0
  /\ distribution = [lastDistributionBlock |-> 1, lastSelfMintingBlock |-> 0,
                     selfMintingOffset |-> 0]
  /\ allocation = [t \in Addresses |-> NoAllocation]
  /\ totalSelfMintingRate = 0
  /\ defaultTarget = NoTarget
  /\ targets = {}
  /\ lastChangeNotifiedBlock = [t \in Addresses |-> 0]
  /\ minted = [t \in Targets |-> 0]
  /\ unminted = 0 /\ selfMinted = 0 /\ issued = 0
  /\ retroactive = FALSE
  /\ told = {}

-----------------------------------------------------------------------------
(* Distribution.                                                           *)

AdvanceSelfMinting(d) ==
  [d EXCEPT !.selfMintingOffset    = @ + totalSelfMintingRate * (now - d.lastSelfMintingBlock),
            !.lastSelfMintingBlock = now]

TotalForPeriod(d, toBlock) == issuancePerBlock * (toBlock - d.lastDistributionBlock)

(* What is left of the issuance of a period for the allocator to mint.     *)
Available(d, toBlock) ==
  IF d.selfMintingOffset < TotalForPeriod(d, toBlock)
  THEN TotalForPeriod(d, toBlock) - d.selfMintingOffset ELSE 0

OffsetAfter(d, toBlock) ==
  IF toBlock = now \/ d.selfMintingOffset <= TotalForPeriod(d, toBlock) THEN 0
  ELSE d.selfMintingOffset - TotalForPeriod(d, toBlock)

(* The rate of all targets but the default one.                            *)
AllocatedRate ==
  issuancePerBlock - totalSelfMintingRate - allocation[defaultTarget].allocatorMintingRate

(* Targets get their full rates and the default target the rest; if there  *)
(* is not enough for that, they share what there is, rounded down.         *)
Amount(t, available, blocks) ==
  LET rate == allocation[t].allocatorMintingRate
      allocated == AllocatedRate * blocks
  IN  CASE t \in targets /\ available < allocated  -> (available * rate) \div AllocatedRate
        [] t \in targets /\ available >= allocated -> rate * blocks
        [] t = defaultTarget /\ available > allocated -> available - allocated
        [] OTHER -> 0

DistributePending(toBlock) ==
  LET d         == AdvanceSelfMinting(distribution)
      available == Available(d, toBlock)
      blocks    == toBlock - d.lastDistributionBlock
      amount    == [t \in Targets |-> Amount(t, available, blocks)]
  IN  /\ toBlock \in d.lastDistributionBlock .. now
      /\ distribution' = IF blocks = 0 THEN d
                         ELSE [d EXCEPT !.lastDistributionBlock = toBlock,
                                        !.selfMintingOffset = OffsetAfter(d, toBlock)]
      /\ minted' = [t \in Targets |-> minted[t] + amount[t]]
      /\ unminted' = unminted + available - SumFunctionOnSet(amount, Targets)

(* Mutant: nothing at all happens while paused.                            *)
Distribute_FrozenWhilePaused ==
  IF paused THEN UNCHANGED tokens ELSE DistributePending(now)

(* What every change of rates begins with.                                 *)
Distribute ==
  IF paused
  THEN distribution' = AdvanceSelfMinting(distribution) /\ UNCHANGED <<minted, unminted>>
  ELSE DistributePending(now)

DistributeIssuance ==
  /\ distribution.lastDistributionBlock # now
  /\ Distribute
  /\ UNCHANGED <<now, paused, rates, notices, histories>>

(* The governor may distribute while paused, and up to an earlier block.   *)
DistributePendingIssuance(toBlock) ==
  /\ DistributePending(toBlock)
  /\ UNCHANGED <<now, paused, rates, notices, histories>>

(* Whether a call that has just distributed may go on to change rates.     *)
Reached(minDistributedBlock) ==
  minDistributedBlock <= distribution'.lastDistributionBlock

-----------------------------------------------------------------------------
(* Notifications: once per block, and none for address(0).  The block is   *)
(* deleted with the data of an address that loses its allocation.          *)

IsNotified(t) == t # NoTarget /\ lastChangeNotifiedBlock[t] < now

Notify(asked, deleted) ==
  /\ lastChangeNotifiedBlock' = [t \in Addresses |->
       IF t \in deleted THEN 0
       ELSE IF t \in asked /\ IsNotified(t) THEN now ELSE lastChangeNotifiedBlock[t]]
  /\ told' = told \cup {t \in asked : IsNotified(t)}

NotifyTarget(t) ==
  /\ Notify({t}, {})
  /\ UNCHANGED <<now, paused, rates, tokens, histories>>

ForceTargetNoChangeNotificationBlock(t, block) ==
  /\ lastChangeNotifiedBlock' = [lastChangeNotifiedBlock EXCEPT ![t] = block]
  /\ UNCHANGED <<now, paused, rates, tokens, histories, told>>

-----------------------------------------------------------------------------
(* Changes of rates.  A call that has not distributed far enough returns   *)
(* without changing any.                                                   *)

NotYet == UNCHANGED <<rates, notices, histories>>

(* The default target takes the difference, and alone is notified.         *)
SetIssuancePerBlock(new, minDistributedBlock) ==
  LET unallocated == allocation[defaultTarget].allocatorMintingRate
  IN  /\ new # issuancePerBlock
      /\ Distribute
      /\ IF ~Reached(minDistributedBlock) THEN NotYet
         ELSE /\ issuancePerBlock <= new + unallocated
              /\ Notify({defaultTarget}, {})
              /\ issuancePerBlock' = new
              /\ allocation' = [allocation EXCEPT ![defaultTarget].allocatorMintingRate =
                                  unallocated + new - issuancePerBlock]
              /\ retroactive' = (retroactive \/ distribution'.lastDistributionBlock < now)
              /\ UNCHANGED <<totalSelfMintingRate, defaultTarget, targets, selfMinted, issued>>
      /\ UNCHANGED <<now, paused>>

(* Mutant: what the target mints itself is not given back.                 *)
AvailableRate_MintingOnly(t) ==
  allocation[defaultTarget].allocatorMintingRate + allocation[t].allocatorMintingRate

(* The rate that may be given to a target.                                 *)
AvailableRate(t) ==
  allocation[defaultTarget].allocatorMintingRate
    + allocation[t].allocatorMintingRate + allocation[t].selfMintingRate

(* A target whose rates become zero is removed.                            *)
SetTargetAllocation(t, new, minDistributedBlock) ==
  LET rate    == new.allocatorMintingRate + new.selfMintingRate
      removed == IF new = NoAllocation THEN {t} ELSE {}
  IN  /\ t # defaultTarget
      /\ allocation[t] # new
      /\ Distribute
      /\ IF ~Reached(minDistributedBlock) THEN NotYet
         ELSE /\ rate <= AvailableRate(t)
              /\ Notify({t, defaultTarget}, removed)
              /\ allocation' = [allocation EXCEPT ![t] = new,
                   ![defaultTarget].allocatorMintingRate = AvailableRate(t) - rate]
              /\ totalSelfMintingRate' =
                   totalSelfMintingRate - allocation[t].selfMintingRate + new.selfMintingRate
              /\ targets' = (targets \cup {t}) \ removed
              /\ UNCHANGED <<issuancePerBlock, defaultTarget, histories>>
      /\ UNCHANGED <<now, paused>>

(* Mutant: the address that loses the allocation is not told.              *)
SetDefaultTarget_TellsNewOnly(new, minDistributedBlock) ==
  /\ new # defaultTarget /\ new \notin targets
  /\ Distribute
  /\ IF ~Reached(minDistributedBlock) THEN NotYet
     ELSE /\ Notify({new}, {defaultTarget})
          /\ defaultTarget' = new
          /\ allocation' = [allocation EXCEPT ![new] = allocation[defaultTarget],
                                              ![defaultTarget] = NoAllocation]
          /\ UNCHANGED <<issuancePerBlock, totalSelfMintingRate, targets, histories>>
  /\ UNCHANGED <<now, paused>>

(* The new default target takes over the rates of the old one.             *)
SetDefaultTarget(new, minDistributedBlock) ==
  /\ new # defaultTarget /\ new \notin targets
  /\ Distribute
  /\ IF ~Reached(minDistributedBlock) THEN NotYet
     ELSE /\ Notify({defaultTarget, new}, {defaultTarget})
          /\ defaultTarget' = new
          /\ allocation' = [allocation EXCEPT ![new] = allocation[defaultTarget],
                                              ![defaultTarget] = NoAllocation]
          /\ UNCHANGED <<issuancePerBlock, totalSelfMintingRate, targets, histories>>
  /\ UNCHANGED <<now, paused>>

-----------------------------------------------------------------------------
PauseOrUnpause ==
  /\ paused' = ~paused
  /\ UNCHANGED <<now, rates, tokens, notices, histories>>

(* The rates at the end of a block are those of the next one.              *)
BlockPasses ==
  /\ now < MaxBlock
  /\ now' = now + 1
  /\ selfMinted' = selfMinted + totalSelfMintingRate
  /\ issued' = issued + issuancePerBlock
  /\ told' = {}
  /\ UNCHANGED <<paused, rates, tokens, lastChangeNotifiedBlock, retroactive>>

(* A minimum of the current block, the default, asks for all that is       *)
(* pending to be distributed; 0 asks for nothing.                          *)
GovernorChanges(minDistributedBlock) ==
  \/ \E new \in IssuanceRates : SetIssuancePerBlock(new, minDistributedBlock)
  \/ \E t \in Targets : \E new \in [allocatorMintingRate : TargetRates,
                                    selfMintingRate : TargetRates] :
       SetTargetAllocation(t, new, minDistributedBlock)
  \/ \E t \in Addresses : SetDefaultTarget(t, minDistributedBlock)

Next ==
  \/ DistributeIssuance
  \/ \E toBlock \in 0 .. MaxBlock : DistributePendingIssuance(toBlock)
  \/ \E t \in Addresses : NotifyTarget(t)
  \/ \E t \in Targets, block \in ForcedBlocks : ForceTargetNoChangeNotificationBlock(t, block)
  \/ \E minDistributedBlock \in {0, now} : GovernorChanges(minDistributedBlock)
  \/ PauseOrUnpause
  \/ BlockPasses

Spec == Init /\ [][Next]_vars

-----------------------------------------------------------------------------
(* Invariants.                                                             *)

TypeOK ==
  /\ now \in Nat /\ paused \in BOOLEAN
  /\ issuancePerBlock \in Nat /\ totalSelfMintingRate \in Nat
  /\ distribution \in DistributionType
  /\ allocation \in [Addresses -> AllocationType]
  /\ defaultTarget \in Addresses /\ targets \subseteq Targets
  /\ lastChangeNotifiedBlock \in [Addresses -> Nat]
  /\ minted \in [Targets -> Nat] /\ unminted \in Nat
  /\ selfMinted \in Nat /\ issued \in Nat /\ retroactive \in BOOLEAN
  /\ told \subseteq Targets

AllocatorRates == SumFunctionOnSet([t \in Addresses |-> allocation[t].allocatorMintingRate], Addresses)
SelfRates == SumFunctionOnSet([t \in Addresses |-> allocation[t].selfMintingRate], Addresses)

(* All issuance is allocated, no more and no less, and the list of targets *)
(* is that of the addresses with an allocation: what distribution computes *)
(* from totals is what it mints target by target.                          *)
AllocationComplete ==
  /\ AllocatorRates + SelfRates = issuancePerBlock
  /\ SelfRates = totalSelfMintingRate
  /\ allocation[defaultTarget].selfMintingRate = 0
  /\ targets = {t \in Addresses : allocation[t] # NoAllocation} \ {defaultTarget}

TotalMinted == SumFunctionOnSet(minted, Targets)

(* Every issued token is accounted for: it was minted, by the allocator or *)
(* a target, or dropped when distributed (no default target, rounding), or *)
(* is still to be distributed.  So nothing is minted twice or lost by any  *)
(* sequence of pauses, partial distributions and changes of rates, unless  *)
(* issuancePerBlock is changed for blocks that are not yet distributed.    *)
IssuanceAccounted ==
  ~retroactive =>
    LET pending == issuancePerBlock * (now - distribution.lastDistributionBlock)
        tracked == distribution.selfMintingOffset
                     + totalSelfMintingRate * (now - distribution.lastSelfMintingBlock)
    IN  TotalMinted + selfMinted + unminted = issued - pending + tracked

(* Also when it is, targets and allocator together never mint more than    *)
(* the highest rate the governor sets would have issued.                   *)
IssuanceWithinHighest ==
  \A rate \in IssuanceRates :
    (\A r \in IssuanceRates : r <= rate) => TotalMinted + selfMinted <= rate * (now - 1)

(* The books of the issuance.                                              *)
IssuanceConsistent == TypeOK /\ IssuanceAccounted /\ IssuanceWithinHighest

-----------------------------------------------------------------------------
(* Action properties.                                                      *)

(* A target is told before a rate of its own changes, in the same block,   *)
(* unless the governor silenced it: it can settle at the old rate first.   *)
NotifiedBeforeChange ==
  [][ \A t \in Targets :
        allocation'[t] # allocation[t] =>
          t \in told' \/ lastChangeNotifiedBlock[t] >= now ]_vars
=============================================================================
