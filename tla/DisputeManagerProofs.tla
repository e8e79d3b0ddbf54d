------------------------ MODULE DisputeManagerProofs ------------------------
(***************************************************************************)
(* The deposits and the links of disputes, proved for any number of        *)
(* disputes, fishermen and indexers and any parameters.                    *)
(*                                                                         *)
(* A call may resolve two disputes, one after the other, so what a         *)
(* resolution preserves is stated of the books as a value: Sound(b).       *)
(***************************************************************************)
EXTENDS DisputeManager, SumTheorems

-----------------------------------------------------------------------------
(* The inductive invariant.                                                *)

DisputesType == [DisputeIds -> DisputeType \cup {NullDispute}]

BooksType == [disputes : DisputesType, balance : Nat, funds : [Fishermen -> Nat],
              stakes : [Indexers -> StakeType], rewarded : [Fishermen -> Nat]]

DepositIn(d) == [id \in DisputeIds |-> IF d[id].status # "Null" THEN d[id].deposit ELSE 0]
PendingIn(d) == {id \in DisputeIds : d[id].status = "Pending"}
UnreturnedIn(d, f) == {id \in DisputeIds : /\ d[id].status \in {"Pending", "Rejected"}
                                           /\ d[id].fisherman = f}

Pending(d) == SumFunctionOnSet(DepositIn(d), PendingIn(d))
Unreturned(d, f) == SumFunctionOnSet(DepositIn(d), UnreturnedIn(d, f))
LeftOvers == SumFunctionOnSet(leftOver, Fishermen)

(* DepositsAccounted of given books.                                       *)
Sound(b) ==
  /\ b \in BooksType
  /\ b.balance = Pending(b.disputes) + LeftOvers
  /\ \A f \in Fishermen :
       b.funds[f] + Unreturned(b.disputes, f) + leftOver[f] = FishermanFunds + b.rewarded[f]

(* LinkedResolvedTogether of given disputes.                               *)
Linked(d, id, related) ==
  /\ d[related].status # "Null" /\ d[related].relatedDisputeId = id
  /\ AreConflicting(id, related)
  /\ d[related].fisherman = d[id].fisherman
  /\ d[id].status # "Rejected"
  /\ d[id].status = "Pending" <=> d[related].status = "Pending"
  /\ d[id].status = "Cancelled" <=> d[related].status = "Cancelled"

AllLinked(d) ==
  \A id \in DisputeIds :
    d[id].status # "Null" /\ d[id].relatedDisputeId # NoDispute =>
      Linked(d, id, d[id].relatedDisputeId)

IInv == TypeOK /\ DepositsBacked /\ DepositsReturnedOnce /\ LinkedResolvedTogether

LEMMA LinkedIsAllLinked == LinkedResolvedTogether <=> AllLinked(disputes)
BY DEF LinkedResolvedTogether, AllLinked, Linked, IsDisputeCreated, IsDisputeInConflict

LEMMA LinkedNext == LinkedResolvedTogether' <=> AllLinked(disputes')
BY DEF LinkedResolvedTogether, AllLinked, Linked, IsDisputeCreated, IsDisputeInConflict,
       AreConflicting

(* The types beside the books.                                             *)
SettingTypes ==
  /\ now \in Nat /\ parameters \in ParametersType
  /\ subgraphServiceSet \in BOOLEAN /\ delegationSlashing \in BOOLEAN /\ paused \in BOOLEAN
  /\ disputable \subseteq FeeDisputes /\ leftOver \in [Fishermen -> Nat]

LEMMA TypesOfBooks == TypeOK <=> SettingTypes /\ Books \in BooksType
<1>1. Books \in BooksType <=>
        /\ disputes \in DisputesType /\ balance \in Nat /\ funds \in [Fishermen -> Nat]
        /\ stakes \in [Indexers -> StakeType] /\ rewarded \in [Fishermen -> Nat]
  BY DEF Books, BooksType
<1>2. {subgraphServiceSet, delegationSlashing, paused} \subseteq BOOLEAN <=>
        subgraphServiceSet \in BOOLEAN /\ delegationSlashing \in BOOLEAN /\ paused \in BOOLEAN
  BY Zenon
<1> QED
  BY <1>1, <1>2 DEF TypeOK, SettingTypes, DisputesType

LEMMA InvIsSound == IInv <=> SettingTypes /\ Sound(Books) /\ AllLinked(disputes)
<1>1. /\ Books.disputes = disputes /\ Books.balance = balance /\ Books.funds = funds
      /\ Books.stakes = stakes /\ Books.rewarded = rewarded
  BY DEF Books
<1>2. DepositsBacked <=> balance = Pending(disputes) + LeftOvers
  BY DEF DepositsBacked, Pending, DepositIn, PendingIn, LeftOvers, DepositsOf, IsDisputeCreated,
         IsPending
<1>3. DepositsReturnedOnce <=>
        \A f \in Fishermen :
          funds[f] + Unreturned(disputes, f) + leftOver[f] = FishermanFunds + rewarded[f]
  BY DEF DepositsReturnedOnce, Unreturned, DepositIn, UnreturnedIn, DepositsOf, IsDisputeCreated
<1> QED
  BY <1>1, <1>2, <1>3, TypesOfBooks, LinkedIsAllLinked DEF IInv, Sound

-----------------------------------------------------------------------------
(* Sums of deposits.                                                       *)

LEMMA DepositTypes ==
  ASSUME NEW d \in DisputesType
  PROVE  /\ \A id \in DisputeIds : DepositIn(d)[id] \in Nat
         /\ Pending(d) \in Nat
         /\ \A f \in Fishermen : Unreturned(d, f) \in Nat
<1>1. \A id \in DisputeIds : DepositIn(d)[id] \in Nat
  <2> SUFFICES ASSUME NEW id \in DisputeIds
               PROVE  DepositIn(d)[id] \in Nat
    OBVIOUS
  <2>1. d[id] \in DisputeType \/ d[id] = NullDispute
    BY DEF DisputesType
  <2> QED BY <2>1 DEF DepositIn, DisputeType, NullDispute
<1>2. IsFiniteSet(PendingIn(d)) /\ \A f \in Fishermen : IsFiniteSet(UnreturnedIn(d, f))
  <2>1. PendingIn(d) \subseteq DisputeIds /\ \A f \in Fishermen : UnreturnedIn(d, f) \subseteq DisputeIds
    BY DEF PendingIn, UnreturnedIn
  <2> QED BY <2>1, DisputeAssumption, FS_Subset
<1>3. Pending(d) \in Nat
  <2>1. \A id \in PendingIn(d) : DepositIn(d)[id] \in Nat
    BY <1>1 DEF PendingIn
  <2> QED BY <1>2, <2>1, SumType DEF Pending
<1>4. ASSUME NEW f \in Fishermen PROVE Unreturned(d, f) \in Nat
  <2>1. \A id \in UnreturnedIn(d, f) : DepositIn(d)[id] \in Nat
    BY <1>1 DEF UnreturnedIn
  <2> QED BY <1>2, <2>1, SumType DEF Unreturned
<1> QED
  BY <1>1, <1>3, <1>4

Resolved(d, id, status) == [d EXCEPT ![id].status = status]
Created(d, id, new) == [d EXCEPT ![id] = new]

(* The fisherman of a resolved dispute gets its deposit back, unless it is *)
(* rejected; the fisherman of a new one gives it.                          *)
GivesBack(d, e, id, status) ==
  \A f \in Fishermen :
    Unreturned(d, f) = Unreturned(e, f)
      + IF f = d[id].fisherman /\ status # "Rejected" THEN d[id].deposit ELSE 0

(* Nothing else of the disputes changes.                                   *)
LinksKept(d, e, id, status) ==
  /\ \A other \in DisputeIds \ {id} : e[other] = d[other]
  /\ e[id].status = status
  /\ e[id].fisherman = d[id].fisherman /\ e[id].relatedDisputeId = d[id].relatedDisputeId

Takes(d, e, new) ==
  \A f \in Fishermen :
    Unreturned(e, f) = Unreturned(d, f) + IF f = new.fisherman THEN new.deposit ELSE 0

(* A pending dispute ends: its deposit is no longer pending, and is        *)
(* returned to its fisherman unless it is rejected.                        *)
LEMMA DisputeEnds ==
  ASSUME NEW d \in DisputesType, NEW id \in DisputeIds, d[id].status = "Pending",
         NEW status \in {"Accepted", "Rejected", "Drawn", "Cancelled"}
  PROVE  LET e == Resolved(d, id, status)
         IN  /\ e \in DisputesType /\ d[id] \in DisputeType
             /\ Pending(d) = Pending(e) + d[id].deposit
             /\ GivesBack(d, e, id, status)
             /\ LinksKept(d, e, id, status)
<1> DEFINE e == Resolved(d, id, status)
           F == DepositIn(d)
           G == DepositIn(e)
<1>1. d[id] \in DisputeType
  BY DEF DisputesType, NullDispute
<1>2. /\ e[id] = [d[id] EXCEPT !.status = status]
      /\ \A other \in DisputeIds \ {id} : e[other] = d[other]
      /\ e \in [DisputeIds -> DisputeType \cup {NullDispute}]
  BY <1>1 DEF DisputesType, DisputeType, Resolved
<1>3. /\ e[id].status = status /\ e[id].deposit = d[id].deposit
      /\ e[id].fisherman = d[id].fisherman /\ e[id] \in DisputeType
  BY <1>1, <1>2 DEF DisputeType
<1>4. e \in DisputesType
  BY <1>2 DEF DisputesType
<1>9. /\ \A other \in DisputeIds : e[other].status = "Pending" <=>
                                  d[other].status = "Pending" /\ other # id
      /\ status # "Rejected" => \A other \in DisputeIds :
           e[other].status \in {"Pending", "Rejected"} <=>
             d[other].status \in {"Pending", "Rejected"} /\ other # id
      /\ status = "Rejected" => \A other \in DisputeIds :
           e[other].status \in {"Pending", "Rejected"} <=>
             d[other].status \in {"Pending", "Rejected"}
      /\ \A other \in DisputeIds : e[other].fisherman = d[other].fisherman
      /\ e[id].relatedDisputeId = d[id].relatedDisputeId
  BY <1>1, <1>2, <1>3 DEF DisputeType
<1>5. /\ \A other \in DisputeIds : G[other] = F[other]
      /\ F[id] = d[id].deposit
  BY <1>2, <1>3 DEF DepositIn
<1>6. \A other \in DisputeIds : F[other] \in Int
  BY DepositTypes
<1> HIDE DEF e, F, G
<1>7. Pending(d) = Pending(e) + d[id].deposit
  <2>1. PendingIn(e) = PendingIn(d) \ {id} /\ id \in PendingIn(d) /\ PendingIn(d) \subseteq DisputeIds
    BY <1>9 DEF PendingIn
  <2>2. IsFiniteSet(PendingIn(d))
    BY <2>1, DisputeAssumption, FS_Subset
  <2>3. /\ \A other \in PendingIn(d) : F[other] \in Int
        /\ \A other \in PendingIn(d) \ {id} : G[other] = F[other]
    BY <1>5, <1>6, <2>1
  <2>4. SumFunctionOnSet(F, PendingIn(d)) =
         SumFunctionOnSet(G, PendingIn(d) \ {id}) + F[id]
    <3> DEFINE T == PendingIn(d)
    <3>1. /\ IsFiniteSet(T) /\ id \in T /\ \A other \in T : F[other] \in Int
          /\ \A other \in T \ {id} : G[other] = F[other]
      BY <2>1, <2>2, <2>3
    <3> HIDE DEF T
    <3>2. SumFunctionOnSet(F, T) = SumFunctionOnSet(G, T \ {id}) + F[id]
      BY <3>1, SumGains
    <3> QED BY <3>2 DEF T
  <2> QED BY <1>5, <2>1, <2>4 DEF Pending, F, G
<1>8. ASSUME NEW f \in Fishermen
      PROVE  Unreturned(d, f) = Unreturned(e, f)
               + IF f = d[id].fisherman /\ status # "Rejected" THEN d[id].deposit ELSE 0
  <2>1. UnreturnedIn(d, f) \subseteq DisputeIds /\ UnreturnedIn(e, f) \subseteq DisputeIds
    BY DEF UnreturnedIn
  <2>2. IsFiniteSet(UnreturnedIn(d, f)) /\ IsFiniteSet(UnreturnedIn(e, f))
    BY <2>1, DisputeAssumption, FS_Subset
  <2>3. CASE f = d[id].fisherman /\ status # "Rejected"
    <3>1. UnreturnedIn(e, f) = UnreturnedIn(d, f) \ {id} /\ id \in UnreturnedIn(d, f)
      BY <1>9, <2>3 DEF UnreturnedIn
    <3>2. /\ \A other \in UnreturnedIn(d, f) : F[other] \in Int
          /\ \A other \in UnreturnedIn(d, f) \ {id} : G[other] = F[other]
      BY <1>5, <1>6, <2>1
    <3>3. Unreturned(d, f) = Unreturned(e, f) + F[id]
      <4>1. SumFunctionOnSet(F, UnreturnedIn(d, f)) =
             SumFunctionOnSet(G, UnreturnedIn(d, f) \ {id}) + F[id]
        <5> DEFINE T == UnreturnedIn(d, f)
        <5>1. /\ IsFiniteSet(T) /\ id \in T /\ \A other \in T : F[other] \in Int
              /\ \A other \in T \ {id} : G[other] = F[other]
          BY <2>2, <3>1, <3>2
        <5> HIDE DEF T
        <5>2. SumFunctionOnSet(F, T) = SumFunctionOnSet(G, T \ {id}) + F[id]
          BY <5>1, SumGains
        <5> QED BY <5>2 DEF T
      <4> QED BY <3>1, <4>1 DEF Unreturned, F, G
    <3> QED BY <1>5, <2>3, <3>3
  <2>4. CASE ~(f = d[id].fisherman /\ status # "Rejected")
    <3>1. UnreturnedIn(e, f) = UnreturnedIn(d, f)
      BY <1>9, <2>4 DEF UnreturnedIn
    <3>2. \A other \in UnreturnedIn(d, f) : F[other] = G[other]
      BY <1>5, <2>1
    <3>3. Unreturned(d, f) = Unreturned(e, f)
      <4>1. SumFunctionOnSet(F, UnreturnedIn(d, f)) =
              SumFunctionOnSet(G, UnreturnedIn(e, f))
        BY <2>2, <3>1, <3>2, SumEqual
      <4> QED BY <4>1 DEF Unreturned, F, G
    <3>4. Unreturned(e, f) \in Nat
      BY <1>4, DepositTypes
    <3> QED BY <2>4, <3>3, <3>4
  <2> QED BY <2>3, <2>4
<1> QED
  BY <1>1, <1>2, <1>3, <1>4, <1>7, <1>8, <1>9 DEF GivesBack, LinksKept, e

(* A dispute is created.                                                   *)
LEMMA DisputeAdded ==
  ASSUME NEW d \in DisputesType, NEW id \in DisputeIds, d[id].status = "Null",
         NEW new \in DisputeType, new.status = "Pending"
  PROVE  LET e == Created(d, id, new)
         IN  /\ e \in DisputesType
             /\ e[id] = new /\ \A other \in DisputeIds \ {id} : e[other] = d[other]
             /\ Pending(e) = Pending(d) + new.deposit
             /\ Takes(d, e, new)
<1> DEFINE e == Created(d, id, new)
           F == DepositIn(d)
           G == DepositIn(e)
<1>1. /\ e[id] = new /\ \A other \in DisputeIds \ {id} : e[other] = d[other]
      /\ e \in [DisputeIds -> DisputeType \cup {NullDispute}]
  BY DEF DisputesType, Created
<1>2. e \in DisputesType
  BY <1>1 DEF DisputesType
<1>3. /\ \A other \in DisputeIds \ {id} : G[other] = F[other]
      /\ G[id] = new.deposit
  BY <1>1 DEF DepositIn
<1>4. \A other \in DisputeIds : G[other] \in Int
  BY <1>2, DepositTypes
<1> HIDE DEF e, F, G
<1>5. Pending(e) = Pending(d) + new.deposit
  <2>1. PendingIn(d) = PendingIn(e) \ {id} /\ id \in PendingIn(e) /\ PendingIn(e) \subseteq DisputeIds
    BY <1>1 DEF PendingIn
  <2>2. IsFiniteSet(PendingIn(e))
    BY <2>1, DisputeAssumption, FS_Subset
  <2>3. /\ \A other \in PendingIn(e) : G[other] \in Int
        /\ \A other \in PendingIn(e) \ {id} : F[other] = G[other]
    BY <1>3, <1>4, <2>1
  <2>4. SumFunctionOnSet(G, PendingIn(e)) =
         SumFunctionOnSet(F, PendingIn(e) \ {id}) + G[id]
    <3> DEFINE T == PendingIn(e)
    <3>1. /\ IsFiniteSet(T) /\ id \in T /\ \A other \in T : G[other] \in Int
          /\ \A other \in T \ {id} : F[other] = G[other]
      BY <2>1, <2>2, <2>3
    <3> HIDE DEF T
    <3>2. SumFunctionOnSet(G, T) = SumFunctionOnSet(F, T \ {id}) + G[id]
      BY <3>1, SumGains
    <3> QED BY <3>2 DEF T
  <2> QED BY <1>3, <2>1, <2>4 DEF Pending, F, G
<1>6. ASSUME NEW f \in Fishermen
      PROVE  Unreturned(e, f) = Unreturned(d, f) + IF f = new.fisherman THEN new.deposit ELSE 0
  <2>1. UnreturnedIn(d, f) \subseteq DisputeIds /\ UnreturnedIn(e, f) \subseteq DisputeIds
    BY DEF UnreturnedIn
  <2>2. IsFiniteSet(UnreturnedIn(d, f)) /\ IsFiniteSet(UnreturnedIn(e, f))
    BY <2>1, DisputeAssumption, FS_Subset
  <2>3. CASE f = new.fisherman
    <3>1. UnreturnedIn(d, f) = UnreturnedIn(e, f) \ {id} /\ id \in UnreturnedIn(e, f)
      BY <1>1, <2>3 DEF UnreturnedIn
    <3>2. /\ \A other \in UnreturnedIn(e, f) : G[other] \in Int
          /\ \A other \in UnreturnedIn(e, f) \ {id} : F[other] = G[other]
      BY <1>3, <1>4, <2>1, <3>1
    <3>3. Unreturned(e, f) = Unreturned(d, f) + G[id]
      <4>1. SumFunctionOnSet(G, UnreturnedIn(e, f)) =
             SumFunctionOnSet(F, UnreturnedIn(e, f) \ {id}) + G[id]
        <5> DEFINE T == UnreturnedIn(e, f)
        <5>1. /\ IsFiniteSet(T) /\ id \in T /\ \A other \in T : G[other] \in Int
              /\ \A other \in T \ {id} : F[other] = G[other]
          BY <2>2, <3>1, <3>2
        <5> HIDE DEF T
        <5>2. SumFunctionOnSet(G, T) = SumFunctionOnSet(F, T \ {id}) + G[id]
          BY <5>1, SumGains
        <5> QED BY <5>2 DEF T
      <4> QED BY <3>1, <4>1 DEF Unreturned, F, G
    <3> QED BY <1>3, <2>3, <3>3
  <2>4. CASE f # new.fisherman
    <3>1. UnreturnedIn(e, f) = UnreturnedIn(d, f) /\ id \notin UnreturnedIn(d, f)
      BY <1>1, <2>4 DEF UnreturnedIn
    <3>2. \A other \in UnreturnedIn(d, f) : F[other] = G[other]
      BY <1>3, <2>1, <3>1
    <3>3. Unreturned(d, f) = Unreturned(e, f)
      <4>1. SumFunctionOnSet(F, UnreturnedIn(d, f)) =
              SumFunctionOnSet(G, UnreturnedIn(e, f))
        BY <2>2, <3>1, <3>2, SumEqual
      <4> QED BY <4>1 DEF Unreturned, F, G
    <3>4. Unreturned(d, f) \in Nat
      BY DepositTypes
    <3> QED BY <2>4, <3>3, <3>4
  <2> QED BY <2>3, <2>4
<1> QED
  BY <1>1, <1>2, <1>5, <1>6 DEF Takes, e

-----------------------------------------------------------------------------
(* Slashing and its reward.                                                *)

(* A larger numerator has no smaller quotient.                             *)
LEMMA QuotientMonotonic ==
  ASSUME NEW a \in Nat, NEW b \in Nat, NEW n \in Nat \ {0}, a <= b
  PROVE  a \div n <= b \div n
<1> DEFINE q == a \div n
           r == b \div n
<1>1. /\ q \in Nat /\ q * n <= a /\ r \in Nat /\ b < r * n + n
  BY Quotient
<1> HIDE DEF q, r
<1>2. SUFFICES ASSUME q >= r + 1 PROVE FALSE
  BY <1>1 DEF q, r
<1>3. q * n >= (r + 1) * n
  BY <1>1, <1>2
<1>4. (r + 1) * n = r * n + n /\ r * n \in Nat /\ q * n \in Nat
  BY <1>1
<1> QED
  BY <1>1, <1>3, <1>4

LEMMA ParameterTypes ==
  ASSUME SettingTypes
  PROVE  /\ parameters.fishermanRewardCut \in Nat /\ parameters.disputeDeposit \in Nat
         /\ parameters.disputePeriod \in Nat
         /\ now \in Nat /\ FishermanFunds \in Nat /\ MaxPPM \in Nat \ {0}
         /\ leftOver \in [Fishermen -> Nat] /\ SlashAmounts \subseteq Nat
BY DisputeAssumption DEF SettingTypes, ParametersType

(* What a slash takes and pays.  The reward is sent in full: it is zero    *)
(* whenever HorizonStaking sends nothing.                                  *)
LEMMA SlashEffect ==
  ASSUME SettingTypes, NEW stake \in StakeType, NEW tokensSlash \in Nat
  PROVE  /\ TokensToReward(stake, tokensSlash) \in Nat
         /\ RewardSent(stake, tokensSlash, TokensToReward(stake, tokensSlash))
              = TokensToReward(stake, tokensSlash)
         /\ SlashedStake(stake, tokensSlash) \in StakeType
         /\ TokensToReward(stake, tokensSlash)
              <= MulPPM(ProviderTokensSlashed(stake, tokensSlash), stake.maxVerifierCut)
<1> DEFINE cut == LesserOf(stake.maxVerifierCut, parameters.fishermanRewardCut)
           slashed == LesserOf(tokensSlash, stake.tokens)
           reward == TokensToReward(stake, tokensSlash)
<1>1. /\ stake.tokens \in Nat /\ stake.poolTokens \in Nat /\ stake.maxVerifierCut \in Nat
      /\ stake.maxVerifierCut <= MaxPPM /\ MaxPPM \in Nat \ {0}
      /\ parameters.fishermanRewardCut \in Nat
  BY ParameterTypes DEF StakeType
<1>2. /\ cut \in Nat /\ cut <= stake.maxVerifierCut
      /\ slashed \in Nat /\ slashed <= stake.tokens /\ slashed <= tokensSlash
  BY <1>1 DEF LesserOf
<1>3. ProviderTokensSlashed(stake, tokensSlash) = slashed
  BY <1>1 DEF ProviderTokensSlashed, LesserOf
<1>4. reward = (cut * slashed) \div MaxPPM
  BY DEF TokensToReward, MulPPM
<1>5. SlashedStake(stake, tokensSlash) \in StakeType
  <2> DEFINE rest == LesserOf(tokensSlash, stake.tokens + stake.poolTokens) - slashed
             pool == IF delegationSlashing THEN stake.poolTokens - rest ELSE stake.poolTokens
             left == stake.tokens - slashed
  <2>1. pool \in Nat /\ left \in Nat
    BY <1>1, <1>2 DEF LesserOf
  <2>2. SlashedStake(stake, tokensSlash) = [stake EXCEPT !.tokens = left, !.poolTokens = pool]
    BY <1>3 DEF SlashedStake, StakeType
  <2> HIDE DEF pool, left
  <2> QED BY <2>1, <2>2 DEF StakeType
<1> HIDE DEF cut, slashed, reward
<1>6. cut * slashed \in Nat /\ slashed * stake.maxVerifierCut \in Nat
      /\ cut * slashed <= slashed * stake.maxVerifierCut
  BY <1>1, <1>2
<1>7. reward \in Nat
  BY <1>1, <1>4, <1>6, Quotient
<1>8. reward <= (slashed * stake.maxVerifierCut) \div MaxPPM
  BY <1>1, <1>4, <1>6, QuotientMonotonic
<1>9. slashed = 0 => reward = 0
  <2> SUFFICES ASSUME slashed = 0 PROVE reward = 0
    OBVIOUS
  <2>1. cut * slashed = 0
    BY <1>2
  <2>2. reward * MaxPPM <= 0
    BY <1>1, <1>4, <1>6, <2>1, Quotient
  <2>3. reward * MaxPPM >= reward
    BY <1>1, <1>7
  <2> QED BY <1>1, <1>7, <2>2, <2>3
<1>10. RewardSent(stake, tokensSlash, reward) = reward
  BY <1>2, <1>3, <1>9 DEF RewardSent
<1> QED
  BY <1>3, <1>5, <1>7, <1>8, <1>10 DEF reward, MulPPM

-----------------------------------------------------------------------------
(* Resolutions.                                                            *)

LEMMA PaidSound ==
  ASSUME SettingTypes, NEW b, Sound(b), NEW id \in DisputeIds,
         b.disputes[id].status = "Pending",
         NEW status \in {"Accepted", "Drawn", "Cancelled"}, NEW tokens \in Nat
  PROVE  LET paid == PayFisherman(b, id, status, tokens, tokens)
         IN  /\ Sound(paid)
             /\ paid.disputes = Resolved(b.disputes, id, status)
             /\ paid.stakes = b.stakes
<1> DEFINE d == b.disputes
           e == Resolved(d, id, status)
           f == d[id].fisherman
           deposit == d[id].deposit
           funded == [b.funds EXCEPT ![f] = @ + tokens + deposit]
           given == [b.rewarded EXCEPT ![f] = @ + tokens]
           paid == PayFisherman(b, id, status, tokens, tokens)
<1>1. b \in BooksType /\ d \in DisputesType
  BY DEF Sound, BooksType
<1>2. /\ paid.disputes = e /\ paid.balance = b.balance + tokens - tokens - deposit
      /\ paid.funds = funded /\ paid.stakes = b.stakes /\ paid.rewarded = given
      /\ paid = [b EXCEPT !.disputes = e, !.balance = paid.balance, !.funds = funded,
                          !.rewarded = given]
  BY <1>1 DEF PayFisherman, BooksType, Resolved
<1>3. /\ d[id].status = "Pending"
      /\ status \in {"Accepted", "Rejected", "Drawn", "Cancelled"} /\ status # "Rejected"
  OBVIOUS
<1> HIDE DEF d, f, deposit, paid, funded, given
<1>4. /\ e \in DisputesType /\ d[id] \in DisputeType
      /\ Pending(d) = Pending(e) + deposit
      /\ \A g \in Fishermen :
           Unreturned(d, g) = Unreturned(e, g) + IF g = f THEN deposit ELSE 0
  <2>1. /\ e \in DisputesType /\ d[id] \in DisputeType
        /\ Pending(d) = Pending(e) + d[id].deposit
        /\ GivesBack(d, e, id, status)
    BY <1>1, <1>3, DisputeEnds
  <2> QED BY <1>3, <2>1 DEF f, deposit, GivesBack
<1> HIDE DEF e
<1>5. /\ Pending(e) \in Nat /\ \A g \in Fishermen : Unreturned(e, g) \in Nat
  BY <1>4, DepositTypes
<1>6. f \in Fishermen /\ deposit \in Nat
  BY <1>4 DEF DisputeType, f, deposit
<1>7. /\ b.balance \in Nat /\ b.funds \in [Fishermen -> Nat]
      /\ b.rewarded \in [Fishermen -> Nat] /\ b.stakes \in [Indexers -> StakeType]
  BY <1>1 DEF BooksType
<1>8. LeftOvers \in Nat
  <2>1. \A g \in Fishermen : leftOver[g] \in Nat
    BY ParameterTypes
  <2> QED BY <2>1, DisputeAssumption, SumType DEF LeftOvers
<1>9. b.balance + tokens - tokens - deposit = Pending(e) + LeftOvers
  <2>1. b.balance = Pending(d) + LeftOvers
    BY DEF Sound, d
  <2> QED BY <1>4, <1>5, <1>6, <1>7, <1>8, <2>1 DEF deposit
<1>10. paid \in BooksType
  <2>1. funded \in [Fishermen -> Nat] /\ given \in [Fishermen -> Nat]
    BY <1>6, <1>7 DEF funded, given
  <2>2. paid.balance \in Nat
    BY <1>5, <1>2, <1>8, <1>9
  <2> QED BY <1>1, <1>4, <1>2, <2>1, <2>2 DEF BooksType
<1>11. ASSUME NEW g \in Fishermen
       PROVE  paid.funds[g] + Unreturned(e, g) + leftOver[g] = FishermanFunds + paid.rewarded[g]
  <2>1. b.funds[g] + Unreturned(d, g) + leftOver[g] = FishermanFunds + b.rewarded[g]
    BY DEF Sound, d
  <2>2. /\ b.funds[g] \in Nat /\ b.rewarded[g] \in Nat /\ leftOver[g] \in Nat
        /\ Unreturned(e, g) \in Nat /\ FishermanFunds \in Nat
    BY <1>5, <1>7, ParameterTypes
  <2>3. CASE g = f
    <3>1. paid.funds[g] = b.funds[g] + tokens + deposit /\ paid.rewarded[g] = b.rewarded[g] + tokens
      BY <1>6, <1>7, <1>2, <2>3 DEF funded, given
    <3>2. Unreturned(d, g) = Unreturned(e, g) + deposit
      BY <1>4, <2>3
    <3> QED BY <1>6, <2>1, <2>2, <3>1, <3>2
  <2>4. CASE g # f
    <3>1. paid.funds[g] = b.funds[g] /\ paid.rewarded[g] = b.rewarded[g]
      BY <1>6, <1>7, <1>2, <2>4 DEF funded, given
    <3>2. Unreturned(d, g) = Unreturned(e, g)
      BY <1>4, <2>2, <2>4
    <3> QED BY <2>1, <3>1, <3>2
  <2> QED BY <2>3, <2>4
<1>12. paid.disputes = e /\ paid.stakes = b.stakes /\ paid.balance = Pending(e) + LeftOvers
  BY <1>2, <1>9
<1> QED
  BY <1>10, <1>11, <1>12 DEF Sound, paid, e, d

LEMMA AcceptedSound ==
  ASSUME SettingTypes, NEW b, Sound(b), NEW id \in DisputeIds,
         b.disputes[id].status = "Pending", NEW tokensSlash \in Nat
  PROVE  LET accepted == AcceptedBooks(b, id, tokensSlash)
         IN  /\ Sound(accepted)
             /\ accepted.disputes = Resolved(b.disputes, id, "Accepted")
<1> DEFINE indexer == b.disputes[id].indexer
           stake == b.stakes[indexer]
           reward == TokensToReward(stake, tokensSlash)
           sent == RewardSent(stake, tokensSlash, reward)
           paid == PayFisherman(b, id, "Accepted", reward, reward)
           slashed == SlashedStake(stake, tokensSlash)
           accepted == AcceptedBooks(b, id, tokensSlash)
<1>1. stake \in StakeType /\ indexer \in Indexers
  <2>1. b \in BooksType
    BY DEF Sound
  <2>2. b.disputes \in [DisputeIds -> DisputeType \cup {NullDispute}] /\ b.stakes \in [Indexers -> StakeType]
    BY <2>1 DEF BooksType, DisputesType
  <2>3. b.disputes[id] \in DisputeType
    BY <2>2 DEF NullDispute
  <2> QED BY <2>2, <2>3 DEF DisputeType
<1>2. reward \in Nat /\ sent = reward /\ slashed \in StakeType
  <2> HIDE DEF stake
  <2> QED BY <1>1, SlashEffect
<1>3. /\ Sound(paid) /\ paid.disputes = Resolved(b.disputes, id, "Accepted")
      /\ paid.stakes = b.stakes
  <2> HIDE DEF reward
  <2> QED BY <1>2, PaidSound
<1>4. accepted = [PayFisherman(b, id, "Accepted", reward, sent) EXCEPT
                    !.stakes[indexer] = SlashedStake(@, tokensSlash)]
  BY DEF AcceptedBooks
<1>5. accepted = [paid EXCEPT !.stakes[indexer] = SlashedStake(@, tokensSlash)]
  <2> HIDE DEF reward, sent, accepted
  <2> QED BY <1>2, <1>4
<1>6. SlashedStake(paid.stakes[indexer], tokensSlash) = slashed
  BY <1>3
<1> HIDE DEF paid, accepted, slashed, indexer
<1>7. accepted = [paid EXCEPT !.stakes = [paid.stakes EXCEPT ![indexer] = slashed]]
  BY <1>5, <1>6
<1>8. [paid.stakes EXCEPT ![indexer] = slashed] \in [Indexers -> StakeType] /\ paid \in BooksType
  BY <1>1, <1>2, <1>3 DEF Sound, BooksType
<1>9. /\ accepted \in BooksType /\ accepted.disputes = paid.disputes
      /\ accepted.balance = paid.balance /\ accepted.funds = paid.funds
      /\ accepted.rewarded = paid.rewarded
  <2> DEFINE after == [paid.stakes EXCEPT ![indexer] = slashed]
  <2>1. accepted = [paid EXCEPT !.stakes = after] /\ after \in [Indexers -> StakeType]
    BY <1>7, <1>8
  <2> HIDE DEF after
  <2> QED BY <1>8, <2>1 DEF BooksType
<1>10. Sound(accepted)
  BY <1>3, <1>9 DEF Sound
<1> QED
  BY <1>3, <1>9, <1>10 DEF accepted

LEMMA RejectedSound ==
  ASSUME NEW b, Sound(b), NEW id \in DisputeIds, b.disputes[id].status = "Pending",
         SettingTypes
  PROVE  LET rejected == [b EXCEPT !.disputes[id].status = "Rejected",
                                   !.balance = @ - b.disputes[id].deposit]
         IN  /\ Sound(rejected)
             /\ rejected.disputes = Resolved(b.disputes, id, "Rejected")
<1> DEFINE d == b.disputes
           e == Resolved(d, id, "Rejected")
           left == b.balance - d[id].deposit
           rejected == [b EXCEPT !.disputes[id].status = "Rejected",
                                 !.balance = @ - b.disputes[id].deposit]
<1>1. b \in BooksType /\ d \in DisputesType /\ b.balance \in Nat
  BY DEF Sound, BooksType
<1>2. rejected = [b EXCEPT !.disputes = e, !.balance = left]
  BY DEF Resolved
<1>3. d[id].status = "Pending"
  OBVIOUS
<1> HIDE DEF d, left, rejected
<1>4. /\ e \in DisputesType /\ d[id] \in DisputeType
      /\ Pending(d) = Pending(e) + d[id].deposit
      /\ GivesBack(d, e, id, "Rejected")
  BY <1>1, <1>3, DisputeEnds
<1> HIDE DEF e
<1>5. Pending(e) \in Nat /\ d[id].deposit \in Nat /\ LeftOvers \in Nat
  <2>1. \A g \in Fishermen : leftOver[g] \in Nat
    BY ParameterTypes
  <2>2. LeftOvers \in Nat
    BY <2>1, DisputeAssumption, SumType DEF LeftOvers
  <2> QED BY <1>4, <2>2, DepositTypes DEF DisputeType
<1>6. left = Pending(e) + LeftOvers
  <2>1. b.balance = Pending(d) + LeftOvers
    BY DEF Sound, d
  <2> QED BY <1>1, <1>4, <1>5, <2>1 DEF left
<1>7. /\ rejected \in BooksType /\ rejected.disputes = e /\ rejected.balance = left
      /\ rejected.funds = b.funds /\ rejected.rewarded = b.rewarded
  <2>1. left \in Nat
    BY <1>5, <1>6
  <2> QED BY <1>1, <1>2, <1>4, <2>1 DEF BooksType
<1>8. \A f \in Fishermen : Unreturned(d, f) = Unreturned(e, f)
  <2>1. \A f \in Fishermen : Unreturned(e, f) \in Nat
    BY <1>4, DepositTypes
  <2> QED BY <1>4, <2>1 DEF GivesBack
<1>9. Sound(rejected)
  BY <1>6, <1>7, <1>8 DEF Sound, d
<1> QED
  BY <1>7, <1>9 DEF rejected, e, d

-----------------------------------------------------------------------------
(* Links.                                                                  *)

(* A dispute that is not linked: no other is linked to it either.          *)
LEMMA ResolvedAlone ==
  ASSUME NEW d \in DisputesType, AllLinked(d), NEW id \in DisputeIds,
         d[id].status = "Pending", d[id].relatedDisputeId = NoDispute,
         NEW status \in {"Accepted", "Rejected", "Drawn", "Cancelled"}
  PROVE  AllLinked(Resolved(d, id, status))
<1> DEFINE e == Resolved(d, id, status)
<1>1. LinksKept(d, e, id, status)
  BY DisputeEnds
<1> HIDE DEF e
<1>2. SUFFICES ASSUME NEW other \in DisputeIds, e[other].status # "Null",
                      e[other].relatedDisputeId # NoDispute
               PROVE  Linked(e, other, e[other].relatedDisputeId)
  BY DEF AllLinked, e
<1>3. other # id /\ e[other] = d[other]
  BY <1>1, <1>2 DEF LinksKept
<1>4. Linked(d, other, d[other].relatedDisputeId)
  BY <1>2, <1>3 DEF AllLinked
<1>5. d[other].relatedDisputeId # id /\ d[other].relatedDisputeId \in DisputeIds
  <2>1. d[other] \in DisputeType
    BY <1>2, <1>3 DEF DisputesType, NullDispute
  <2>2. d[other].relatedDisputeId \in DisputeIds
    BY <1>2, <1>3, <2>1 DEF DisputeType
  <2>3. d[other].relatedDisputeId # id
    BY <1>4, DisputeAssumption DEF Linked
  <2> QED BY <2>2, <2>3
<1>6. e[d[other].relatedDisputeId] = d[d[other].relatedDisputeId]
  BY <1>1, <1>5 DEF LinksKept
<1> QED
  BY <1>3, <1>4, <1>6 DEF Linked

(* Two linked disputes.                                                    *)
LEMMA LinkedPair ==
  ASSUME NEW d \in DisputesType, AllLinked(d), NEW id \in DisputeIds,
         d[id].status = "Pending", d[id].relatedDisputeId # NoDispute
  PROVE  LET related == d[id].relatedDisputeId
         IN  /\ related \in DisputeIds /\ related # id
             /\ d[related].status = "Pending" /\ Linked(d, id, related)
             /\ \A status \in {"Accepted", "Drawn", "Cancelled"} :
                  /\ Resolved(d, id, status) \in DisputesType
                  /\ Resolved(d, id, status)[related].status = "Pending"
<1> DEFINE related == d[id].relatedDisputeId
<1>1. d[id] \in DisputeType
  BY DEF DisputesType, NullDispute
<1>2. related \in DisputeIds
  BY <1>1 DEF DisputeType
<1>3. Linked(d, id, related)
  BY DEF AllLinked
<1>4. related # id /\ d[related].status = "Pending"
  BY <1>3 DEF Linked, AreConflicting
<1>5. ASSUME NEW status \in {"Accepted", "Drawn", "Cancelled"}
      PROVE  /\ Resolved(d, id, status) \in DisputesType
             /\ Resolved(d, id, status)[related].status = "Pending"
  <2>1. LinksKept(d, Resolved(d, id, status), id, status) /\ Resolved(d, id, status) \in DisputesType
    BY DisputeEnds
  <2> QED BY <1>2, <1>4, <2>1 DEF LinksKept
<1> QED
  BY <1>2, <1>3, <1>4, <1>5

LEMMA ResolvedBoth ==
  ASSUME NEW d \in DisputesType, AllLinked(d), NEW id \in DisputeIds,
         d[id].status = "Pending", d[id].relatedDisputeId # NoDispute,
         NEW s1 \in {"Accepted", "Drawn", "Cancelled"},
         NEW s2 \in {"Accepted", "Drawn", "Cancelled"},
         s1 = "Cancelled" <=> s2 = "Cancelled"
  PROVE  AllLinked(Resolved(Resolved(d, id, s1), d[id].relatedDisputeId, s2))
<1> DEFINE related == d[id].relatedDisputeId
           mid == Resolved(d, id, s1)
           e == Resolved(mid, related, s2)
<1>1. /\ related \in DisputeIds /\ related # id
      /\ d[related].status = "Pending" /\ Linked(d, id, related)
      /\ mid \in DisputesType /\ mid[related].status = "Pending"
  BY LinkedPair
<1>2. LinksKept(d, mid, id, s1)
  BY DisputeEnds
<1> HIDE DEF mid, related
<1>3. LinksKept(mid, e, related, s2)
  BY <1>1, DisputeEnds
<1> HIDE DEF e
<1>4. /\ \A other \in DisputeIds \ {id, related} : e[other] = d[other]
      /\ \A other \in DisputeIds : /\ e[other].fisherman = d[other].fisherman
                                   /\ e[other].relatedDisputeId = d[other].relatedDisputeId
      /\ e[id].status = s1 /\ e[related].status = s2
  BY <1>1, <1>2, <1>3 DEF LinksKept
<1>5. SUFFICES ASSUME NEW other \in DisputeIds, e[other].status # "Null",
                      e[other].relatedDisputeId # NoDispute
               PROVE  Linked(e, other, e[other].relatedDisputeId)
  BY DEF AllLinked, e, mid, related
<1>6. d[id].relatedDisputeId = related /\ d[related].relatedDisputeId = id
  BY <1>1 DEF Linked, related
<1>7. d[related].fisherman = d[id].fisherman /\ AreConflicting(id, related) /\ AreConflicting(related, id)
  BY <1>1 DEF Linked, AreConflicting
<1>8. CASE other = id
  BY <1>1, <1>4, <1>6, <1>7, <1>8 DEF Linked
<1>9. CASE other = related
  BY <1>1, <1>4, <1>6, <1>7, <1>9 DEF Linked
<1>10. CASE other \notin {id, related}
  <2> DEFINE r == d[other].relatedDisputeId
  <2>1. e[other] = d[other] /\ Linked(d, other, r)
    BY <1>4, <1>5, <1>10 DEF AllLinked
  <2>2. r \in DisputeIds /\ r \notin {id, related}
    <3>1. d[other] \in DisputeType
      BY <1>5, <2>1 DEF DisputesType, NullDispute
    <3>2. r \in DisputeIds
      BY <1>5, <2>1, <3>1 DEF DisputeType
    <3>3. d[r].relatedDisputeId = other
      BY <2>1 DEF Linked
    <3> QED BY <1>6, <1>10, <3>2, <3>3
  <2>3. e[r] = d[r]
    BY <1>4, <2>2
  <2> QED BY <2>1, <2>3 DEF Linked
<1> QED
  BY <1>8, <1>9, <1>10

-----------------------------------------------------------------------------
(* The steps.                                                              *)

LEMMA InvNext == IInv' <=> SettingTypes' /\ Sound(Books)' /\ AllLinked(disputes)'
BY InvIsSound, PTL

(* The invariant again, from its parts.                                    *)
LEMMA InvFromParts ==
  ASSUME SettingTypes', disputes' \in DisputesType, balance' \in Nat,
         funds' \in [Fishermen -> Nat], rewarded' \in [Fishermen -> Nat],
         stakes' \in [Indexers -> StakeType],
         balance' = Pending(disputes') + LeftOvers',
         \A f \in Fishermen : funds'[f] + Unreturned(disputes', f) + leftOver'[f]
                                = FishermanFunds + rewarded'[f],
         AllLinked(disputes')
  PROVE  IInv'
<1>1. /\ Books'.disputes = disputes' /\ Books'.balance = balance' /\ Books'.funds = funds'
      /\ Books'.rewarded = rewarded' /\ Books' \in BooksType
  BY DEF Books, BooksType
<1>2. Sound(Books)'
  BY <1>1 DEF Sound
<1> QED
  BY <1>2, InvNext

LEMMA InvParts ==
  ASSUME IInv
  PROVE  /\ SettingTypes /\ Sound(Books) /\ AllLinked(disputes)
         /\ disputes \in DisputesType /\ balance \in Nat
         /\ funds \in [Fishermen -> Nat] /\ rewarded \in [Fishermen -> Nat]
         /\ stakes \in [Indexers -> StakeType]
         /\ balance = Pending(disputes) + LeftOvers
         /\ \A f \in Fishermen : funds[f] + Unreturned(disputes, f) + leftOver[f]
                                   = FishermanFunds + rewarded[f]
<1>1. SettingTypes /\ Sound(Books) /\ AllLinked(disputes)
  BY InvIsSound
<1> QED
  BY <1>1 DEF Sound, Books, BooksType

(* Once the books become sound ones.                                       *)
LEMMA BooksSound ==
  ASSUME IInv, NEW b, BooksBecome(b), Sound(b), AllLinked(b.disputes)
  PROVE  IInv'
<1>1. /\ disputes' = b.disputes /\ balance' = b.balance /\ funds' = b.funds
      /\ stakes' = b.stakes /\ rewarded' = b.rewarded
      /\ now' = now /\ leftOver' = leftOver /\ UNCHANGED settings
  BY DEF BooksBecome
<1>2. SettingTypes'
  BY <1>1, InvIsSound DEF SettingTypes, settings
<1>3. LeftOvers' = LeftOvers
  BY <1>1 DEF LeftOvers
<1> QED
  BY <1>1, <1>2, <1>3, InvFromParts DEF Sound, BooksType

LEMMA AcceptStep ==
  ASSUME IInv, NEW id \in DisputeIds, NEW tokensSlash \in SlashAmounts,
         AcceptDispute(id, tokensSlash)
  PROVE  IInv'
<1> DEFINE b == AcceptedBooks(Books, id, tokensSlash)
<1>1. SettingTypes /\ Sound(Books) /\ AllLinked(disputes) /\ disputes \in DisputesType
  BY InvParts
<1>2. /\ Books.disputes = disputes /\ tokensSlash \in Nat
      /\ disputes[id].status = "Pending" /\ disputes[id].relatedDisputeId = NoDispute
      /\ BooksBecome(b)
  BY <1>1, ParameterTypes DEF Books, AcceptDispute, IsPending, IsDisputeInConflict
<1>3. Sound(b) /\ b.disputes = Resolved(disputes, id, "Accepted")
  BY <1>1, <1>2, AcceptedSound
<1>4. AllLinked(b.disputes)
  BY <1>1, <1>2, <1>3, ResolvedAlone
<1> HIDE DEF b
<1> QED
  BY <1>2, <1>3, <1>4, BooksSound

LEMMA RejectStep ==
  ASSUME IInv, NEW id \in DisputeIds, RejectDispute(id)
  PROVE  IInv'
<1> DEFINE b == [Books EXCEPT !.disputes[id].status = "Rejected",
                              !.balance = @ - Books.disputes[id].deposit]
<1>1. SettingTypes /\ Sound(Books) /\ AllLinked(disputes) /\ disputes \in DisputesType
  BY InvParts
<1>2. /\ Books.disputes = disputes
      /\ disputes[id].status = "Pending" /\ disputes[id].relatedDisputeId = NoDispute
  BY DEF Books, RejectDispute, IsPending, IsDisputeInConflict
<1>3. BooksBecome(b)
  BY <1>2 DEF RejectDispute
<1>4. Sound(b) /\ b.disputes = Resolved(disputes, id, "Rejected")
  BY <1>1, <1>2, RejectedSound
<1>5. AllLinked(b.disputes)
  BY <1>1, <1>2, <1>4, ResolvedAlone
<1> HIDE DEF b
<1> QED
  BY <1>3, <1>4, <1>5, BooksSound

(* The dispute of a pair that is resolved second.                          *)
LEMMA AcceptConflictStep ==
  ASSUME IInv, NEW id \in DisputeIds, NEW tokensSlash \in SlashAmounts,
         NEW acceptRelated \in BOOLEAN, NEW tokensSlashRelated \in SlashAmounts,
         AcceptDisputeConflict(id, tokensSlash, acceptRelated, tokensSlashRelated)
  PROVE  IInv'
<1> DEFINE related == disputes[id].relatedDisputeId
           first == AcceptedBooks(Books, id, tokensSlash)
           both == AcceptedBooks(first, related, tokensSlashRelated)
           drawn == ReturnedBooks(first, related, "Drawn")
<1>1. SettingTypes /\ Sound(Books) /\ AllLinked(disputes) /\ disputes \in DisputesType
  BY InvParts
<1>2. /\ Books.disputes = disputes /\ tokensSlash \in Nat /\ tokensSlashRelated \in Nat
      /\ disputes[id].status = "Pending" /\ disputes[id].relatedDisputeId # NoDispute
      /\ BooksBecome(both) \/ BooksBecome(drawn)
  BY <1>1, ParameterTypes DEF Books, AcceptDisputeConflict, IsPending, IsDisputeInConflict
<1>3. Sound(first) /\ first.disputes = Resolved(disputes, id, "Accepted")
  BY <1>1, <1>2, AcceptedSound
<1>4. related \in DisputeIds /\ first.disputes[related].status = "Pending"
  BY <1>1, <1>2, <1>3, LinkedPair
<1> HIDE DEF first
<1>5. CASE BooksBecome(both)
  <2>1. Sound(both) /\ both.disputes = Resolved(first.disputes, related, "Accepted")
    <3> HIDE DEF related
    <3> QED BY <1>1, <1>2, <1>3, <1>4, AcceptedSound
  <2>2. AllLinked(both.disputes)
    <3>1. AllLinked(Resolved(Resolved(disputes, id, "Accepted"), related, "Accepted"))
      BY <1>1, <1>2, ResolvedBoth
    <3> QED BY <1>3, <2>1, <3>1
  <2> HIDE DEF both
  <2> QED BY <1>5, <2>1, <2>2, BooksSound
<1>6. CASE BooksBecome(drawn)
  <2>1. Sound(drawn) /\ drawn.disputes = Resolved(first.disputes, related, "Drawn")
    <3> HIDE DEF related
    <3> QED BY <1>1, <1>3, <1>4, PaidSound DEF ReturnedBooks
  <2>2. AllLinked(drawn.disputes)
    <3>1. AllLinked(Resolved(Resolved(disputes, id, "Accepted"), related, "Drawn"))
      BY <1>1, <1>2, ResolvedBoth
    <3> QED BY <1>3, <2>1, <3>1
  <2> HIDE DEF drawn
  <2> QED BY <1>6, <2>1, <2>2, BooksSound
<1> QED
  BY <1>2, <1>5, <1>6

LEMMA ReturnStep ==
  ASSUME IInv, NEW id \in DisputeIds, NEW status \in {"Drawn", "Cancelled"},
         ReturnDeposits(id, status)
  PROVE  IInv'
<1> DEFINE related == disputes[id].relatedDisputeId
           first == ReturnedBooks(Books, id, status)
           both == ReturnedBooks(first, related, status)
<1>1. SettingTypes /\ Sound(Books) /\ AllLinked(disputes) /\ disputes \in DisputesType
  BY InvParts
<1>2. Books.disputes = disputes /\ disputes[id].status = "Pending"
  BY DEF Books, ReturnDeposits, IsPending
<1>3. Sound(first) /\ first.disputes = Resolved(disputes, id, status)
  BY <1>1, <1>2, PaidSound DEF ReturnedBooks
<1>4. CASE related = NoDispute
  <2>1. BooksBecome(first)
    BY <1>4 DEF ReturnDeposits, IsDisputeInConflict
  <2>2. AllLinked(first.disputes)
    BY <1>1, <1>2, <1>3, <1>4, ResolvedAlone
  <2> HIDE DEF first
  <2> QED BY <1>3, <2>1, <2>2, BooksSound
<1>5. CASE related # NoDispute
  <2>1. BooksBecome(both)
    BY <1>5 DEF ReturnDeposits, IsDisputeInConflict
  <2>2. related \in DisputeIds /\ first.disputes[related].status = "Pending"
    BY <1>1, <1>2, <1>3, <1>5, LinkedPair
  <2> HIDE DEF first
  <2>3. Sound(both) /\ both.disputes = Resolved(first.disputes, related, status)
    <3> HIDE DEF related
    <3> QED BY <1>1, <1>3, <2>2, PaidSound DEF ReturnedBooks
  <2>4. AllLinked(both.disputes)
    <3>1. AllLinked(Resolved(Resolved(disputes, id, status), related, status))
      BY <1>1, <1>2, <1>5, ResolvedBoth
    <3> QED BY <1>3, <2>3, <3>1
  <2> HIDE DEF both
  <2> QED BY <2>1, <2>3, <2>4, BooksSound
<1> QED
  BY <1>4, <1>5

LEMMA NewDisputeType ==
  ASSUME IInv, NEW fisherman \in Fishermen, NEW id \in DisputeIds, NEW deposit \in Nat,
         NEW related \in DisputeIds \cup {NoDispute}
  PROVE  LET new == NewDispute(fisherman, id, deposit, related)
         IN  /\ new \in DisputeType /\ new.status = "Pending"
             /\ new.fisherman = fisherman /\ new.deposit = deposit
             /\ new.relatedDisputeId = related
<1>1. IndexerOf[id] \in Indexers
  BY DisputeAssumption
<1>2. StakeSnapshot(IndexerOf[id]) \in Nat
  <2>1. stakes[IndexerOf[id]] \in StakeType
    BY <1>1, InvParts
  <2> QED BY <2>1 DEF StakeSnapshot, StakeType
<1>3. now + parameters.disputePeriod \in Nat
  BY InvParts, ParameterTypes
<1> QED
  BY <1>1, <1>2, <1>3 DEF NewDispute, DisputeType

(* A dispute that is created alone.                                        *)
LEMMA CreateStep ==
  ASSUME IInv, NEW fisherman \in Fishermen, NEW id \in DisputeIds, CreateDispute(fisherman, id)
  PROVE  IInv'
<1> DEFINE deposit == parameters.disputeDeposit
           new == NewDispute(fisherman, id, deposit, NoDispute)
           e == Created(disputes, id, new)
<1>1. SettingTypes /\ AllLinked(disputes) /\ disputes \in DisputesType /\ deposit \in Nat
  BY InvParts, ParameterTypes
<1>2. /\ disputes[id].status = "Null" /\ deposit <= funds[fisherman]
      /\ funds' = [funds EXCEPT ![fisherman] = @ - deposit]
      /\ balance' = balance + deposit
      /\ disputes' = e
      /\ UNCHANGED <<now, stakes, rewarded, settings, leftOver>>
  BY DEF CreateDispute, CanCreate, PullDeposit, IsDisputeCreated, Created
<1>3. /\ new \in DisputeType /\ new.status = "Pending" /\ new.fisherman = fisherman
      /\ new.deposit = deposit /\ new.relatedDisputeId = NoDispute
  <2> HIDE DEF deposit
  <2> QED BY <1>1, NewDisputeType
<1> HIDE DEF deposit, new
<1>4. /\ e \in DisputesType /\ e[id] = new
      /\ \A other \in DisputeIds \ {id} : e[other] = disputes[other]
      /\ Pending(e) = Pending(disputes) + new.deposit
      /\ Takes(disputes, e, new)
  BY <1>1, <1>2, <1>3, DisputeAdded
<1> HIDE DEF e
<1>5. AllLinked(e)
  <2> SUFFICES ASSUME NEW other \in DisputeIds, e[other].status # "Null",
                      e[other].relatedDisputeId # NoDispute
               PROVE  Linked(e, other, e[other].relatedDisputeId)
    BY DEF AllLinked
  <2> DEFINE r == disputes[other].relatedDisputeId
  <2>1. other # id
    BY <1>3, <1>4
  <2>2. e[other] = disputes[other] /\ Linked(disputes, other, r)
    BY <1>1, <1>4, <2>1 DEF AllLinked
  <2>3. disputes[other] \in DisputeType
    BY <1>1, <2>2 DEF DisputesType, NullDispute
  <2>4. r \in DisputeIds /\ r # id
    BY <1>2, <2>2, <2>3 DEF DisputeType, Linked
  <2>5. e[r] = disputes[r]
    BY <1>4, <2>4
  <2> QED BY <2>2, <2>5 DEF Linked
<1>6. /\ balance \in Nat /\ funds \in [Fishermen -> Nat] /\ rewarded \in [Fishermen -> Nat]
      /\ stakes \in [Indexers -> StakeType] /\ balance = Pending(disputes) + LeftOvers
      /\ \A f \in Fishermen : funds[f] + Unreturned(disputes, f) + leftOver[f]
                                = FishermanFunds + rewarded[f]
  BY InvParts
<1>7. /\ balance' \in Nat /\ funds' \in [Fishermen -> Nat]
  BY <1>1, <1>2, <1>6
<1>8. balance' = Pending(disputes') + LeftOvers'
  <2>1. LeftOvers' = LeftOvers
    BY <1>2 DEF LeftOvers
  <2>2. LeftOvers \in Nat /\ Pending(disputes) \in Nat
    <3>1. \A g \in Fishermen : leftOver[g] \in Nat
      BY <1>1, ParameterTypes
    <3> QED BY <1>1, <3>1, DepositTypes, DisputeAssumption, SumType DEF LeftOvers
  <2> QED BY <1>1, <1>2, <1>3, <1>4, <1>6, <2>1, <2>2
<1>9. ASSUME NEW f \in Fishermen
      PROVE  funds'[f] + Unreturned(disputes', f) + leftOver'[f] = FishermanFunds + rewarded'[f]
  <2>1. funds[f] + Unreturned(disputes, f) + leftOver[f] = FishermanFunds + rewarded[f]
    BY <1>6
  <2>2. /\ funds[f] \in Nat /\ rewarded[f] \in Nat /\ leftOver[f] \in Nat
        /\ Unreturned(disputes, f) \in Nat /\ FishermanFunds \in Nat
    BY <1>1, <1>6, DepositTypes, ParameterTypes
  <2>3. leftOver'[f] = leftOver[f] /\ rewarded'[f] = rewarded[f]
    BY <1>2
  <2>4. Unreturned(e, f) = Unreturned(disputes, f) + IF f = fisherman THEN deposit ELSE 0
    BY <1>3, <1>4 DEF Takes
  <2>5. funds'[f] = funds[f] - IF f = fisherman THEN deposit ELSE 0
    BY <1>1, <1>2, <1>6, <2>2
  <2> QED BY <1>1, <1>2, <2>1, <2>2, <2>3, <2>4, <2>5
<1>10. SettingTypes' /\ rewarded' \in [Fishermen -> Nat] /\ stakes' \in [Indexers -> StakeType]
  BY <1>1, <1>2, <1>6 DEF SettingTypes, settings
<1> QED
  BY <1>2, <1>4, <1>5, <1>7, <1>8, <1>9, <1>10, InvFromParts

(* Two that are created together: the deposit is halved.                   *)
LEMMA CreateConflictStep ==
  ASSUME IInv, NEW fisherman \in Fishermen, NEW id1 \in DisputeIds, NEW id2 \in DisputeIds,
         CreateQueryDisputeConflict(fisherman, id1, id2)
  PROVE  IInv'
<1> DEFINE deposit == parameters.disputeDeposit
           half == deposit \div 2
           odd == deposit - 2 * half
           n1 == NewDispute(fisherman, id1, half, id2)
           n2 == NewDispute(fisherman, id2, half, id1)
           mid == Created(disputes, id1, n1)
           e == Created(mid, id2, n2)
<1>1. /\ SettingTypes /\ AllLinked(disputes) /\ disputes \in DisputesType /\ deposit \in Nat
      /\ leftOver \in [Fishermen -> Nat]
  BY InvParts, ParameterTypes
<1>2. half \in Nat /\ odd \in Nat /\ deposit = half + half + odd
  BY <1>1
<1>3. AreConflicting(id1, id2) /\ AreConflicting(id2, id1) /\ id1 # id2
  BY DEF CreateQueryDisputeConflict, AreConflicting
<1>4. /\ disputes[id1].status = "Null" /\ disputes[id2].status = "Null"
      /\ deposit <= funds[fisherman]
      /\ funds' = [funds EXCEPT ![fisherman] = @ - deposit]
      /\ balance' = balance + deposit
      /\ leftOver' = [leftOver EXCEPT ![fisherman] = @ + odd]
      /\ disputes' = [disputes EXCEPT ![id1] = n1, ![id2] = n2]
      /\ UNCHANGED <<now, stakes, rewarded, settings>>
  <2>1. leftOver' = [leftOver EXCEPT ![fisherman] = @ + deposit - 2 * half]
    BY DEF CreateQueryDisputeConflict
  <2> QED
    BY <2>1 DEF CreateQueryDisputeConflict, CanCreate, PullDeposit, IsDisputeCreated
<1>5. /\ n1 \in DisputeType /\ n1.status = "Pending" /\ n1.fisherman = fisherman
      /\ n1.deposit = half /\ n1.relatedDisputeId = id2
      /\ n2 \in DisputeType /\ n2.status = "Pending" /\ n2.fisherman = fisherman
      /\ n2.deposit = half /\ n2.relatedDisputeId = id1
  <2> HIDE DEF half
  <2> QED BY <1>2, NewDisputeType
<1>6. disputes' = e
  BY <1>4 DEF Created
<1> HIDE DEF deposit, half, odd, n1, n2
<1>7. /\ mid \in DisputesType /\ mid[id1] = n1
      /\ \A other \in DisputeIds \ {id1} : mid[other] = disputes[other]
      /\ Pending(mid) = Pending(disputes) + n1.deposit
      /\ Takes(disputes, mid, n1)
  BY <1>1, <1>4, <1>5, DisputeAdded
<1> HIDE DEF mid
<1>8. /\ e \in DisputesType /\ e[id2] = n2
      /\ \A other \in DisputeIds \ {id2} : e[other] = mid[other]
      /\ Pending(e) = Pending(mid) + n2.deposit
      /\ Takes(mid, e, n2)
  <2>1. mid[id2].status = "Null"
    BY <1>3, <1>4, <1>7
  <2> QED BY <1>5, <1>7, <2>1, DisputeAdded
<1> HIDE DEF e
<1>9. /\ e[id1] = n1 /\ e[id2] = n2
      /\ \A other \in DisputeIds \ {id1, id2} : e[other] = disputes[other]
  BY <1>3, <1>7, <1>8
<1>10. AllLinked(e)
  <2> SUFFICES ASSUME NEW other \in DisputeIds, e[other].status # "Null",
                      e[other].relatedDisputeId # NoDispute
               PROVE  Linked(e, other, e[other].relatedDisputeId)
    BY DEF AllLinked
  <2>1. CASE other = id1
    BY <1>3, <1>5, <1>9, <2>1 DEF Linked
  <2>2. CASE other = id2
    BY <1>3, <1>5, <1>9, <2>2 DEF Linked
  <2>3. CASE other \notin {id1, id2}
    <3> DEFINE r == disputes[other].relatedDisputeId
    <3>1. e[other] = disputes[other] /\ Linked(disputes, other, r)
      BY <1>1, <1>9, <2>3 DEF AllLinked
    <3>2. disputes[other] \in DisputeType
      BY <1>1, <3>1 DEF DisputesType, NullDispute
    <3>3. r \in DisputeIds /\ r \notin {id1, id2}
      BY <1>4, <3>1, <3>2 DEF DisputeType, Linked
    <3>4. e[r] = disputes[r]
      BY <1>9, <3>3
    <3> QED BY <3>1, <3>4 DEF Linked
  <2> QED BY <2>1, <2>2, <2>3
<1>11. /\ balance \in Nat /\ funds \in [Fishermen -> Nat] /\ rewarded \in [Fishermen -> Nat]
       /\ stakes \in [Indexers -> StakeType] /\ balance = Pending(disputes) + LeftOvers
       /\ \A f \in Fishermen : funds[f] + Unreturned(disputes, f) + leftOver[f]
                                 = FishermanFunds + rewarded[f]
  BY InvParts
<1>12. /\ balance' \in Nat /\ funds' \in [Fishermen -> Nat] /\ leftOver' \in [Fishermen -> Nat]
  BY <1>1, <1>2, <1>4, <1>11
<1>13. balance' = Pending(e) + LeftOvers'
  <2>1. LeftOvers' = LeftOvers + odd
    <3>1. /\ \A g \in Fishermen : leftOver[g] \in Int /\ leftOver'[g] \in Int
          /\ \A g \in Fishermen \ {fisherman} : leftOver'[g] = leftOver[g]
          /\ leftOver'[fisherman] = leftOver[fisherman] + odd
      BY <1>1, <1>2, <1>4
    <3>2. SumFunctionOnSet(leftOver', Fishermen) =
            SumFunctionOnSet(leftOver, Fishermen) + leftOver'[fisherman] - leftOver[fisherman]
      BY <3>1, DisputeAssumption, SumUpdate
    <3>3. SumFunctionOnSet(leftOver, Fishermen) \in Int
      BY <3>1, DisputeAssumption, SumType
    <3> QED BY <1>1, <1>2, <3>1, <3>2, <3>3 DEF LeftOvers
  <2>2. LeftOvers \in Nat /\ Pending(disputes) \in Nat
    <3>1. \A g \in Fishermen : leftOver[g] \in Nat
      BY <1>1
    <3> QED BY <1>1, <3>1, DepositTypes, DisputeAssumption, SumType DEF LeftOvers
  <2>3. Pending(e) = Pending(disputes) + half + half
    BY <1>5, <1>7, <1>8
  <2> QED BY <1>2, <1>4, <1>11, <2>1, <2>2, <2>3
<1>14. ASSUME NEW f \in Fishermen
       PROVE  funds'[f] + Unreturned(e, f) + leftOver'[f] = FishermanFunds + rewarded'[f]
  <2>1. funds[f] + Unreturned(disputes, f) + leftOver[f] = FishermanFunds + rewarded[f]
    BY <1>11
  <2>2. /\ funds[f] \in Nat /\ rewarded[f] \in Nat /\ leftOver[f] \in Nat
        /\ Unreturned(disputes, f) \in Nat /\ FishermanFunds \in Nat /\ rewarded'[f] = rewarded[f]
    BY <1>1, <1>4, <1>11, DepositTypes, ParameterTypes
  <2>3. CASE f = fisherman
    <3>1. Unreturned(mid, f) = Unreturned(disputes, f) + half /\ Unreturned(e, f) = Unreturned(mid, f) + half
      BY <1>5, <1>7, <1>8, <2>3 DEF Takes
    <3>2. funds'[f] = funds[f] - deposit /\ leftOver'[f] = leftOver[f] + odd
      BY <1>1, <1>4, <1>11, <2>3
    <3> QED BY <1>2, <2>1, <2>2, <3>1, <3>2
  <2>4. CASE f # fisherman
    <3>1. Unreturned(mid, f) = Unreturned(disputes, f) + 0 /\ Unreturned(e, f) = Unreturned(mid, f) + 0
      BY <1>5, <1>7, <1>8, <2>4 DEF Takes
    <3>2. funds'[f] = funds[f] /\ leftOver'[f] = leftOver[f]
      BY <1>1, <1>4, <1>11, <2>4
    <3> QED BY <2>1, <2>2, <3>1, <3>2
  <2> QED BY <2>3, <2>4
<1>15. SettingTypes' /\ rewarded' \in [Fishermen -> Nat] /\ stakes' \in [Indexers -> StakeType]
  BY <1>1, <1>4, <1>11, <1>12 DEF SettingTypes, settings
<1> QED
  BY <1>6, <1>8, <1>10, <1>12, <1>13, <1>14, <1>15, InvFromParts

(* Steps that leave the deposits alone.                                    *)
LEMMA DepositsUntouched ==
  ASSUME IInv, UNCHANGED <<disputes, balance, funds, rewarded, leftOver>>,
         SettingTypes', stakes' \in [Indexers -> StakeType]
  PROVE  IInv'
<1>1. LeftOvers' = LeftOvers
  BY DEF LeftOvers
<1> QED
  BY <1>1, InvParts, InvFromParts

LEMMA FishermanStep ==
  ASSUME IInv, NEW f \in Fishermen, FishermanCalls(f)
  PROVE  IInv'
<1>1. IndexingDisputes \subseteq DisputeIds /\ FeeDisputes \subseteq DisputeIds
      /\ QueryDisputes \subseteq DisputeIds
  BY DEF DisputeIds
<1>2. CASE \E id \in IndexingDisputes : CreateIndexingDispute(f, id)
  BY <1>1, <1>2, CreateStep DEF CreateIndexingDispute
<1>3. CASE \E id \in FeeDisputes : CreateIndexingFeeDispute(f, id)
  BY <1>1, <1>3, CreateStep DEF CreateIndexingFeeDispute
<1>4. CASE \E id \in QueryDisputes : CreateQueryDispute(f, id)
  BY <1>1, <1>4, CreateStep DEF CreateQueryDispute
<1>5. CASE \E id1, id2 \in QueryDisputes : CreateQueryDisputeConflict(f, id1, id2)
  BY <1>1, <1>5, CreateConflictStep
<1>6. CASE \E id \in DisputeIds : CancelDispute(f, id)
  BY <1>6, ReturnStep DEF CancelDispute
<1> QED
  BY <1>2, <1>3, <1>4, <1>5, <1>6 DEF FishermanCalls

LEMMA ArbitratorStep ==
  ASSUME IInv, ArbitratorCalls
  PROVE  IInv'
<1>1. PICK id \in DisputeIds :
        \/ \E tokens \in SlashAmounts : AcceptDispute(id, tokens)
        \/ \E tokens, tokensRelated \in SlashAmounts, both \in BOOLEAN :
             AcceptDisputeConflict(id, tokens, both, tokensRelated)
        \/ RejectDispute(id)
        \/ DrawDispute(id)
  BY DEF ArbitratorCalls
<1>2. CASE \E tokens \in SlashAmounts : AcceptDispute(id, tokens)
  BY <1>2, AcceptStep
<1>3. CASE \E tokens, tokensRelated \in SlashAmounts, both \in BOOLEAN :
             AcceptDisputeConflict(id, tokens, both, tokensRelated)
  BY <1>3, AcceptConflictStep
<1>4. CASE RejectDispute(id)
  BY <1>4, RejectStep
<1>5. CASE DrawDispute(id)
  BY <1>5, ReturnStep DEF DrawDispute
<1> QED
  BY <1>1, <1>2, <1>3, <1>4, <1>5

LEMMA OwnerStep ==
  ASSUME IInv, OwnerCalls
  PROVE  IInv'
<1>1. SettingTypes /\ parameters \in ParametersType /\ stakes \in [Indexers -> StakeType]
  BY InvParts DEF SettingTypes
<1>2. ASSUME NEW new \in ParametersType, SetParameter(new)
      PROVE  IInv'
  <2>1. SettingTypes' /\ UNCHANGED <<disputes, balance, funds, rewarded, leftOver, stakes>>
    BY <1>1, <1>2 DEF SetParameter, SettingTypes, books
  <2> QED BY <1>1, <2>1, DepositsUntouched
<1>3. CASE \E period \in Periods : SetDisputePeriod(period)
  <2>1. \A period \in Periods : [parameters EXCEPT !.disputePeriod = period] \in ParametersType
    BY <1>1 DEF ParametersType
  <2> QED BY <1>2, <1>3, <2>1 DEF SetDisputePeriod
<1>4. CASE \E deposit \in Deposits : SetDisputeDeposit(deposit)
  <2>1. \A deposit \in Deposits : [parameters EXCEPT !.disputeDeposit = deposit] \in ParametersType
    BY <1>1 DEF ParametersType
  <2> QED BY <1>2, <1>4, <2>1 DEF SetDisputeDeposit
<1>5. CASE \E cut \in RewardCuts : SetFishermanRewardCut(cut)
  <2>1. \A cut \in RewardCuts : [parameters EXCEPT !.fishermanRewardCut = cut] \in ParametersType
    BY <1>1 DEF ParametersType
  <2> QED BY <1>2, <1>5, <2>1 DEF SetFishermanRewardCut
<1>6. CASE \E cut \in SlashingCuts : SetMaxSlashingCut(cut)
  <2>1. \A cut \in SlashingCuts : [parameters EXCEPT !.maxSlashingCut = cut] \in ParametersType
    BY <1>1 DEF ParametersType
  <2> QED BY <1>2, <1>6, <2>1 DEF SetMaxSlashingCut
<1>7. CASE SetSubgraphService
  <2>1. SettingTypes' /\ UNCHANGED <<disputes, balance, funds, rewarded, leftOver, stakes>>
    BY <1>1, <1>7 DEF SetSubgraphService, SettingTypes, books
  <2> QED BY <1>1, <2>1, DepositsUntouched
<1> QED
  BY <1>3, <1>4, <1>5, <1>6, <1>7 DEF OwnerCalls

LEMMA EnvironmentStep ==
  ASSUME IInv, EnvironmentSteps
  PROVE  IInv'
<1>1. SettingTypes /\ stakes \in [Indexers -> StakeType]
  BY InvParts
<1>2. ASSUME NEW indexer \in Indexers,
             NEW stake \in [tokens : StakeAmounts, maxVerifierCut : VerifierCuts,
                            poolTokens : StakeAmounts],
             StakeChanges(indexer, stake)
      PROVE  IInv'
  <2>1. stake \in StakeType
    BY DisputeAssumption DEF StakeType
  <2>2. stakes' \in [Indexers -> StakeType]
    BY <1>1, <1>2, <2>1 DEF StakeChanges
  <2>3. SettingTypes' /\ UNCHANGED <<disputes, balance, funds, rewarded, leftOver>>
    BY <1>1, <1>2 DEF StakeChanges, SettingTypes, settings
  <2> QED BY <2>2, <2>3, DepositsUntouched
<1>3. ASSUME NEW enabled \in BOOLEAN, DelegationSlashingChanges(enabled)
      PROVE  IInv'
  <2>1. SettingTypes' /\ UNCHANGED <<disputes, balance, funds, rewarded, leftOver, stakes>>
    BY <1>1, <1>3 DEF DelegationSlashingChanges, SettingTypes, books
  <2> QED BY <1>1, <2>1, DepositsUntouched
<1>4. ASSUME NEW id \in FeeDisputes, AgreementCollected(id)
      PROVE  IInv'
  <2>1. SettingTypes' /\ UNCHANGED <<disputes, balance, funds, rewarded, leftOver, stakes>>
    BY <1>1, <1>4 DEF AgreementCollected, SettingTypes, books
  <2> QED BY <1>1, <2>1, DepositsUntouched
<1>5. ASSUME NEW value \in PauseInputs, SetPaused(value)
      PROVE  IInv'
  <2>1. value \in BOOLEAN
    BY DisputeAssumption
  <2>2. SettingTypes' /\ UNCHANGED <<disputes, balance, funds, rewarded, leftOver, stakes>>
    BY <1>1, <1>5, <2>1 DEF SetPaused, SettingTypes, books
  <2> QED BY <1>1, <2>2, DepositsUntouched
<1>6. CASE Tick
  <2>1. SettingTypes' /\ UNCHANGED <<disputes, balance, funds, rewarded, leftOver, stakes>>
    BY <1>1, <1>6 DEF Tick, SettingTypes, books, settings
  <2> QED BY <1>1, <2>1, DepositsUntouched
<1> QED
  BY <1>2, <1>3, <1>4, <1>5, <1>6 DEF EnvironmentSteps

-----------------------------------------------------------------------------
(* The invariant.                                                          *)

LEMMA Initial == Init => IInv
<1> SUFFICES ASSUME Init PROVE IInv
  OBVIOUS
<1>1. /\ now = 1 /\ disputes = [id \in DisputeIds |-> NullDispute] /\ balance = 0
      /\ funds = [f \in Fishermen |-> FishermanFunds]
      /\ parameters \in ParametersType /\ subgraphServiceSet = FALSE
      /\ stakes = [i \in Indexers |-> [tokens |-> 0, maxVerifierCut |-> 0, poolTokens |-> 0]]
      /\ delegationSlashing \in BOOLEAN /\ disputable = {} /\ paused = FALSE
      /\ rewarded = [f \in Fishermen |-> 0] /\ leftOver = [f \in Fishermen |-> 0]
  BY DEF Init
<1>2. SettingTypes
  <2>1. subgraphServiceSet \in BOOLEAN /\ paused \in BOOLEAN
    BY <1>1
  <2>2. leftOver \in [Fishermen -> Nat]
    BY <1>1
  <2> QED BY <1>1, <2>1, <2>2 DEF SettingTypes
<1>3. /\ disputes \in DisputesType
      /\ \A id \in DisputeIds : disputes[id].status = "Null"
  BY <1>1 DEF DisputesType, NullDispute
<1>4. Books \in BooksType
  <2>1. [tokens |-> 0, maxVerifierCut |-> 0, poolTokens |-> 0] \in StakeType
    BY DisputeAssumption DEF StakeType
  <2>2. /\ funds \in [Fishermen -> Nat] /\ rewarded \in [Fishermen -> Nat]
        /\ stakes \in [Indexers -> StakeType] /\ balance \in Nat
    BY <1>1, <2>1, DisputeAssumption
  <2> QED BY <1>3, <2>2 DEF Books, BooksType
<1>5. Pending(disputes) = 0 /\ \A f \in Fishermen : Unreturned(disputes, f) = 0
  <2>1. PendingIn(disputes) = {} /\ \A f \in Fishermen : UnreturnedIn(disputes, f) = {}
    BY <1>3 DEF PendingIn, UnreturnedIn
  <2> QED BY <2>1, SumEmpty DEF Pending, Unreturned
<1>6. LeftOvers = 0
  <2>1. \A f \in Fishermen : leftOver[f] = 0
    BY <1>1
  <2> QED BY <2>1, DisputeAssumption, SumZero DEF LeftOvers
<1>7. Sound(Books)
  <2>1. Books.balance = 0 /\ Books.disputes = disputes
    BY <1>1 DEF Books
  <2>2. \A f \in Fishermen : /\ Books.funds[f] = FishermanFunds /\ Books.rewarded[f] = 0
                             /\ leftOver[f] = 0
    BY <1>1 DEF Books
  <2>3. FishermanFunds \in Nat
    BY DisputeAssumption
  <2> QED BY <1>4, <1>5, <1>6, <2>1, <2>2, <2>3 DEF Sound
<1>8. AllLinked(disputes)
  BY <1>3 DEF AllLinked
<1> QED
  BY <1>2, <1>7, <1>8, InvIsSound

LEMMA Step == IInv /\ [Next]_vars => IInv'
<1> SUFFICES ASSUME IInv, [Next]_vars
             PROVE  IInv'
  OBVIOUS
<1>1. CASE \E f \in Fishermen : FishermanCalls(f)
  BY <1>1, FishermanStep
<1>2. CASE ArbitratorCalls
  BY <1>2, ArbitratorStep
<1>3. CASE OwnerCalls
  BY <1>3, OwnerStep
<1>4. CASE EnvironmentSteps
  BY <1>4, EnvironmentStep
<1>5. CASE UNCHANGED vars
  <2>1. SettingTypes /\ stakes \in [Indexers -> StakeType]
    BY InvParts
  <2>2. SettingTypes' /\ UNCHANGED <<disputes, balance, funds, rewarded, leftOver, stakes>>
    BY <1>5, <2>1 DEF vars, SettingTypes, settings, books
  <2> QED BY <2>1, <2>2, DepositsUntouched
<1> QED
  BY <1>1, <1>2, <1>3, <1>4, <1>5 DEF Next

-----------------------------------------------------------------------------
(* What follows for every behaviour.                                       *)

(* The invariant holds in every reachable state.                           *)
THEOREM DisputesInvariance == Spec => []IInv
BY Initial, Step, PTL DEF Spec

(* DepositsAccounted for any number of disputes: the manager holds what is *)
(* pending and no more than odd tokens beside it, and every deposit is     *)
(* given back once, unless it is burned.                                   *)
THEOREM DepositsAccountedAlways == Spec => []DepositsAccounted
<1>1. IInv => DepositsAccounted
  BY DEF IInv, DepositsAccounted
<1> QED
  BY <1>1, DisputesInvariance, PTL

(* LinkedResolvedTogether for any number of linked disputes.               *)
THEOREM LinkedResolvedTogetherAlways == Spec => []LinkedResolvedTogether
<1>1. IInv => LinkedResolvedTogether
  BY DEF IInv
<1> QED
  BY <1>1, DisputesInvariance, PTL

(* RewardNeverBlocksSlash for all cuts, stakes and amounts: rounding never *)
(* makes the reward more than HorizonStaking lets a verifier take.         *)
THEOREM RewardNeverBlocksSlashAlways == Spec => []RewardNeverBlocksSlash
<1>1. IInv => RewardNeverBlocksSlash
  <2> SUFFICES ASSUME IInv, NEW i \in Indexers, NEW tokensSlash \in SlashAmounts,
                      ~paused, StakeSnapshot(i) # 0
               PROVE  SlashSucceeds(stakes[i], tokensSlash, TokensToReward(stakes[i], tokensSlash))
    BY DEF RewardNeverBlocksSlash
  <2>1. SettingTypes /\ stakes[i] \in StakeType /\ tokensSlash \in Nat
    BY InvParts, DisputeAssumption
  <2>2. TokensToReward(stakes[i], tokensSlash)
          <= MulPPM(ProviderTokensSlashed(stakes[i], tokensSlash), stakes[i].maxVerifierCut)
    BY <2>1, SlashEffect
  <2> QED BY <2>2 DEF SlashSucceeds, StakeSnapshot
<1> QED
  BY <1>1, DisputesInvariance, PTL
=============================================================================
