--------------------------- MODULE PaymentsProofs ---------------------------
(***************************************************************************)
(* The safety of the tally collector and the escrow it draws on, proved    *)
(* for every choice of the constants.                                      *)
(*                                                                         *)
(* Two facts carry the proof.  The parts of a payment are natural numbers  *)
(* that add up to it, so that paying them out moves tokens between holders *)
(* and leaves none with GraphPayments but what it was named for.  And an account never thaws less    *)
(* long than the period since its thawing tokens last grew, which is what  *)
(* makes the notice inductive.                                             *)
(*                                                                         *)
(* The last part shows that a RAV which the collector accepts and the      *)
(* account covers passes every check of the contracts behind the collector.*)
(***************************************************************************)
EXTENDS GraphTallyCollector, SumTheorems

-----------------------------------------------------------------------------
(* The constants.                                                          *)

(* A set of four has four different members.                               *)
LEMMA FourDistinct ==
  ASSUME NEW a, NEW b, NEW c, NEW d, Cardinality({a, b, c, d}) = 4
  PROVE  a # b /\ a # c /\ a # d /\ b # c /\ b # d /\ c # d
<1>1. IsFiniteSet({a}) /\ Cardinality({a}) = 1
  BY FS_Singleton
<1>2. /\ IsFiniteSet({a} \cup {b})
      /\ Cardinality({a} \cup {b}) = IF b \in {a} THEN 1 ELSE 2
  BY <1>1, FS_AddElement
<1>3. /\ IsFiniteSet(({a} \cup {b}) \cup {c})
      /\ Cardinality(({a} \cup {b}) \cup {c}) =
           IF c \in {a} \cup {b} THEN Cardinality({a} \cup {b})
           ELSE Cardinality({a} \cup {b}) + 1
  BY <1>2, FS_AddElement
<1>4. Cardinality((({a} \cup {b}) \cup {c}) \cup {d}) =
        IF d \in ({a} \cup {b}) \cup {c} THEN Cardinality(({a} \cup {b}) \cup {c})
        ELSE Cardinality(({a} \cup {b}) \cup {c}) + 1
  BY <1>3, FS_AddElement
<1>5. (({a} \cup {b}) \cup {c}) \cup {d} = {a, b, c, d}
  OBVIOUS
<1>6. d \notin ({a} \cup {b}) \cup {c} /\ c \notin {a} \cup {b} /\ b \notin {a}
  BY <1>2, <1>3, <1>4, <1>5
<1> QED
  BY <1>6

(* The product of three finite sets is finite.                             *)
LEMMA TripleProductFinite ==
  ASSUME NEW A, NEW B, NEW C, IsFiniteSet(A), IsFiniteSet(B), IsFiniteSet(C)
  PROVE  IsFiniteSet(A \X B \X C)
<1> DEFINE f == [z \in (A \X B) \X C |-> <<z[1][1], z[1][2], z[2]>>]
<1>1. IsFiniteSet((A \X B) \X C)
  BY FS_Product
<1>2. f \in [(A \X B) \X C -> A \X B \X C]
  OBVIOUS
<1>3. ASSUME NEW t \in A \X B \X C
      PROVE  \E z \in (A \X B) \X C : f[z] = t
  <2>1. <<<<t[1], t[2]>>, t[3]>> \in (A \X B) \X C
    OBVIOUS
  <2>2. f[<<<<t[1], t[2]>>, t[3]>>] = t
    BY <2>1
  <2> QED BY <2>1, <2>2
<1> HIDE DEF f
<1>4. f \in Surjection((A \X B) \X C, A \X B \X C)
  BY <1>2, <1>3 DEF Surjection
<1> QED
  BY <1>1, <1>4, FS_Surjection

(* So is the product of four.                                              *)
LEMMA QuadrupleProductFinite ==
  ASSUME NEW A, NEW B, NEW C, NEW D,
         IsFiniteSet(A), IsFiniteSet(B), IsFiniteSet(C), IsFiniteSet(D)
  PROVE  IsFiniteSet(A \X B \X C \X D)
<1> DEFINE f == [z \in (A \X B \X C) \X D |-> <<z[1][1], z[1][2], z[1][3], z[2]>>]
<1>1. IsFiniteSet((A \X B \X C) \X D)
  BY TripleProductFinite, FS_Product
<1>2. f \in [(A \X B \X C) \X D -> A \X B \X C \X D]
  OBVIOUS
<1>3. ASSUME NEW t \in A \X B \X C \X D
      PROVE  \E z \in (A \X B \X C) \X D : f[z] = t
  <2>1. <<<<t[1], t[2], t[3]>>, t[4]>> \in (A \X B \X C) \X D
    OBVIOUS
  <2>2. f[<<<<t[1], t[2], t[3]>>, t[4]>>] = t
    BY <2>1
  <2> QED BY <2>1, <2>2
<1> HIDE DEF f
<1>4. f \in Surjection((A \X B \X C) \X D, A \X B \X C \X D)
  BY <1>2, <1>3 DEF Surjection
<1> QED
  BY <1>1, <1>4, FS_Surjection

LEMMA SetsFinite ==
  /\ IsFiniteSet(Accounts) /\ IsFiniteSet(Pools) /\ IsFiniteSet(Receivers)
  /\ IsFiniteSet(Holders) /\ IsFiniteSet(Collections)
<1>1. IsFiniteSet(Accounts)
  BY TripleProductFinite, EscrowAssumption DEF Accounts
<1>2. IsFiniteSet(Pools)
  BY FS_Product, EscrowAssumption DEF Pools
<1>3. IsFiniteSet(Holders)
  <2>1. IsFiniteSet((Payers \cup Receivers) \cup DataServices)
    BY FS_Union, EscrowAssumption
  <2> DEFINE U == (Payers \cup Receivers) \cup DataServices
             V == (((U \cup {EscrowContract}) \cup {PaymentsContract})
                     \cup {StakingContract}) \cup {Burned}
  <2>2. IsFiniteSet(V)
    <3>1. IsFiniteSet(U \cup {EscrowContract})
      BY <2>1, FS_AddElement
    <3>2. IsFiniteSet((U \cup {EscrowContract}) \cup {PaymentsContract})
      BY <3>1, FS_AddElement
    <3>3. IsFiniteSet(((U \cup {EscrowContract}) \cup {PaymentsContract}) \cup {StakingContract})
      BY <3>2, FS_AddElement
    <3> QED BY <3>3, FS_AddElement
  <2>3. V = Holders
    BY DEF Holders
  <2> QED BY <2>2, <2>3
<1>4. IsFiniteSet(Collections)
  BY QuadrupleProductFinite, EscrowAssumption, TallyAssumption DEF Collections
<1> QED
  BY <1>1, <1>2, <1>3, <1>4, EscrowAssumption

(* The contracts are different holders, and none of them is a payer, a     *)
(* receiver or a data service.                                             *)
LEMMA ContractsApart ==
  /\ {EscrowContract, PaymentsContract, StakingContract, Burned} \subseteq Holders
  /\ EscrowContract # PaymentsContract /\ EscrowContract # StakingContract
  /\ EscrowContract # Burned /\ PaymentsContract # StakingContract
  /\ PaymentsContract # Burned /\ StakingContract # Burned
  /\ \A h \in Payers :
       /\ h \in Holders
       /\ h \notin {EscrowContract, PaymentsContract, StakingContract, Burned}
  /\ DataServices \subseteq Holders
<1>1. /\ EscrowContract # PaymentsContract /\ EscrowContract # StakingContract
      /\ EscrowContract # Burned /\ PaymentsContract # StakingContract
      /\ PaymentsContract # Burned /\ StakingContract # Burned
  BY FourDistinct, EscrowAssumption
<1> QED
  BY <1>1, EscrowAssumption DEF Holders

-----------------------------------------------------------------------------
(* Payments.                                                               *)

(* A part of an amount, rounded up, is at most the amount.                 *)
LEMMA PartBounded ==
  ASSUME NEW a \in Nat, NEW cut \in 0 .. MaxPPM
  PROVE  MulPPMRoundUp(a, cut) \in 0 .. a
<1>1. MaxPPM \in Nat \ {0}
  BY LedgerAssumption
<1> DEFINE kept == MaxPPM - cut
           q == (a * kept) \div MaxPPM
<1>2. kept \in Nat /\ kept <= MaxPPM
  BY <1>1
<1>3. a * kept \in Nat
  BY <1>2
<1>4. q \in Nat /\ q * MaxPPM <= a * kept
  BY <1>1, <1>3, Quotient
<1>5. a * kept <= a * MaxPPM
  BY <1>1, <1>2
<1>6. MulPPMRoundUp(a, cut) = a - q
  BY DEF MulPPMRoundUp, MulPPM
<1> HIDE DEF q, kept
<1>7. q <= a
  <2> SUFFICES ASSUME q >= a + 1 PROVE FALSE
    BY <1>4
  <2>1. q * MaxPPM >= (a + 1) * MaxPPM
    BY <1>1, <1>4
  <2>2. (a + 1) * MaxPPM = a * MaxPPM + MaxPPM
    BY <1>1
  <2>3. a * MaxPPM \in Nat /\ q * MaxPPM \in Nat
    BY <1>1, <1>4
  <2> QED BY <1>1, <1>3, <1>4, <1>5, <2>1, <2>2, <2>3
<1> QED
  BY <1>4, <1>6, <1>7

PartsOf(tokens, part) ==
  /\ part.protocol \in Nat /\ part.dataService \in Nat
  /\ part.delegation \in Nat /\ part.receiver \in Nat
  /\ part.protocol + part.dataService + part.delegation + part.receiver = tokens

(* The parts of a payment are natural numbers that add up to it.           *)
LEMMA SplitAddsUp ==
  ASSUME NEW tokens \in Nat, NEW dataServiceCut \in 0 .. MaxPPM,
         NEW delegated \in BOOLEAN, NEW delegationFeeCut \in 0 .. MaxPPM
  PROVE  PartsOf(tokens, Split(tokens, dataServiceCut, delegated, delegationFeeCut))
<1> DEFINE protocol     == MulPPMRoundUp(tokens, ProtocolPaymentCut)
           service      == MulPPMRoundUp(tokens - protocol, dataServiceCut)
           afterService == tokens - protocol - service
           shared       == MulPPMRoundUp(afterService, delegationFeeCut)
           delegation   == IF delegated THEN shared ELSE 0
           part         == Split(tokens, dataServiceCut, delegated, delegationFeeCut)
<1>1. protocol \in 0 .. tokens
  BY PartBounded, PaymentsAssumption
<1>2. part = [protocol |-> protocol, dataService |-> service,
              delegation |-> delegation, receiver |-> afterService - delegation]
  BY DEF Split
<1> HIDE DEF protocol, part
<1>3. service \in 0 .. (tokens - protocol)
  BY <1>1, PartBounded
<1> HIDE DEF service
<1>4. shared \in 0 .. afterService
  BY <1>1, <1>3, PartBounded
<1> HIDE DEF shared
<1>5. PartsOf(tokens, part)
  BY <1>1, <1>2, <1>3, <1>4 DEF PartsOf
<1> QED
  BY <1>5 DEF part

(* The tokens of a transfer, seen from one holder.                         *)
At(h, end, tokens) == IF h = end THEN tokens ELSE 0

(* What a transfer does to every holder; a transfer to itself does nothing.*)
Moved(b, paid, from, to, tokens) ==
  /\ paid \in [Holders -> Nat]
  /\ \A h \in Holders : paid[h] = b[h] - At(h, from, tokens) + At(h, to, tokens)
  /\ SumFunctionOnSet(paid, Holders) = SumFunctionOnSet(b, Holders)

LEMMA TransferMoves ==
  ASSUME NEW b \in [Holders -> Nat], NEW from \in Holders, NEW to \in Holders,
         NEW tokens \in Nat, tokens <= b[from]
  PROVE  Moved(b, Transfer(b, from, to, tokens), from, to, tokens)
<1> DEFINE half == [b EXCEPT ![from] = @ - tokens]
           paid == Transfer(b, from, to, tokens)
<1>1. paid = [half EXCEPT ![to] = @ + tokens]
  BY DEF Transfer
<1>2. /\ half \in [Holders -> Nat]
      /\ half[from] = b[from] - tokens
      /\ \A h \in Holders \ {from} : half[h] = b[h]
  OBVIOUS
<1> HIDE DEF half, paid
<1>3. /\ paid \in [Holders -> Nat]
      /\ paid[to] = half[to] + tokens
      /\ \A h \in Holders \ {to} : paid[h] = half[h]
  BY <1>1, <1>2
<1>4. SumFunctionOnSet(half, Holders) = SumFunctionOnSet(b, Holders) + half[from] - b[from]
  <2>1. \A h \in Holders : b[h] \in Int /\ half[h] \in Int
    BY <1>2
  <2> QED BY <1>2, <2>1, SetsFinite, SumUpdate
<1>5. SumFunctionOnSet(paid, Holders) = SumFunctionOnSet(half, Holders) + paid[to] - half[to]
  <2>1. \A h \in Holders : half[h] \in Int /\ paid[h] \in Int
    BY <1>2, <1>3
  <2> QED BY <1>3, <2>1, SetsFinite, SumUpdate
<1>6. SumFunctionOnSet(b, Holders) \in Int
  <2>1. \A h \in Holders : b[h] \in Int
    OBVIOUS
  <2> QED BY <2>1, SetsFinite, SumType
<1>7. b[from] \in Nat /\ b[to] \in Nat /\ half[to] \in Nat
  BY <1>2
<1>8. SumFunctionOnSet(paid, Holders) = SumFunctionOnSet(b, Holders)
  BY <1>2, <1>3, <1>4, <1>5, <1>6, <1>7
<1>9. ASSUME NEW h \in Holders
      PROVE  paid[h] = b[h] - At(h, from, tokens) + At(h, to, tokens)
  <2>1. b[h] \in Nat /\ half[h] \in Nat
    BY <1>2
  <2>2. half[h] = b[h] - At(h, from, tokens)
    BY <1>2, <2>1 DEF At
  <2>3. paid[h] = half[h] + At(h, to, tokens)
    BY <1>3, <2>1 DEF At
  <2> QED BY <2>2, <2>3
<1>10. Moved(b, paid, from, to, tokens)
  BY <1>3, <1>8, <1>9 DEF Moved
<1> QED
  BY <1>10 DEF paid

(* What paying out does to a holder, whoever is named as data service and  *)
(* destination.                                                            *)
PaidOut(h, payer, tokens, part, dataService, to) ==
  balanceOf[h] - At(h, payer, tokens) + At(h, Burned, part.protocol)
    + At(h, dataService, part.dataService) + At(h, StakingContract, part.delegation)
    + At(h, to, part.receiver)

Paying(destination) == IF destination = NoDestination THEN StakingContract ELSE destination

(* Paying out: GraphPayments passes on all that it pulls, and no token is  *)
(* lost.                                                                   *)
LEMMA PayOutEffect ==
  ASSUME balanceOf \in [Holders -> Nat],
         NEW payer \in Holders \ {PaymentsContract},
         NEW tokens \in Nat, tokens <= balanceOf[payer],
         NEW part, PartsOf(tokens, part),
         NEW dataService \in DataServices, NEW destination \in Destinations
  PROVE  LET paid == PayOut(payer, tokens, part, dataService, destination)
         IN  /\ paid \in [Holders -> Nat]
             /\ \A h \in Holders :
                  paid[h] = PaidOut(h, payer, tokens, part, dataService, Paying(destination))
             /\ SumFunctionOnSet(paid, Holders) = SumFunctionOnSet(balanceOf, Holders)
<1> DEFINE P  == PaymentsContract
           S  == StakingContract
           to == Paying(destination)
           b0 == balanceOf
           b1 == Transfer(b0, payer, P, tokens)
           b2 == Transfer(b1, P, Burned, part.protocol)
           b3 == Transfer(b2, P, dataService, part.dataService)
           b4 == Transfer(b3, P, S, part.delegation)
           b5 == Transfer(b4, P, to, part.receiver)
           Total(b) == SumFunctionOnSet(b, Holders)
<1>1. PayOut(payer, tokens, part, dataService, destination) = b5
  BY DEF PayOut, Burn, Paying
<1>2. /\ P \in Holders /\ S \in Holders /\ Burned \in Holders /\ dataService \in Holders
      /\ P # S /\ P # Burned /\ P # payer
  BY ContractsApart
<1>3. to \in Holders
  BY <1>2, EscrowAssumption DEF Paying
<1>4. /\ part.protocol \in Nat /\ part.dataService \in Nat
      /\ part.delegation \in Nat /\ part.receiver \in Nat
      /\ part.protocol + part.dataService + part.delegation + part.receiver = tokens
  BY DEF PartsOf
<1>5. b0 \in [Holders -> Nat] /\ tokens <= b0[payer]
  OBVIOUS
<1> HIDE DEF P, S, to, b0
<1>6. Moved(b0, b1, payer, P, tokens)
  <2> HIDE DEF Total
  <2> QED BY <1>2, <1>5, TransferMoves
<1> HIDE DEF b1
<1>7. b1 \in [Holders -> Nat] /\ b1[P] = b0[P] + tokens /\ b0[P] \in Nat
  BY <1>2, <1>4, <1>5, <1>6 DEF Moved, At
<1>8. Moved(b1, b2, P, Burned, part.protocol)
  <2>1. part.protocol <= b1[P]
    BY <1>4, <1>7
  <2> HIDE DEF Total
  <2> QED BY <1>2, <1>4, <1>7, <2>1, TransferMoves
<1> HIDE DEF b2
<1>9. b2 \in [Holders -> Nat] /\ b2[P] = b1[P] - part.protocol
  BY <1>2, <1>4, <1>7, <1>8 DEF Moved, At
<1>10. Moved(b2, b3, P, dataService, part.dataService)
  <2>1. part.dataService <= b2[P]
    BY <1>4, <1>7, <1>9
  <2> HIDE DEF Total
  <2> QED BY <1>2, <1>4, <1>9, <2>1, TransferMoves
<1> HIDE DEF b3
<1>11. b3 \in [Holders -> Nat] /\ b3[P] >= b2[P] - part.dataService
  BY <1>2, <1>4, <1>9, <1>10 DEF Moved, At
<1>12. Moved(b3, b4, P, S, part.delegation)
  <2>1. part.delegation <= b3[P]
    <3>1. b3[P] \in Nat
      BY <1>2, <1>11
    <3> QED BY <1>4, <1>7, <1>9, <1>11, <3>1
  <2> HIDE DEF Total
  <2> QED BY <1>2, <1>4, <1>11, <2>1, TransferMoves
<1> HIDE DEF b4
<1>13. b4 \in [Holders -> Nat] /\ b4[P] = b3[P] - part.delegation
  BY <1>2, <1>4, <1>11, <1>12 DEF Moved, At
<1>14. Moved(b4, b5, P, to, part.receiver)
  <2>1. part.receiver <= b4[P]
    <3>1. b3[P] \in Nat /\ b4[P] \in Nat
      BY <1>2, <1>11, <1>13
    <3> QED BY <1>4, <1>7, <1>9, <1>11, <1>13, <3>1
  <2> HIDE DEF Total
  <2> QED BY <1>2, <1>3, <1>4, <1>13, <2>1, TransferMoves
<1> HIDE DEF b5
<1>15. b5 \in [Holders -> Nat] /\ Total(b5) = Total(b0)
  BY <1>6, <1>8, <1>10, <1>12, <1>14 DEF Moved
<1>16. ASSUME NEW h \in Holders
       PROVE  b5[h] = PaidOut(h, payer, tokens, part, dataService, to)
  <2> DEFINE x0 == At(h, payer, tokens)
             x1 == At(h, P, tokens)
             x2 == At(h, P, part.protocol)
             y2 == At(h, Burned, part.protocol)
             x3 == At(h, P, part.dataService)
             y3 == At(h, dataService, part.dataService)
             x4 == At(h, P, part.delegation)
             y4 == At(h, S, part.delegation)
             x5 == At(h, P, part.receiver)
             y5 == At(h, to, part.receiver)
  <2>1. /\ b1[h] = b0[h] - x0 + x1
        /\ b2[h] = b1[h] - x2 + y2
        /\ b3[h] = b2[h] - x3 + y3
        /\ b4[h] = b3[h] - x4 + y4
        /\ b5[h] = b4[h] - x5 + y5
    BY <1>6, <1>8, <1>10, <1>12, <1>14 DEF Moved
  <2>2. /\ x0 \in Nat /\ x1 \in Nat /\ x2 \in Nat /\ y2 \in Nat /\ x3 \in Nat
        /\ y3 \in Nat /\ x4 \in Nat /\ y4 \in Nat /\ x5 \in Nat /\ y5 \in Nat
        /\ b0[h] \in Nat
    BY <1>4, <1>5 DEF At
  <2>3. x1 = x2 + x3 + x4 + x5
    BY <1>4 DEF At
  <2>4. PaidOut(h, payer, tokens, part, dataService, to) = b0[h] - x0 + y2 + y3 + y4 + y5
    BY DEF PaidOut, S, b0
  <2> HIDE DEF x0, x1, x2, y2, x3, y3, x4, y4, x5, y5
  <2>5. b5[h] = b0[h] - x0 + y2 + y3 + y4 + y5
    BY <2>1, <2>2, <2>3
  <2> QED BY <2>4, <2>5
<1> QED
  BY <1>1, <1>15, <1>16 DEF b0, to

-----------------------------------------------------------------------------
(* The inductive invariant of the escrow.                                  *)

(* An account thaws at least the whole period since its thawing tokens     *)
(* last grew.                                                              *)
NoticeKept ==
  \A a \in Accounts :
    /\ raisedAt[a] <= now
    /\ escrowAccounts[a].thawEndTimestamp # 0 =>
         escrowAccounts[a].thawEndTimestamp >= raisedAt[a] + ThawingPeriod

EscrowInv ==
  /\ TypeOK /\ now > 0
  /\ EscrowSolvent /\ ThawingConsistent /\ NoticeKept
  /\ PaymentsPassThrough

TotalBalance(accounts) ==
  SumFunctionOnSet([a \in Accounts |-> accounts[a].balance], Accounts)

(* What WithdrawnAfterNotice says of a step.                               *)
NoticeStep ==
  \A a \in Accounts :
    LET left == escrowAccounts[a].balance - escrowAccounts'[a].balance
        withdrawn == left - (collected'[a] - collected[a])
    IN  withdrawn > 0 =>
          /\ withdrawn <= escrowAccounts[a].tokensThawing
          /\ now > raisedAt[a] + ThawingPeriod

(* A new content of an account is sound, and keeps the notice.             *)
SoundAccount(a, new) ==
  LET old == escrowAccounts[a]
  IN  /\ new \in EscrowAccountType
      /\ new.tokensThawing <= new.balance
      /\ (new.tokensThawing = 0) <=> (new.thawEndTimestamp = 0)
      /\ \/ new.thawEndTimestamp \in {0, ThawEnd}
         \/ /\ new.thawEndTimestamp = old.thawEndTimestamp
            /\ new.tokensThawing <= old.tokensThawing

(* The total of the accounts after one of them changed.                    *)
LEMMA TotalBalanceUpdate ==
  ASSUME NEW old \in [Accounts -> EscrowAccountType], NEW a \in Accounts,
         NEW new \in EscrowAccountType
  PROVE  /\ TotalBalance(old) \in Nat
         /\ TotalBalance([old EXCEPT ![a] = new]) =
              TotalBalance(old) + new.balance - old[a].balance
<1> DEFINE f == [b \in Accounts |-> old[b].balance]
           g == [b \in Accounts |-> [old EXCEPT ![a] = new][b].balance]
<1>1. \A b \in Accounts : f[b] \in Nat /\ g[b] \in Nat
  BY DEF EscrowAccountType
<1>2. \A b \in Accounts \ {a} : f[b] = g[b]
  OBVIOUS
<1>3. f[a] = old[a].balance /\ g[a] = new.balance
  OBVIOUS
<1>4. TotalBalance(old) = SumFunctionOnSet(f, Accounts)
  BY DEF TotalBalance
<1>5. TotalBalance([old EXCEPT ![a] = new]) = SumFunctionOnSet(g, Accounts)
  BY DEF TotalBalance
<1> HIDE DEF f, g
<1>6. SumFunctionOnSet(f, Accounts) \in Nat
  BY <1>1, SetsFinite, SumType
<1>7. \A b \in Accounts : f[b] \in Int /\ g[b] \in Int
  BY <1>1
<1>8. SumFunctionOnSet(g, Accounts) = SumFunctionOnSet(f, Accounts) + g[a] - f[a]
  BY <1>2, <1>7, SetsFinite, SumUpdate
<1> QED
  BY <1>3, <1>4, <1>5, <1>6, <1>8

(* One account changes soundly, and the escrow's tokens follow.            *)
LEMMA AccountStep ==
  ASSUME EscrowInv, NEW a \in Accounts, NEW new, SoundAccount(a, new),
         SetAccount(a, new), now' = now,
         balanceOf' \in [Holders -> Nat],
         balanceOf'[EscrowContract] >=
           balanceOf[EscrowContract] + new.balance - escrowAccounts[a].balance
  PROVE  /\ escrowAccounts' \in [Accounts -> EscrowAccountType]
         /\ escrowAccounts'[a] = new
         /\ \A b \in Accounts \ {a} : escrowAccounts'[b] = escrowAccounts[b]
         /\ raisedAt' \in [Accounts -> Nat]
         /\ EscrowSolvent' /\ ThawingConsistent' /\ NoticeKept'
<1>1. /\ escrowAccounts \in [Accounts -> EscrowAccountType]
      /\ raisedAt \in [Accounts -> Nat] /\ now \in Nat
      /\ balanceOf[EscrowContract] \in Nat
      /\ balanceOf'[EscrowContract] \in Nat
  BY ContractsApart DEF EscrowInv, TypeOK
<1>2. /\ new \in EscrowAccountType
      /\ new.balance \in Nat /\ new.tokensThawing \in Nat /\ new.thawEndTimestamp \in Nat
      /\ escrowAccounts[a].balance \in Nat /\ escrowAccounts[a].tokensThawing \in Nat
      /\ escrowAccounts[a].thawEndTimestamp \in Nat
  BY <1>1 DEF SoundAccount, EscrowAccountType
<1>3. /\ escrowAccounts' = [escrowAccounts EXCEPT ![a] = new]
      /\ escrowAccounts' \in [Accounts -> EscrowAccountType]
      /\ escrowAccounts'[a] = new
      /\ \A b \in Accounts \ {a} : escrowAccounts'[b] = escrowAccounts[b]
  BY <1>1, <1>2 DEF SetAccount
<1>4. /\ raisedAt' \in [Accounts -> Nat]
      /\ raisedAt'[a] = IF new.tokensThawing > escrowAccounts[a].tokensThawing
                        THEN now ELSE raisedAt[a]
      /\ \A b \in Accounts \ {a} : raisedAt'[b] = raisedAt[b]
  BY <1>1 DEF SetAccount
<1>5. EscrowSolvent'
  <2>1. TotalBalance(escrowAccounts) <= balanceOf[EscrowContract]
    BY DEF EscrowInv, EscrowSolvent, TotalBalance
  <2>2. /\ TotalBalance(escrowAccounts) \in Nat
        /\ TotalBalance(escrowAccounts') =
             TotalBalance(escrowAccounts) + new.balance - escrowAccounts[a].balance
    BY <1>1, <1>2, <1>3, TotalBalanceUpdate
  <2>3. TotalBalance(escrowAccounts') <= balanceOf'[EscrowContract]
    BY <1>1, <1>2, <2>1, <2>2
  <2> QED BY <2>3 DEF EscrowSolvent, TotalBalance
<1>6. ThawingConsistent'
  BY <1>3 DEF ThawingConsistent, EscrowInv, SoundAccount
<1>7. NoticeKept'
  <2>1. ThawingPeriod \in Nat /\ ThawEnd = now + ThawingPeriod
    BY EscrowAssumption DEF ThawEnd
  <2>2. ASSUME NEW b \in Accounts
        PROVE  /\ raisedAt'[b] <= now'
               /\ escrowAccounts'[b].thawEndTimestamp # 0 =>
                    escrowAccounts'[b].thawEndTimestamp >= raisedAt'[b] + ThawingPeriod
    <3>1. /\ raisedAt[b] <= now /\ raisedAt[b] \in Nat
          /\ escrowAccounts[b].thawEndTimestamp # 0 =>
               escrowAccounts[b].thawEndTimestamp >= raisedAt[b] + ThawingPeriod
      BY <1>1 DEF EscrowInv, NoticeKept
    <3>2. CASE b # a
      BY <1>3, <1>4, <3>1, <3>2
    <3>3. CASE b = a
      <4>1. raisedAt'[a] <= now /\ raisedAt'[a] \in Nat
        BY <1>1, <1>4, <3>1, <3>3
      <4>2. CASE new.thawEndTimestamp = 0
        BY <1>3, <3>3, <4>1, <4>2
      <4>3. CASE new.thawEndTimestamp = ThawEnd
        BY <1>1, <1>3, <2>1, <3>3, <4>1, <4>3
      <4>4. CASE /\ new.thawEndTimestamp = escrowAccounts[a].thawEndTimestamp
                 /\ new.tokensThawing <= escrowAccounts[a].tokensThawing
        BY <1>2, <1>3, <1>4, <3>1, <3>3, <4>1, <4>4
      <4> QED BY <4>2, <4>3, <4>4 DEF SoundAccount
    <3> QED BY <3>2, <3>3
  <2> QED BY <2>2 DEF NoticeKept
<1> QED
  BY <1>3, <1>4, <1>5, <1>6, <1>7

(* A call that moves no token and collects nothing.                        *)
LEMMA ThawingStep ==
  ASSUME EscrowInv, NEW a \in Accounts, NEW new, SoundAccount(a, new),
         new.balance = escrowAccounts[a].balance, SetAccount(a, new),
         UNCHANGED <<now, balanceOf, stakingVars, paused, collected>>
  PROVE  EscrowInv' /\ NoticeStep
<1>1. /\ escrowAccounts[a].balance \in Nat /\ balanceOf[EscrowContract] \in Nat
      /\ escrowAccounts \in [Accounts -> EscrowAccountType]
  BY ContractsApart DEF EscrowInv, TypeOK, EscrowAccountType
<1>2. balanceOf'[EscrowContract] >=
        balanceOf[EscrowContract] + new.balance - escrowAccounts[a].balance
  BY <1>1
<1>3. balanceOf' \in [Holders -> Nat]
  BY DEF EscrowInv, TypeOK
<1>4. /\ escrowAccounts' \in [Accounts -> EscrowAccountType]
      /\ escrowAccounts'[a] = new
      /\ \A b \in Accounts \ {a} : escrowAccounts'[b] = escrowAccounts[b]
      /\ raisedAt' \in [Accounts -> Nat]
      /\ EscrowSolvent' /\ ThawingConsistent' /\ NoticeKept'
  BY <1>2, <1>3, AccountStep
<1>5. EscrowInv'
  BY <1>4 DEF EscrowInv, TypeOK, PaymentsPassThrough, stakingVars
<1>6. NoticeStep
  <2>1. ASSUME NEW b \in Accounts
        PROVE  /\ escrowAccounts[b].balance - escrowAccounts'[b].balance = 0
               /\ collected'[b] - collected[b] = 0
    BY <1>1, <1>4 DEF EscrowInv, TypeOK, EscrowAccountType
  <2> QED BY <2>1 DEF NoticeStep
<1> QED
  BY <1>5, <1>6

-----------------------------------------------------------------------------
(* The calls of the payers.                                                *)

(* A token moves between a payer and the escrow.                           *)
LEMMA EscrowTransfer ==
  ASSUME EscrowInv, NEW payer \in Payers,
         NEW from \in {payer, EscrowContract}, NEW to \in {payer, EscrowContract}, from # to,
         NEW tokens \in Nat, CanTransfer(from, tokens),
         balanceOf' = Transfer(balanceOf, from, to, tokens),
         UNCHANGED stakingVars
  PROVE  /\ balanceOf' \in [Holders -> Nat]
         /\ balanceOf'[EscrowContract] =
              IF to = EscrowContract THEN balanceOf[EscrowContract] + tokens
              ELSE balanceOf[EscrowContract] - tokens
         /\ PaymentsPassThrough'
<1>1. balanceOf \in [Holders -> Nat] /\ tokens <= balanceOf[from]
  BY DEF EscrowInv, TypeOK, CanTransfer
<1>2. /\ payer \in Holders /\ EscrowContract \in Holders
      /\ PaymentsContract \in Holders \ {payer, EscrowContract}
      /\ StakingContract \in Holders \ {payer, EscrowContract}
  BY ContractsApart
<1>3. /\ balanceOf' \in [Holders -> Nat]
      /\ balanceOf'[from] = balanceOf[from] - tokens
      /\ balanceOf'[to] = balanceOf[to] + tokens
      /\ \A h \in Holders \ {from, to} : balanceOf'[h] = balanceOf[h]
      /\ SumFunctionOnSet(balanceOf', Holders) = SumFunctionOnSet(balanceOf, Holders)
  BY <1>1, <1>2, TransferMoves DEF Moved, At
<1>4. PaymentsPassThrough'
  BY <1>2, <1>3 DEF EscrowInv, PaymentsPassThrough, stakingVars
<1> QED
  BY <1>3, <1>4

LEMMA DepositStep ==
  ASSUME EscrowInv, NEW a \in Accounts, NEW caller \in Payers, NEW tokens \in TokenAmounts,
         Deposit(caller, a, tokens)
  PROVE  EscrowInv' /\ NoticeStep
<1> DEFINE old == escrowAccounts[a]
           new == [old EXCEPT !.balance = @ + tokens]
<1>1. tokens \in Nat
  BY EscrowAssumption
<1>2. /\ old \in EscrowAccountType /\ old.balance \in Nat
      /\ balanceOf[EscrowContract] \in Nat /\ collected \in [Accounts -> Nat]
      /\ escrowAccounts \in [Accounts -> EscrowAccountType]
  BY ContractsApart DEF EscrowInv, TypeOK, EscrowAccountType
<1>3. /\ new \in EscrowAccountType /\ new.balance = old.balance + tokens
      /\ new.tokensThawing = old.tokensThawing
      /\ new.thawEndTimestamp = old.thawEndTimestamp
  BY <1>1, <1>2 DEF EscrowAccountType
<1>4. SoundAccount(a, new)
  BY <1>1, <1>2, <1>3 DEF SoundAccount, EscrowInv, ThawingConsistent, EscrowAccountType
<1>5. /\ CanTransfer(caller, tokens) /\ SetAccount(a, new)
      /\ balanceOf' = Transfer(balanceOf, caller, EscrowContract, tokens)
      /\ UNCHANGED <<now, stakingVars, paused, collected>>
  BY DEF Deposit
<1> HIDE DEF new
<1>6. /\ balanceOf' \in [Holders -> Nat]
      /\ balanceOf'[EscrowContract] = balanceOf[EscrowContract] + tokens
      /\ PaymentsPassThrough'
  BY <1>1, <1>5, EscrowTransfer, ContractsApart
<1>7. balanceOf'[EscrowContract] >= balanceOf[EscrowContract] + new.balance - old.balance
  BY <1>1, <1>2, <1>3, <1>6
<1>8. /\ escrowAccounts' \in [Accounts -> EscrowAccountType]
      /\ escrowAccounts'[a] = new
      /\ \A b \in Accounts \ {a} : escrowAccounts'[b] = escrowAccounts[b]
      /\ raisedAt' \in [Accounts -> Nat]
      /\ EscrowSolvent' /\ ThawingConsistent' /\ NoticeKept'
  BY <1>4, <1>5, <1>6, <1>7, AccountStep
<1>9. EscrowInv'
  BY <1>5, <1>6, <1>8 DEF EscrowInv, TypeOK, stakingVars
<1>10. NoticeStep
  <2>1. ASSUME NEW b \in Accounts
        PROVE  ~(escrowAccounts[b].balance - escrowAccounts'[b].balance
                   - (collected'[b] - collected[b]) > 0)
    <3>1. escrowAccounts[b].balance \in Nat /\ collected[b] \in Nat
      BY <1>2 DEF EscrowAccountType
    <3> QED BY <1>1, <1>3, <1>5, <1>8, <3>1
  <2> QED BY <2>1 DEF NoticeStep
<1> QED
  BY <1>9, <1>10

LEMMA ThawStep ==
  ASSUME EscrowInv, NEW a \in Accounts, NEW tokens \in ThawAmounts, Thaw(a, tokens)
  PROVE  EscrowInv' /\ NoticeStep
<1> DEFINE old == escrowAccounts[a]
           new == [old EXCEPT !.tokensThawing = tokens, !.thawEndTimestamp = ThawEnd]
<1>1. /\ tokens \in Nat /\ tokens > 0 /\ tokens <= old.balance
      /\ ThawEnd \in Nat /\ ThawEnd > 0
  BY EscrowAssumption DEF Thaw, ThawEnd, EscrowInv, TypeOK
<1>2. old \in EscrowAccountType
  BY DEF EscrowInv, TypeOK
<1>3. SetAccount(a, new) /\ UNCHANGED <<now, balanceOf, stakingVars, paused, collected>>
  BY DEF Thaw
<1>4. /\ new \in EscrowAccountType /\ new.balance = old.balance
      /\ new.tokensThawing = tokens /\ new.thawEndTimestamp = ThawEnd
  BY <1>1, <1>2 DEF EscrowAccountType
<1> HIDE DEF new
<1>5. SoundAccount(a, new)
  BY <1>1, <1>4 DEF SoundAccount
<1> QED
  BY <1>3, <1>4, <1>5, ThawingStep

LEMMA AdjustThawStep ==
  ASSUME EscrowInv, NEW a \in Accounts, NEW tokensToThaw \in ThawAmounts, NEW even \in BOOLEAN,
         AdjustThaw(a, tokensToThaw, even)
  PROVE  EscrowInv' /\ NoticeStep
<1> DEFINE old == escrowAccounts[a]
           new == AdjustedThaw(old, tokensToThaw, even)
           tokens == IF tokensToThaw < old.balance THEN tokensToThaw ELSE old.balance
           lower == [old EXCEPT !.tokensThawing = tokens,
                                !.thawEndTimestamp = IF tokens = 0 THEN 0 ELSE @]
           higher == [old EXCEPT !.tokensThawing = tokens, !.thawEndTimestamp = ThawEnd]
<1>1. /\ old \in EscrowAccountType /\ old.balance \in Nat /\ old.tokensThawing \in Nat
      /\ old.thawEndTimestamp \in Nat
      /\ old.tokensThawing <= old.balance
      /\ (old.tokensThawing = 0) <=> (old.thawEndTimestamp = 0)
  BY DEF EscrowInv, TypeOK, ThawingConsistent, EscrowAccountType
<1>2. tokensToThaw \in Nat /\ ThawEnd \in Nat /\ ThawEnd > 0
  BY EscrowAssumption DEF ThawEnd, EscrowInv, TypeOK
<1>3. tokens \in Nat /\ tokens <= old.balance
  BY <1>1, <1>2
<1>4. \/ new = old
      \/ tokens < old.tokensThawing /\ new = lower
      \/ tokens > old.tokensThawing /\ new = higher
  BY <1>1, <1>3 DEF AdjustedThaw
<1>5. SetAccount(a, new) /\ UNCHANGED <<now, balanceOf, stakingVars, paused, collected>>
  BY DEF AdjustThaw
<1> HIDE DEF new, tokens
<1>6. SoundAccount(a, old)
  BY <1>1 DEF SoundAccount
<1>7. ASSUME tokens < old.tokensThawing
      PROVE  SoundAccount(a, lower) /\ lower.balance = old.balance
  <2>1. /\ lower \in EscrowAccountType /\ lower.balance = old.balance
        /\ lower.tokensThawing = tokens
        /\ lower.thawEndTimestamp = IF tokens = 0 THEN 0 ELSE old.thawEndTimestamp
    BY <1>1, <1>3 DEF EscrowAccountType
  <2> HIDE DEF lower
  <2> QED BY <1>1, <1>3, <1>7, <2>1 DEF SoundAccount
<1>8. ASSUME tokens > old.tokensThawing
      PROVE  SoundAccount(a, higher) /\ higher.balance = old.balance
  <2>1. /\ higher \in EscrowAccountType /\ higher.balance = old.balance
        /\ higher.tokensThawing = tokens /\ higher.thawEndTimestamp = ThawEnd
    BY <1>1, <1>2, <1>3 DEF EscrowAccountType
  <2> HIDE DEF higher
  <2> QED BY <1>1, <1>2, <1>3, <1>8, <2>1 DEF SoundAccount
<1>9. SoundAccount(a, new) /\ new.balance = old.balance
  BY <1>4, <1>6, <1>7, <1>8
<1> QED
  BY <1>5, <1>9, ThawingStep

LEMMA CancelThawStep ==
  ASSUME EscrowInv, NEW a \in Accounts, CancelThaw(a)
  PROVE  EscrowInv' /\ NoticeStep
<1> DEFINE old == escrowAccounts[a]
           new == [old EXCEPT !.tokensThawing = 0, !.thawEndTimestamp = 0]
<1>1. old \in EscrowAccountType
  BY DEF EscrowInv, TypeOK
<1>2. SetAccount(a, new) /\ UNCHANGED <<now, balanceOf, stakingVars, paused, collected>>
  BY DEF CancelThaw
<1>3. /\ new \in EscrowAccountType /\ new.balance = old.balance
      /\ new.tokensThawing = 0 /\ new.thawEndTimestamp = 0
  BY <1>1 DEF EscrowAccountType
<1>4. old.balance \in Nat
  BY <1>1 DEF EscrowAccountType
<1> HIDE DEF new
<1>5. SoundAccount(a, new)
  BY <1>3, <1>4 DEF SoundAccount
<1> QED
  BY <1>2, <1>3, <1>5, ThawingStep

(* The only step that takes tokens that were not collected.                *)
LEMMA WithdrawStep ==
  ASSUME EscrowInv, NEW a \in Accounts, Withdraw(a)
  PROVE  EscrowInv' /\ NoticeStep
<1> DEFINE old == escrowAccounts[a]
           tokens == IF old.tokensThawing > old.balance THEN old.balance ELSE old.tokensThawing
           new == [balance |-> old.balance - tokens, tokensThawing |-> 0, thawEndTimestamp |-> 0]
<1>1. /\ old \in EscrowAccountType /\ old.balance \in Nat /\ old.tokensThawing \in Nat
      /\ old.thawEndTimestamp \in Nat
      /\ old.tokensThawing <= old.balance
      /\ balanceOf[EscrowContract] \in Nat /\ collected \in [Accounts -> Nat]
      /\ escrowAccounts \in [Accounts -> EscrowAccountType]
      /\ raisedAt[a] \in Nat /\ now \in Nat /\ a[1] \in Payers
  BY ContractsApart DEF EscrowInv, TypeOK, ThawingConsistent, EscrowAccountType, Accounts
<1>2. tokens = old.tokensThawing
  BY <1>1
<1>3. /\ old.thawEndTimestamp # 0 /\ old.thawEndTimestamp < now
      /\ CanTransfer(EscrowContract, tokens) /\ SetAccount(a, new)
      /\ balanceOf' = Transfer(balanceOf, EscrowContract, a[1], tokens)
      /\ UNCHANGED <<now, stakingVars, paused, collected>>
  BY DEF Withdraw
<1>4. tokens \in Nat /\ tokens <= old.balance
  BY <1>1, <1>2
<1>5. SoundAccount(a, new) /\ new.balance = old.balance - tokens
  BY <1>1, <1>4 DEF SoundAccount, EscrowAccountType
<1> HIDE DEF tokens, new
<1>6. /\ balanceOf' \in [Holders -> Nat]
      /\ balanceOf'[EscrowContract] = balanceOf[EscrowContract] - tokens
      /\ PaymentsPassThrough'
  BY <1>1, <1>3, <1>4, EscrowTransfer, ContractsApart
<1>7. balanceOf'[EscrowContract] >= balanceOf[EscrowContract] + new.balance - old.balance
  BY <1>1, <1>4, <1>5, <1>6
<1>8. /\ escrowAccounts' \in [Accounts -> EscrowAccountType]
      /\ escrowAccounts'[a] = new
      /\ \A b \in Accounts \ {a} : escrowAccounts'[b] = escrowAccounts[b]
      /\ raisedAt' \in [Accounts -> Nat]
      /\ EscrowSolvent' /\ ThawingConsistent' /\ NoticeKept'
  BY <1>3, <1>5, <1>6, <1>7, AccountStep
<1>9. EscrowInv'
  BY <1>3, <1>6, <1>8 DEF EscrowInv, TypeOK, stakingVars
<1>10. NoticeStep
  <2>1. ASSUME NEW b \in Accounts \ {a}
        PROVE  ~(escrowAccounts[b].balance - escrowAccounts'[b].balance
                   - (collected'[b] - collected[b]) > 0)
    <3>1. escrowAccounts[b].balance \in Nat /\ collected[b] \in Nat
      BY <1>1 DEF EscrowAccountType
    <3> QED BY <1>3, <1>8, <3>1
  <2>2. old.balance - escrowAccounts'[a].balance - (collected'[a] - collected[a]) = tokens
    BY <1>1, <1>3, <1>4, <1>5, <1>8
  <2>3. now > raisedAt[a] + ThawingPeriod
    <3>1. old.thawEndTimestamp >= raisedAt[a] + ThawingPeriod
      BY <1>3 DEF EscrowInv, NoticeKept
    <3> QED BY <1>1, <1>3, <3>1, EscrowAssumption
  <2> QED BY <1>1, <1>2, <2>1, <2>2, <2>3 DEF NoticeStep
<1> QED
  BY <1>9, <1>10

-----------------------------------------------------------------------------
(* Payments, through the escrow and direct.                                *)

LEMMA CollectPaymentEffect ==
  ASSUME EscrowInv, NEW payer \in Holders \ {PaymentsContract, StakingContract},
         NEW receiver \in Receivers, NEW tokens \in Nat, NEW dataService \in DataServices,
         NEW dataServiceCut \in Cuts, NEW destination \in Destinations,
         CollectPayment(payer, receiver, tokens, dataService, dataServiceCut, destination)
  PROVE  /\ balanceOf' \in [Holders -> Nat]
         /\ stakeOf' \in [Receivers -> Nat] /\ poolTokens' \in [Pools -> Nat]
         /\ directed' \in [{PaymentsContract, StakingContract} -> Nat]
         /\ UNCHANGED <<hasDelegators, feeCutOf>>
         /\ payer # EscrowContract => balanceOf'[EscrowContract] >= balanceOf[EscrowContract]
         /\ PaymentsPassThrough'
<1> DEFINE pool == <<receiver, dataService>>
           part == Split(tokens, dataServiceCut, pool \in hasDelegators, feeCutOf[pool])
           staked == IF destination = NoDestination THEN part.receiver ELSE 0
<1>1. /\ pool \in Pools /\ balanceOf \in [Holders -> Nat]
      /\ stakeOf \in [Receivers -> Nat] /\ poolTokens \in [Pools -> Nat]
      /\ feeCutOf[pool] \in 0 .. MaxPPM
      /\ directed \in [{PaymentsContract, StakingContract} -> Nat]
  BY DEF EscrowInv, TypeOK, Pools
<1>2. /\ dataServiceCut \in 0 .. MaxPPM
      /\ tokens <= balanceOf[payer]
      /\ balanceOf' = PayOut(payer, tokens, part, dataService, destination)
      /\ poolTokens' = [poolTokens EXCEPT ![pool] = @ + part.delegation]
      /\ stakeOf' = IF destination = NoDestination
                    THEN [stakeOf EXCEPT ![receiver] = @ + part.receiver]
                    ELSE stakeOf
      /\ directed' = [c \in DOMAIN directed |->
                        directed[c] + (IF c = dataService THEN part.dataService ELSE 0)
                                    + (IF c = destination THEN part.receiver ELSE 0)]
      /\ UNCHANGED <<hasDelegators, feeCutOf>>
  BY EscrowAssumption, LedgerAssumption DEF CollectPayment, IsValidPPM, CanTransfer
<1>3. PartsOf(tokens, part)
  <2>1. (pool \in hasDelegators) \in BOOLEAN
    OBVIOUS
  <2> QED BY <1>1, <1>2, <2>1, SplitAddsUp
<1> HIDE DEF part
<1>4. /\ part.protocol \in Nat /\ part.dataService \in Nat
      /\ part.delegation \in Nat /\ part.receiver \in Nat
  BY <1>3 DEF PartsOf
<1>5. /\ balanceOf' \in [Holders -> Nat]
      /\ \A h \in Holders :
           balanceOf'[h] = PaidOut(h, payer, tokens, part, dataService, Paying(destination))
      /\ SumFunctionOnSet(balanceOf', Holders) = SumFunctionOnSet(balanceOf, Holders)
  BY <1>1, <1>2, <1>3, PayOutEffect
<1> DEFINE toService(c)  == At(c, dataService, part.dataService)
           toReceiver(c) == At(c, destination, part.receiver)
<1>11. /\ directed' \in [{PaymentsContract, StakingContract} -> Nat]
       /\ \A c \in {PaymentsContract, StakingContract} :
            /\ directed'[c] = directed[c] + toService(c) + toReceiver(c)
            /\ toService(c) \in Nat /\ toReceiver(c) \in Nat
            /\ directed[c] \in Nat /\ balanceOf[c] \in Nat
  <2>1. \A c \in {PaymentsContract, StakingContract} :
          /\ toService(c) \in Nat /\ toReceiver(c) \in Nat
          /\ directed[c] \in Nat /\ balanceOf[c] \in Nat
    BY <1>1, <1>4, ContractsApart DEF At
  <2>2. directed' = [c \in {PaymentsContract, StakingContract} |->
                       directed[c] + toService(c) + toReceiver(c)]
    BY <1>1, <1>2 DEF At
  <2> HIDE DEF toService, toReceiver
  <2> QED BY <2>1, <2>2
<1>12. /\ balanceOf'[PaymentsContract] = balanceOf[PaymentsContract]
                    + toService(PaymentsContract) + toReceiver(PaymentsContract)
       /\ balanceOf'[StakingContract] = balanceOf[StakingContract] + part.delegation + staked
                    + toService(StakingContract) + toReceiver(StakingContract)
  BY <1>4, <1>5, <1>11, ContractsApart, EscrowAssumption DEF PaidOut, Paying, At
<1>13. payer # EscrowContract => balanceOf'[EscrowContract] >= balanceOf[EscrowContract]
  <2>1. balanceOf[EscrowContract] \in Nat
    BY <1>1, ContractsApart
  <2> QED BY <1>4, <1>5, <2>1, ContractsApart DEF PaidOut, At
<1> HIDE DEF toService, toReceiver
<1>6. /\ poolTokens' \in [Pools -> Nat]
      /\ SumFunctionOnSet(poolTokens', Pools) =
           SumFunctionOnSet(poolTokens, Pools) + part.delegation
  <2> HIDE DEF pool
  <2>1. /\ poolTokens' \in [Pools -> Nat]
        /\ poolTokens'[pool] = poolTokens[pool] + part.delegation
        /\ \A p \in Pools \ {pool} : poolTokens'[p] = poolTokens[p]
        /\ \A p \in Pools : poolTokens[p] \in Nat
    BY <1>1, <1>2, <1>4
  <2>2. \A p \in Pools : poolTokens[p] \in Int /\ poolTokens'[p] \in Int
    BY <2>1
  <2>3. SumFunctionOnSet(poolTokens', Pools) =
          SumFunctionOnSet(poolTokens, Pools) + poolTokens'[pool] - poolTokens[pool]
    BY <1>1, <2>1, <2>2, SetsFinite, SumUpdate
  <2>4. SumFunctionOnSet(poolTokens, Pools) \in Nat
    BY <2>1, SetsFinite, SumType
  <2> QED BY <1>1, <1>4, <2>1, <2>3, <2>4
<1>7. /\ stakeOf' \in [Receivers -> Nat]
      /\ SumFunctionOnSet(stakeOf', Receivers) = SumFunctionOnSet(stakeOf, Receivers) + staked
  <2>1. /\ stakeOf' \in [Receivers -> Nat]
        /\ stakeOf'[receiver] = stakeOf[receiver] + staked
        /\ \A r \in Receivers \ {receiver} : stakeOf'[r] = stakeOf[r]
        /\ \A r \in Receivers : stakeOf[r] \in Nat
    BY <1>1, <1>2, <1>4
  <2> HIDE DEF staked
  <2>2. \A r \in Receivers : stakeOf[r] \in Int /\ stakeOf'[r] \in Int
    BY <2>1
  <2>3. SumFunctionOnSet(stakeOf', Receivers) =
          SumFunctionOnSet(stakeOf, Receivers) + stakeOf'[receiver] - stakeOf[receiver]
    BY <2>1, <2>2, SetsFinite, SumUpdate
  <2>4. SumFunctionOnSet(stakeOf, Receivers) \in Nat
    BY <2>1, SetsFinite, SumType
  <2>5. staked \in Nat
    BY <1>4 DEF staked
  <2> QED BY <2>1, <2>3, <2>4, <2>5
<1>8. PaymentsPassThrough'
  <2>1. staked \in Nat
    BY <1>4
  <2> HIDE DEF staked
  <2>2. /\ SumFunctionOnSet(poolTokens, Pools) \in Nat
        /\ SumFunctionOnSet(stakeOf, Receivers) \in Nat
    <3>1. /\ \A p \in Pools : poolTokens[p] \in Nat
          /\ \A r \in Receivers : stakeOf[r] \in Nat
      BY <1>1
    <3> QED BY <3>1, SetsFinite, SumType
  <2> QED
    BY <1>4, <1>5, <1>6, <1>7, <1>11, <1>12, <2>1, <2>2 DEF EscrowInv, PaymentsPassThrough
<1> QED
  BY <1>2, <1>5, <1>6, <1>7, <1>8, <1>11, <1>13

LEMMA CollectStep ==
  ASSUME EscrowInv, NEW a \in Accounts, NEW tokens \in Nat, NEW dataService \in DataServices,
         NEW dataServiceCut \in Cuts, NEW destination \in Destinations,
         Collect(a, tokens, dataService, dataServiceCut, destination)
  PROVE  EscrowInv' /\ NoticeStep
<1> DEFINE old == escrowAccounts[a]
           new == CollectedFrom(old, tokens)
<1>1. /\ old \in EscrowAccountType /\ old.balance \in Nat /\ old.tokensThawing \in Nat
      /\ old.thawEndTimestamp \in Nat
      /\ old.tokensThawing <= old.balance
      /\ (old.tokensThawing = 0) <=> (old.thawEndTimestamp = 0)
      /\ balanceOf[EscrowContract] \in Nat /\ collected \in [Accounts -> Nat]
      /\ escrowAccounts \in [Accounts -> EscrowAccountType]
      /\ a[3] \in Receivers
  BY ContractsApart DEF EscrowInv, TypeOK, ThawingConsistent, EscrowAccountType, Accounts
<1>2. /\ tokens <= old.balance /\ SetAccount(a, new)
      /\ CollectPayment(EscrowContract, a[3], tokens, dataService, dataServiceCut, destination)
      /\ balanceOf[EscrowContract] = tokens + balanceOf'[EscrowContract]
      /\ collected' = [collected EXCEPT ![a] = @ + tokens]
      /\ UNCHANGED <<now, paused>>
  BY DEF Collect
<1>3. SoundAccount(a, new) /\ new.balance = old.balance - tokens
  <2> DEFINE balance == old.balance - tokens
             capped == old.tokensThawing > balance
  <2>1. balance \in Nat
    BY <1>1, <1>2
  <2>2. /\ new.balance = balance
        /\ new.tokensThawing = IF capped THEN balance ELSE old.tokensThawing
        /\ new.thawEndTimestamp = IF capped /\ balance = 0 THEN 0 ELSE old.thawEndTimestamp
        /\ new = [balance |-> new.balance, tokensThawing |-> new.tokensThawing,
                  thawEndTimestamp |-> new.thawEndTimestamp]
    BY DEF CollectedFrom
  <2> HIDE DEF new, balance
  <2>3. new \in EscrowAccountType
    BY <1>1, <2>1, <2>2 DEF EscrowAccountType
  <2>4. SoundAccount(a, new)
    BY <1>1, <2>1, <2>2, <2>3 DEF SoundAccount
  <2> QED BY <2>2, <2>4 DEF balance
<1> HIDE DEF new
<1>4. /\ balanceOf' \in [Holders -> Nat]
      /\ stakeOf' \in [Receivers -> Nat] /\ poolTokens' \in [Pools -> Nat]
      /\ directed' \in [{PaymentsContract, StakingContract} -> Nat]
      /\ UNCHANGED <<hasDelegators, feeCutOf>>
      /\ PaymentsPassThrough'
  BY <1>1, <1>2, CollectPaymentEffect, ContractsApart
<1>5. balanceOf'[EscrowContract] >= balanceOf[EscrowContract] + new.balance - old.balance
  <2>1. balanceOf'[EscrowContract] \in Nat
    BY <1>4, ContractsApart
  <2> QED BY <1>1, <1>2, <1>3, <2>1
<1>6. /\ escrowAccounts' \in [Accounts -> EscrowAccountType]
      /\ escrowAccounts'[a] = new
      /\ \A b \in Accounts \ {a} : escrowAccounts'[b] = escrowAccounts[b]
      /\ raisedAt' \in [Accounts -> Nat]
      /\ EscrowSolvent' /\ ThawingConsistent' /\ NoticeKept'
  BY <1>2, <1>3, <1>4, <1>5, AccountStep
<1>7. /\ collected' \in [Accounts -> Nat] /\ collected'[a] = collected[a] + tokens
      /\ \A b \in Accounts \ {a} : collected'[b] = collected[b]
      /\ \A b \in Accounts : collected[b] \in Nat
  BY <1>1, <1>2
<1>8. EscrowInv'
  BY <1>2, <1>4, <1>6, <1>7 DEF EscrowInv, TypeOK
<1>9. NoticeStep
  <2>1. ASSUME NEW b \in Accounts
        PROVE  ~(escrowAccounts[b].balance - escrowAccounts'[b].balance
                   - (collected'[b] - collected[b]) > 0)
    <3>1. escrowAccounts[b].balance \in Nat /\ collected[b] \in Nat
      BY <1>1, <1>7 DEF EscrowAccountType
    <3>2. CASE b = a
      BY <1>1, <1>3, <1>6, <1>7, <3>1, <3>2
    <3>3. CASE b # a
      BY <1>6, <1>7, <3>1, <3>3
    <3> QED BY <3>2, <3>3
  <2> QED BY <2>1 DEF NoticeStep
<1> QED
  BY <1>8, <1>9

(* A step that leaves the accounts of the escrow alone, and takes nothing  *)
(* of its tokens.                                                          *)
LEMMA AccountsUntouched ==
  ASSUME EscrowInv, UNCHANGED escrowVars, TypeOK', now' >= now, PaymentsPassThrough',
         balanceOf'[EscrowContract] >= balanceOf[EscrowContract]
  PROVE  EscrowInv' /\ NoticeStep
<1>1. /\ UNCHANGED <<escrowAccounts, collected, raisedAt>>
      /\ escrowAccounts \in [Accounts -> EscrowAccountType]
      /\ collected \in [Accounts -> Nat] /\ raisedAt \in [Accounts -> Nat]
      /\ now \in Nat /\ now' \in Nat /\ now > 0
      /\ balanceOf[EscrowContract] \in Nat /\ balanceOf'[EscrowContract] \in Nat
  BY ContractsApart DEF escrowVars, EscrowInv, TypeOK
<1>2. EscrowSolvent'
  <2>1. /\ TotalBalance(escrowAccounts) <= balanceOf[EscrowContract]
        /\ TotalBalance(escrowAccounts') = TotalBalance(escrowAccounts)
    BY <1>1 DEF EscrowInv, EscrowSolvent, TotalBalance
  <2>2. TotalBalance(escrowAccounts) \in Nat
    <3> DEFINE f == [a \in Accounts |-> escrowAccounts[a].balance]
    <3>1. \A a \in Accounts : f[a] \in Nat
      BY <1>1 DEF EscrowAccountType
    <3> HIDE DEF f
    <3>2. SumFunctionOnSet(f, Accounts) \in Nat
      BY <3>1, SetsFinite, SumType
    <3> QED BY <3>2 DEF TotalBalance, f
  <2>3. TotalBalance(escrowAccounts') <= balanceOf'[EscrowContract]
    BY <1>1, <2>1, <2>2
  <2> QED BY <2>3 DEF EscrowSolvent, TotalBalance
<1>3. ThawingConsistent' /\ NoticeKept'
  BY <1>1 DEF EscrowInv, ThawingConsistent, NoticeKept
<1>4. NoticeStep
  <2>1. ASSUME NEW b \in Accounts
        PROVE  ~(escrowAccounts[b].balance - escrowAccounts'[b].balance
                   - (collected'[b] - collected[b]) > 0)
    <3>1. escrowAccounts[b].balance \in Nat /\ collected[b] \in Nat
      BY <1>1 DEF EscrowAccountType
    <3> QED BY <1>1, <3>1
  <2> QED BY <2>1 DEF NoticeStep
<1> QED
  BY <1>1, <1>2, <1>3, <1>4 DEF EscrowInv

LEMMA PayDirectlyStep ==
  ASSUME EscrowInv, NEW payer \in Payers, NEW receiver \in Receivers,
         NEW tokens \in TokenAmounts, NEW dataService \in DataServices,
         NEW dataServiceCut \in Cuts, NEW destination \in Destinations,
         PayDirectly(payer, receiver, tokens, dataService, dataServiceCut, destination)
  PROVE  EscrowInv' /\ NoticeStep
<1>1. /\ CollectPayment(payer, receiver, tokens, dataService, dataServiceCut, destination)
      /\ UNCHANGED <<now, escrowVars, paused>>
  BY DEF PayDirectly
<1>2. /\ payer \in Holders \ {PaymentsContract, StakingContract}
      /\ payer # EscrowContract /\ tokens \in Nat
  BY ContractsApart, EscrowAssumption
<1>3. /\ balanceOf' \in [Holders -> Nat]
      /\ stakeOf' \in [Receivers -> Nat] /\ poolTokens' \in [Pools -> Nat]
      /\ directed' \in [{PaymentsContract, StakingContract} -> Nat]
      /\ UNCHANGED <<hasDelegators, feeCutOf>>
      /\ balanceOf'[EscrowContract] >= balanceOf[EscrowContract]
      /\ PaymentsPassThrough'
  BY <1>1, <1>2, CollectPaymentEffect
<1>4. TypeOK' /\ now' >= now
  BY <1>1, <1>3 DEF EscrowInv, TypeOK, escrowVars
<1> QED
  BY <1>1, <1>3, <1>4, AccountsUntouched

LEMMA EnvironmentStep ==
  ASSUME EscrowInv, EnvironmentSteps
  PROVE  EscrowInv' /\ NoticeStep
<1>1. /\ UNCHANGED <<balanceOf, stakeOf, poolTokens, directed, escrowVars>>
      /\ TypeOK' /\ now' >= now
  <2> USE DEF EscrowInv, TypeOK, escrowVars, stakingVars
  <2>1. CASE \E pool \in Pools : DelegatorsChange(pool)
    BY <2>1 DEF DelegatorsChange
  <2>2. CASE \E pool \in Pools, cut \in FeeCuts : FeeCutChanges(pool, cut)
    BY <2>2, EscrowAssumption DEF FeeCutChanges
  <2>3. CASE \E value \in PauseInputs : SetPaused(value)
    BY <2>3, EscrowAssumption DEF SetPaused
  <2>4. CASE BlockPasses
    BY <2>4 DEF BlockPasses, Tick
  <2> QED
    BY <2>1, <2>2, <2>3, <2>4 DEF EnvironmentSteps
<1>2. PaymentsPassThrough'
  BY <1>1 DEF EscrowInv, PaymentsPassThrough
<1>3. balanceOf'[EscrowContract] >= balanceOf[EscrowContract]
  BY <1>1, ContractsApart DEF EscrowInv, TypeOK
<1> QED
  BY <1>1, <1>2, <1>3, AccountsUntouched

-----------------------------------------------------------------------------
(* The escrow at the start.                                                *)

LEMMA EscrowInit ==
  ASSUME Init
  PROVE  EscrowInv
<1> USE DEF Init
<1>1. TypeOK /\ now > 0
  <2>1. NoAccount \in EscrowAccountType
    BY DEF NoAccount, EscrowAccountType
  <2>2. 0 \in 0 .. MaxPPM /\ PayerFunds \in Nat
    BY EscrowAssumption, LedgerAssumption
  <2>3. balanceOf \in [Holders -> Nat] /\ feeCutOf \in [Pools -> 0 .. MaxPPM]
    BY <2>2
  <2>4. /\ escrowAccounts \in [Accounts -> EscrowAccountType]
        /\ collected \in [Accounts -> Nat] /\ raisedAt \in [Accounts -> Nat]
        /\ stakeOf \in [Receivers -> Nat] /\ poolTokens \in [Pools -> Nat]
        /\ hasDelegators \subseteq Pools
        /\ directed \in [{PaymentsContract, StakingContract} -> Nat]
        /\ now \in Nat /\ now > 0
    BY <2>1
  <2>5. paused \in BOOLEAN
    BY Zenon
  <2> HIDE DEF Init
  <2> QED BY <2>3, <2>4, <2>5 DEF TypeOK
<1>2. EscrowSolvent
  <2> DEFINE f == [a \in Accounts |-> escrowAccounts[a].balance]
  <2>1. \A a \in Accounts : f[a] = 0
    BY DEF NoAccount
  <2> HIDE DEF f
  <2>2. SumFunctionOnSet(f, Accounts) = 0
    BY <2>1, SetsFinite, SumZero
  <2>3. balanceOf[EscrowContract] \in Nat
    BY <1>1, ContractsApart DEF TypeOK
  <2> QED BY <2>2, <2>3 DEF EscrowSolvent, f
<1>3. ThawingConsistent /\ NoticeKept
  BY DEF ThawingConsistent, NoticeKept, NoAccount
<1>4. PaymentsPassThrough
  <2>1. SumFunctionOnSet(stakeOf, Receivers) = 0
    BY SetsFinite, SumZero
  <2>2. SumFunctionOnSet(poolTokens, Pools) = 0
    BY SetsFinite, SumZero
  <2>3. /\ balanceOf[PaymentsContract] = 0 /\ balanceOf[StakingContract] = 0
        /\ directed[PaymentsContract] = 0 /\ directed[StakingContract] = 0
    BY ContractsApart
  <2>4. SumFunctionOnSet(balanceOf, Holders) = Cardinality(Payers) * PayerFunds
    <3>1. \A h \in Holders : balanceOf[h] = IF h \in Payers THEN PayerFunds ELSE 0
      OBVIOUS
    <3>2. Payers \in SUBSET Holders
      BY DEF Holders
    <3> QED BY <3>1, <3>2, SetsFinite, EscrowAssumption, SumOfConstant
  <2> QED BY <2>1, <2>2, <2>3, <2>4 DEF PaymentsPassThrough
<1> QED
  BY <1>1, <1>2, <1>3, <1>4 DEF EscrowInv

-----------------------------------------------------------------------------
(* The collector.                                                          *)

(* A signer thaws for the whole period since the last announcement.        *)
SignersThaw ==
  \A s \in Signers :
    authorizations[s].thawEndTimestamp # 0 =>
      /\ noticeAt[s] > 0
      /\ authorizations[s].thawEndTimestamp = noticeAt[s] + RevokeThawingPeriod

TallyInv ==
  /\ EscrowInv
  /\ SignersThaw
  /\ TallyTypeOK
  /\ CollectedIsSigned
  /\ CollectionsMatchEscrow

(* What SignersAreForLife says of a step.                                  *)
SignersStep ==
  \A s \in Signers :
    LET auth == authorizations[s]
        new  == authorizations'[s]
    IN  /\ auth.authorizer # NoAuthorizer => new.authorizer = auth.authorizer
        /\ auth.revoked => new.revoked
        /\ new.revoked /\ ~auth.revoked =>
             noticeAt[s] > 0 /\ now >= noticeAt[s] + RevokeThawingPeriod

LEMMA TallyInitial ==
  ASSUME TallyInit
  PROVE  TallyInv
<1>1. EscrowInv
  BY EscrowInit DEF TallyInit
<1>2. TallyTypeOK /\ SignersThaw
  BY <1>1 DEF EscrowInv, TallyTypeOK, TallyInit, InitAuthorizations, NoAuthorization,
              AuthorizationType, SignersThaw
<1>3. CollectedIsSigned
  BY DEF CollectedIsSigned, TallyInit
<1>4. CollectionsMatchEscrow
  <2>1. ASSUME NEW payer \in Payers, NEW receiver \in Receivers
        PROVE  collected[<<payer, GraphTally, receiver>>] =
                 SumFunctionOnSet(tokensCollected,
                                  {c \in Collections : c[3] = receiver /\ c[4] = payer})
    <3> DEFINE C == {c \in Collections : c[3] = receiver /\ c[4] = payer}
    <3>1. IsFiniteSet(C)
      BY SetsFinite, FS_Subset
    <3>2. \A c \in C : tokensCollected[c] = 0
      BY DEF TallyInit
    <3>3. SumFunctionOnSet(tokensCollected, C) = 0
      BY <3>1, <3>2, SumZero
    <3>4. <<payer, GraphTally, receiver>> \in Accounts
      BY TallyAssumption DEF Accounts
    <3> QED BY <3>3, <3>4 DEF TallyInit, Init
  <2> QED BY <2>1 DEF CollectionsMatchEscrow
<1> QED
  BY <1>1, <1>2, <1>3, <1>4 DEF TallyInv

(* The signer of a RAV that is collected belongs to its payer.             *)
LEMMA CollectRAVStep ==
  ASSUME TallyInv, NEW caller \in DataServices, NEW rav \in RAVs,
         NEW requested \in {0} \cup TokenAmounts, NEW dataServiceCut \in Cuts,
         NEW destination \in Destinations,
         CollectRAV(caller, rav, requested, dataServiceCut, destination)
  PROVE  TallyInv' /\ NoticeStep /\ SignersStep
<1> DEFINE tokens == TokensToCollect(rav, requested)
           paying == CollectionOf(rav)
           account == AccountOf(rav)
<1>1. /\ rav.collectionId \in CollectionIds /\ rav.payer \in Payers
      /\ rav.serviceProvider \in Receivers /\ rav.dataService \in DataServices
      /\ rav.valueAggregate \in Nat /\ rav.signer \in Signers
  BY TallyAssumption DEF RAVType
<1>2. /\ authorizations[rav.signer].authorizer = rav.payer
      /\ IsOwed(rav, requested)
      /\ tokensCollected' = [tokensCollected EXCEPT ![paying] = @ + tokens]
      /\ Collect(account, tokens, rav.dataService, dataServiceCut, destination)
      /\ UNCHANGED <<authorizations, noticeAt, provisioned>>
  BY DEF CollectRAV, IsAuthorized, RecordCollection
<1>3. paying \in Collections /\ account \in Accounts
  BY <1>1, TallyAssumption DEF CollectionOf, AccountOf, Collections, Accounts
<1>4. /\ tokensCollected \in [Collections -> Nat] /\ collected \in [Accounts -> Nat]
      /\ tokensCollected[paying] \in Nat
  BY <1>3 DEF TallyInv, TallyTypeOK, TypeOK
<1>5. tokens \in Nat /\ tokensCollected[paying] + tokens <= rav.valueAggregate
  <2>1. requested \in Nat
    BY EscrowAssumption
  <2> QED BY <1>1, <1>2, <1>4, <2>1 DEF TokensToCollect, TokensOwed, IsOwed
<1> HIDE DEF tokens, paying, account
<1>6. EscrowInv' /\ NoticeStep
  BY <1>1, <1>2, <1>3, <1>5, CollectStep DEF TallyInv
<1>7. /\ tokensCollected' \in [Collections -> Nat]
      /\ tokensCollected'[paying] = tokensCollected[paying] + tokens
      /\ \A c \in Collections \ {paying} : tokensCollected'[c] = tokensCollected[c]
  BY <1>2, <1>3, <1>4, <1>5
<1>8. collected' = [collected EXCEPT ![account] = @ + tokens]
  BY <1>2 DEF Collect
<1>9. TallyTypeOK' /\ SignersThaw'
  BY <1>2, <1>6, <1>7 DEF TallyInv, TallyTypeOK, EscrowInv, SignersThaw
<1>10. CollectedIsSigned'
  <2>1. ASSUME NEW c \in Collections, tokensCollected'[c] > 0
        PROVE  \E r \in RAVs :
                 /\ CollectionOf(r) = c
                 /\ tokensCollected'[c] <= r.valueAggregate
                 /\ authorizations'[r.signer].authorizer = r.payer
    <3>1. CASE c = paying
      BY <1>2, <1>5, <1>7, <3>1 DEF paying
    <3>2. CASE c # paying
      BY <1>2, <1>7, <2>1, <3>2 DEF TallyInv, CollectedIsSigned
    <3> QED BY <3>1, <3>2
  <2> QED BY <2>1 DEF CollectedIsSigned
<1>11. CollectionsMatchEscrow'
  <2>1. ASSUME NEW payer \in Payers, NEW receiver \in Receivers
        PROVE  collected'[<<payer, GraphTally, receiver>>] =
                 SumFunctionOnSet(tokensCollected',
                                  {c \in Collections : c[3] = receiver /\ c[4] = payer})
    <3> DEFINE C == {c \in Collections : c[3] = receiver /\ c[4] = payer}
               a == <<payer, GraphTally, receiver>>
    <3>1. IsFiniteSet(C)
      BY SetsFinite, FS_Subset
    <3>2. a \in Accounts
      BY TallyAssumption DEF Accounts
    <3>3. collected[a] = SumFunctionOnSet(tokensCollected, C)
      BY DEF TallyInv, CollectionsMatchEscrow
    <3>4. account = a <=> paying \in C
      BY <1>3 DEF account, paying, AccountOf, CollectionOf
    <3>5. \A c \in C : tokensCollected[c] \in Int /\ tokensCollected'[c] \in Int
      BY <1>4, <1>7
    <3>6. collected[a] \in Nat
      BY <1>4, <3>2
    <3>7. \A c \in C \ {paying} : tokensCollected'[c] = tokensCollected[c]
      BY <1>7
    <3> HIDE DEF C, a
    <3>8. CASE paying \in C
      <4>1. SumFunctionOnSet(tokensCollected', C) =
              SumFunctionOnSet(tokensCollected, C)
                + tokensCollected'[paying] - tokensCollected[paying]
        BY <3>1, <3>5, <3>7, <3>8, SumUpdate
      <4>2. collected'[a] = collected[a] + tokens
        BY <1>4, <1>8, <3>2, <3>4, <3>8
      <4> QED BY <1>4, <1>5, <1>7, <3>3, <3>6, <4>1, <4>2 DEF C, a
    <3>9. CASE paying \notin C
      <4>1. SumFunctionOnSet(tokensCollected', C) = SumFunctionOnSet(tokensCollected, C)
        BY <3>1, <3>7, <3>9, SumEqual
      <4>2. collected'[a] = collected[a]
        BY <1>4, <1>8, <3>2, <3>4, <3>9
      <4> QED BY <3>3, <4>1, <4>2 DEF C, a
    <3> QED BY <3>8, <3>9
  <2> QED BY <2>1 DEF CollectionsMatchEscrow
<1>12. SignersStep
  BY <1>2 DEF SignersStep
<1> QED
  BY <1>6, <1>9, <1>10, <1>11, <1>12 DEF TallyInv

(* A step of the escrow that collects nothing.                             *)
LEMMA CollectorUntouched ==
  ASSUME TallyInv, EscrowInv', NoticeStep, UNCHANGED <<tallyVars, collected>>
  PROVE  TallyInv' /\ NoticeStep /\ SignersStep
BY DEF TallyInv, TallyTypeOK, EscrowInv, tallyVars, CollectedIsSigned,
       CollectionsMatchEscrow, SignersStep, SignersThaw

(* The authorizer of a signer never changes once it is set.                *)
LEMMA AuthorizerStep ==
  ASSUME TallyInv, AuthorizerCalls, UNCHANGED <<vars, tokensCollected, provisioned>>
  PROVE  TallyInv' /\ NoticeStep /\ SignersStep
<1>1. PICK caller \in Authorizers, signer \in Signers :
        \/ AuthorizeSigner(caller, signer)
        \/ ThawSigner(caller, signer)
        \/ CancelThawSigner(caller, signer)
        \/ RevokeAuthorizedSigner(caller, signer)
  BY DEF AuthorizerCalls
<1>2. /\ authorizations \in [Signers -> AuthorizationType]
      /\ authorizations[signer].authorizer \in Authorizers \cup {NoAuthorizer}
      /\ authorizations[signer].thawEndTimestamp \in Nat
      /\ authorizations[signer].revoked \in BOOLEAN
      /\ noticeAt \in [Signers -> Nat]
      /\ now \in Nat /\ now > 0 /\ RevokeThawingPeriod \in Nat
  BY AuthorizableAssumption DEF TallyInv, TallyTypeOK, EscrowInv, TypeOK, AuthorizationType
<1> DEFINE auth == authorizations[signer]
           new  == authorizations'[signer]
           Thaws(a, at) == a.thawEndTimestamp # 0 =>
                             at > 0 /\ a.thawEndTimestamp = at + RevokeThawingPeriod
<1>10. Thaws(auth, noticeAt[signer])
  BY DEF TallyInv, SignersThaw
<1>3. /\ authorizations' \in [Signers -> AuthorizationType]
      /\ noticeAt' \in [Signers -> Nat]
      /\ \A s \in Signers \ {signer} : authorizations'[s] = authorizations[s]
      /\ \A s \in Signers \ {signer} : noticeAt'[s] = noticeAt[s]
      /\ auth.authorizer # NoAuthorizer => new.authorizer = auth.authorizer
      /\ auth.revoked => new.revoked
      /\ new.revoked /\ ~auth.revoked =>
           noticeAt[signer] > 0 /\ now >= noticeAt[signer] + RevokeThawingPeriod
      /\ Thaws(new, noticeAt'[signer])
  <2> USE DEF AuthorizationType
  <2>1. CASE AuthorizeSigner(caller, signer)
    BY <1>2, <1>10, <2>1 DEF AuthorizeSigner
  <2>2. CASE ThawSigner(caller, signer)
    BY <1>2, <2>2 DEF ThawSigner
  <2>3. CASE CancelThawSigner(caller, signer)
    BY <1>2, <2>3 DEF CancelThawSigner
  <2>4. CASE RevokeAuthorizedSigner(caller, signer)
    <3>1. /\ auth.thawEndTimestamp > 0 /\ auth.thawEndTimestamp <= now
          /\ authorizations' = [authorizations EXCEPT ![signer].revoked = TRUE]
          /\ noticeAt' = noticeAt
      BY <1>2, <2>4 DEF RevokeAuthorizedSigner
    <3>2. /\ new.revoked /\ new.authorizer = auth.authorizer
          /\ new.thawEndTimestamp = auth.thawEndTimestamp
          /\ new \in AuthorizationType
      BY <1>2, <3>1
    <3> QED BY <1>2, <1>10, <3>1, <3>2
  <2> QED BY <1>1, <2>1, <2>2, <2>3, <2>4
<1>11. SignersThaw'
  BY <1>3 DEF TallyInv, SignersThaw
<1> HIDE DEF auth, new, Thaws
<1>4. SignersStep
  BY <1>2, <1>3 DEF SignersStep, auth, new
<1>5. UNCHANGED <<now, balanceOf, stakeOf, poolTokens, hasDelegators, feeCutOf, directed,
                  escrowAccounts, collected, raisedAt, paused, tokensCollected, provisioned>>
  BY DEF vars, stakingVars, escrowVars
<1>6. EscrowInv'
  BY <1>5 DEF TallyInv, EscrowInv, TypeOK, EscrowSolvent, ThawingConsistent, NoticeKept,
              PaymentsPassThrough
<1>7. NoticeStep
  <2>1. escrowVars' = escrowVars /\ now' >= now /\ PaymentsPassThrough' /\ TypeOK'
        /\ balanceOf'[EscrowContract] >= balanceOf[EscrowContract]
    BY <1>2, <1>5, <1>6, ContractsApart DEF escrowVars, EscrowInv, TypeOK
  <2> QED BY <2>1, AccountsUntouched DEF TallyInv
<1>8. TallyTypeOK' /\ CollectionsMatchEscrow'
  BY <1>3, <1>5, <1>6 DEF TallyInv, EscrowInv, TallyTypeOK, CollectionsMatchEscrow
<1>9. CollectedIsSigned'
  <2>1. ASSUME NEW c \in Collections, tokensCollected'[c] > 0
        PROVE  \E r \in RAVs :
                 /\ CollectionOf(r) = c
                 /\ tokensCollected'[c] <= r.valueAggregate
                 /\ authorizations'[r.signer].authorizer = r.payer
    <3>1. PICK r \in RAVs :
            /\ CollectionOf(r) = c
            /\ tokensCollected[c] <= r.valueAggregate
            /\ authorizations[r.signer].authorizer = r.payer
      BY <1>5, <2>1 DEF TallyInv, CollectedIsSigned
    <3>2. r.payer # NoAuthorizer /\ r.signer \in Signers
      BY TallyAssumption, AuthorizableAssumption DEF RAVType
    <3> QED BY <1>4, <1>5, <3>1, <3>2 DEF SignersStep
  <2> QED BY <2>1 DEF CollectedIsSigned
<1> QED
  BY <1>4, <1>6, <1>7, <1>8, <1>9, <1>11 DEF TallyInv

(* Nothing changes, but what provisions there are.                         *)
LEMMA BooksUntouched ==
  ASSUME TallyInv, UNCHANGED <<vars, authorizations, noticeAt, tokensCollected>>,
         provisioned' \subseteq Pools
  PROVE  TallyInv' /\ NoticeStep /\ SignersStep
<1>1. UNCHANGED <<now, balanceOf, stakeOf, poolTokens, hasDelegators, feeCutOf, directed,
                  escrowAccounts, collected, raisedAt, paused>>
  BY DEF vars, stakingVars, escrowVars
<1>2. EscrowInv'
  BY <1>1 DEF TallyInv, EscrowInv, TypeOK, EscrowSolvent, ThawingConsistent, NoticeKept,
              PaymentsPassThrough
<1>3. NoticeStep
  <2>1. escrowVars' = escrowVars /\ now' >= now /\ PaymentsPassThrough' /\ TypeOK'
        /\ balanceOf'[EscrowContract] >= balanceOf[EscrowContract]
    BY <1>1, <1>2, ContractsApart DEF escrowVars, EscrowInv, TypeOK
  <2> QED BY <2>1, AccountsUntouched DEF TallyInv
<1> QED
  BY <1>1, <1>2, <1>3 DEF TallyInv, TallyTypeOK, EscrowInv, CollectedIsSigned,
                          CollectionsMatchEscrow, SignersStep, SignersThaw

(* Every step keeps the invariant, the notice and the signers.             *)
LEMMA TallyStep ==
  ASSUME TallyInv, [TallyNext]_allVars
  PROVE  TallyInv' /\ NoticeStep /\ SignersStep
<1>1. CASE DataServiceCalls
  BY <1>1, CollectRAVStep DEF DataServiceCalls
<1>2. CASE PayerCalls /\ UNCHANGED tallyVars
  <2> PICK a \in Accounts :
        \/ \E caller \in Payers, tokens \in TokenAmounts : Deposit(caller, a, tokens)
        \/ \E tokens \in ThawAmounts : Thaw(a, tokens)
        \/ \E tokens \in ThawAmounts, even \in BOOLEAN : AdjustThaw(a, tokens, even)
        \/ CancelThaw(a)
        \/ Withdraw(a)
    BY <1>2 DEF PayerCalls
  <2>1. EscrowInv' /\ NoticeStep
    BY DepositStep, ThawStep, AdjustThawStep, CancelThawStep, WithdrawStep DEF TallyInv
  <2>2. collected' = collected
    BY DEF Deposit, Thaw, AdjustThaw, CancelThaw, Withdraw
  <2> QED BY <1>2, <2>1, <2>2, CollectorUntouched
<1>3. CASE DirectPayments /\ UNCHANGED tallyVars
  <2>1. EscrowInv' /\ NoticeStep
    BY <1>3, PayDirectlyStep DEF DirectPayments, TallyInv
  <2>2. collected' = collected
    BY <1>3 DEF DirectPayments, PayDirectly, escrowVars
  <2> QED BY <1>3, <2>1, <2>2, CollectorUntouched
<1>4. CASE EnvironmentSteps /\ UNCHANGED tallyVars
  <2>1. EscrowInv' /\ NoticeStep
    BY <1>4, EnvironmentStep DEF TallyInv
  <2>2. collected' = collected
    BY <1>4 DEF EnvironmentSteps, DelegatorsChange, FeeCutChanges, SetPaused, BlockPasses,
                escrowVars
  <2> QED BY <1>4, <2>1, <2>2, CollectorUntouched
<1>5. CASE AuthorizerCalls /\ UNCHANGED <<vars, tokensCollected, provisioned>>
  BY <1>5, AuthorizerStep
<1>6. CASE \E provision \in Pools : ProvisionChanges(provision)
  BY <1>6, BooksUntouched DEF ProvisionChanges, TallyInv, TallyTypeOK
<1>7. CASE UNCHANGED allVars
  BY <1>7, BooksUntouched DEF allVars, tallyVars, TallyInv, TallyTypeOK
<1> QED
  BY <1>1, <1>2, <1>3, <1>4, <1>5, <1>6, <1>7 DEF TallyNext

-----------------------------------------------------------------------------
(* What follows for every behaviour.                                       *)

(* The invariant holds in every reachable state.                           *)
THEOREM TallyInvariance == TallySpec => []TallyInv
<1>1. TallyInit => TallyInv
  BY TallyInitial
<1>2. TallyInv /\ [TallyNext]_allVars => TallyInv'
  BY TallyStep
<1> QED
  BY <1>1, <1>2, PTL DEF TallySpec

(* EscrowConsistent for every instance: no subtraction goes below zero,    *)
(* the escrow holds the balances of all its accounts, and what thaws is    *)
(* there to be withdrawn.                                                  *)
THEOREM EscrowConsistentAlways == TallySpec => []EscrowConsistent
<1>1. TallyInv => EscrowConsistent
  BY DEF TallyInv, EscrowInv, EscrowConsistent
<1> QED
  BY <1>1, TallyInvariance, PTL

(* PaymentsPassThrough for every instance and all cuts: GraphPayments      *)
(* keeps nothing, staking receives what it credits, no token is lost.      *)
THEOREM PaymentsPassThroughAlways == TallySpec => []PaymentsPassThrough
<1>1. TallyInv => PaymentsPassThrough
  BY DEF TallyInv, EscrowInv
<1> QED
  BY <1>1, TallyInvariance, PTL

(* CollectedIsSigned for every set of vouchers: never more is collected    *)
(* than the greatest total that a signer of the payer signed.              *)
THEOREM CollectedIsSignedAlways == TallySpec => []CollectedIsSigned
<1>1. TallyInv => CollectedIsSigned
  BY DEF TallyInv
<1> QED
  BY <1>1, TallyInvariance, PTL

(* CollectionsConsistent for every instance: the collector's books and     *)
(* the escrow's agree.                                                     *)
THEOREM CollectionsConsistentAlways == TallySpec => []CollectionsConsistent
<1>1. TallyInv => CollectionsConsistent
  BY DEF TallyInv, CollectionsConsistent
<1> QED
  BY <1>1, TallyInvariance, PTL

(* WithdrawnAfterNotice for every instance: whatever a payer calls, what   *)
(* leaves an account uncollected has been thawing for the whole period.    *)
THEOREM WithdrawnAfterNoticeTheorem == TallySpec => WithdrawnAfterNotice
<1>1. TallyInv /\ [TallyNext]_allVars => NoticeStep
  BY TallyStep
<1>2. NoticeStep => [NoticeStep]_vars
  OBVIOUS
<1>3. WithdrawnAfterNotice <=> [][NoticeStep]_vars
  BY DEF WithdrawnAfterNotice, NoticeStep
<1> QED
  BY <1>1, <1>2, <1>3, TallyInvariance, PTL DEF TallySpec

(* SignersAreForLife for every instance: a signer is never freed, and is   *)
(* revoked only after the notice.                                          *)
THEOREM SignersAreForLifeTheorem == TallySpec => SignersAreForLife
<1>1. TallyInv /\ [TallyNext]_allVars => SignersStep
  BY TallyStep
<1>2. SignersAreForLife <=> [][SignersStep]_allVars
  BY DEF SignersAreForLife, SignersStep
<1> QED
  BY <1>1, <1>2, TallyInvariance, PTL DEF TallySpec

-----------------------------------------------------------------------------
(* What a data service may collect is not refused.                         *)

(* The checks of the escrow, of GraphPayments and of staking that lie      *)
(* between a RAV and its payment: the account and the escrow have the      *)
(* tokens, the cut is valid, no part is negative, staking takes the        *)
(* delegators' part, and the escrow's balance falls by the exact amount.   *)
Granted(rav, dataServiceCut, destination) ==
  LET tokens == TokensOwed(rav)
      pool   == <<rav.serviceProvider, rav.dataService>>
      part   == Split(tokens, dataServiceCut, pool \in hasDelegators, feeCutOf[pool])
  IN  /\ tokens <= escrowAccounts[AccountOf(rav)].balance
      /\ IsValidPPM(dataServiceCut)
      /\ CanTransfer(EscrowContract, tokens)
      /\ PartsOf(tokens, part)
      /\ StakingAccepts(rav.serviceProvider, rav.dataService, part)
      /\ balanceOf[EscrowContract] =
           tokens + PayOut(EscrowContract, tokens, part, rav.dataService, destination)[EscrowContract]

(* These are all the guards of CollectRAV: the call is its assignments.    *)
LEMMA GrantedIsCollected ==
  ASSUME NEW rav \in RAVs, NEW dataServiceCut \in Cuts, NEW destination \in Destinations,
         Collectable(rav), Granted(rav, dataServiceCut, destination), TokensOwed(rav) \in Nat,
         LET tokens == TokensOwed(rav)
             a      == AccountOf(rav)
             pool   == <<rav.serviceProvider, rav.dataService>>
             part   == Split(tokens, dataServiceCut, pool \in hasDelegators, feeCutOf[pool])
         IN  /\ tokensCollected' = RecordCollection(CollectionOf(rav), tokens)
             /\ SetAccount(a, CollectedFrom(escrowAccounts[a], tokens))
             /\ collected' = [collected EXCEPT ![a] = @ + tokens]
             /\ balanceOf' = PayOut(EscrowContract, tokens, part, rav.dataService, destination)
             /\ poolTokens' = [poolTokens EXCEPT ![pool] = @ + part.delegation]
             /\ stakeOf' = IF destination = NoDestination
                           THEN [stakeOf EXCEPT ![rav.serviceProvider] = @ + part.receiver]
                           ELSE stakeOf
             /\ directed' = [c \in DOMAIN directed |->
                               directed[c]
                                 + (IF c = rav.dataService THEN part.dataService ELSE 0)
                                 + (IF c = destination THEN part.receiver ELSE 0)]
             /\ UNCHANGED <<now, paused, hasDelegators, feeCutOf>>
             /\ UNCHANGED <<authorizations, noticeAt, provisioned>>
  PROVE  CollectRAV(rav.dataService, rav, 0, dataServiceCut, destination)
<1> DEFINE tokens == TokensOwed(rav)
           a      == AccountOf(rav)
<1>1. TokensToCollect(rav, 0) = tokens
  BY DEF TokensToCollect
<1>2. IsOwed(rav, 0)
  BY DEF IsOwed, Collectable
<1>3. a[3] = rav.serviceProvider
  BY DEF AccountOf
<1>4. CollectPayment(EscrowContract, a[3], tokens, rav.dataService, dataServiceCut, destination)
  BY <1>3 DEF CollectPayment, Granted
<1>5. Collect(a, tokens, rav.dataService, dataServiceCut, destination)
  BY <1>4 DEF Collect, Granted, Collectable
<1> HIDE DEF tokens, a
<1> QED
  BY <1>1, <1>2, <1>5 DEF CollectRAV, Collectable, tokens, a

LEMMA CollectableGranted ==
  ASSUME TallyInv, NEW rav \in RAVs, NEW dataServiceCut \in Cuts, dataServiceCut <= MaxPPM,
         NEW destination \in Destinations \ {EscrowContract}, Collectable(rav)
  PROVE  Granted(rav, dataServiceCut, destination)
<1> DEFINE tokens  == TokensOwed(rav)
           account == AccountOf(rav)
           pool    == <<rav.serviceProvider, rav.dataService>>
           part    == Split(tokens, dataServiceCut, pool \in hasDelegators, feeCutOf[pool])
           paid    == PayOut(EscrowContract, tokens, part, rav.dataService, destination)
<1>1. /\ rav.collectionId \in CollectionIds /\ rav.payer \in Payers
      /\ rav.serviceProvider \in Receivers /\ rav.dataService \in DataServices
      /\ rav.valueAggregate \in Nat /\ rav.signer \in Signers
  BY TallyAssumption DEF RAVType
<1>2. account \in Accounts /\ pool \in Pools
  BY <1>1, TallyAssumption DEF AccountOf, Accounts, Pools
<1>3. /\ balanceOf \in [Holders -> Nat] /\ feeCutOf[pool] \in 0 .. MaxPPM
      /\ \A a \in Accounts : escrowAccounts[a].balance \in Nat
      /\ EscrowSolvent
  BY <1>2 DEF TallyInv, EscrowInv, TypeOK, EscrowAccountType
<1>4. tokens \in Nat /\ tokens <= escrowAccounts[account].balance
  BY <1>2, <1>3 DEF Collectable
<1>5. tokens <= balanceOf[EscrowContract]
  <2> DEFINE f == [a \in Accounts |-> escrowAccounts[a].balance]
  <2>1. f[account] = escrowAccounts[account].balance /\ \A a \in Accounts : f[a] \in Nat
    BY <1>2, <1>3
  <2>2. SumFunctionOnSet(f, Accounts) <= balanceOf[EscrowContract]
    BY <1>3 DEF EscrowSolvent
  <2> HIDE DEF f, tokens, account
  <2>3. SumFunctionOnSet(f, Accounts) >= f[account] /\ SumFunctionOnSet(f, Accounts) \in Nat
    BY <1>2, <2>1, SetsFinite, SumAtLeast, SumType
  <2>4. balanceOf[EscrowContract] \in Nat
    BY <1>3, ContractsApart
  <2> QED BY <1>2, <1>3, <1>4, <2>1, <2>2, <2>3, <2>4
<1>6. dataServiceCut \in 0 .. MaxPPM
  BY EscrowAssumption, LedgerAssumption
<1> HIDE DEF tokens, account
<1>7. PartsOf(tokens, part)
  <2>1. (pool \in hasDelegators) \in BOOLEAN
    OBVIOUS
  <2>2. tokens \in Nat /\ feeCutOf[pool] \in 0 .. MaxPPM
    BY <1>3, <1>4
  <2> QED BY <1>6, <2>1, <2>2, SplitAddsUp
<1>8. StakingAccepts(rav.serviceProvider, rav.dataService, part)
  BY DEF StakingAccepts, Split
<1> HIDE DEF part
<1>9. paid[EscrowContract] = balanceOf[EscrowContract] - tokens
  <2>1. paid[EscrowContract] =
          PaidOut(EscrowContract, EscrowContract, tokens, part, rav.dataService, Paying(destination))
    BY <1>1, <1>3, <1>4, <1>5, <1>7, ContractsApart, PayOutEffect
  <2>2. /\ rav.dataService # EscrowContract
        /\ Paying(destination) # EscrowContract
    BY TallyAssumption, ContractsApart DEF Paying
  <2>3. balanceOf[EscrowContract] \in Nat
    BY <1>3, ContractsApart
  <2> HIDE DEF tokens, paid
  <2> QED BY <1>4, <2>1, <2>2, <2>3, ContractsApart DEF PaidOut, At
<1>10. balanceOf[EscrowContract] = tokens + paid[EscrowContract]
  BY <1>3, <1>4, <1>9, ContractsApart
<1> HIDE DEF paid
<1> QED
  BY <1>4, <1>5, <1>6, <1>7, <1>8, <1>10
     DEF Granted, IsValidPPM, CanTransfer, tokens, account, pool, part, paid

(* The safety behind CollectableIsPaid: whenever a RAV is collectable,     *)
(* none of the three contracts behind the collector refuses its payment,   *)
(* whatever valid cut and destination the data service chooses, but for    *)
(* the escrow itself as destination.                                       *)
THEOREM CollectableIsGranted ==
  TallySpec =>
    [](\A rav \in RAVs, dataServiceCut \in Cuts, destination \in Destinations \ {EscrowContract} :
         Collectable(rav) /\ IsValidPPM(dataServiceCut) => Granted(rav, dataServiceCut, destination))
<1>1. TallyInv =>
        \A rav \in RAVs, dataServiceCut \in Cuts, destination \in Destinations \ {EscrowContract} :
          Collectable(rav) /\ IsValidPPM(dataServiceCut) => Granted(rav, dataServiceCut, destination)
  BY CollectableGranted DEF IsValidPPM
<1> QED
  BY <1>1, TallyInvariance, PTL
=============================================================================
