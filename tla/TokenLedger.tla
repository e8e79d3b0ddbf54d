---------------------------- MODULE TokenLedger -----------------------------
(***************************************************************************)
(* What the contracts share: the block timestamp, and the balances of the  *)
(* Graph token.  Allowances are left out: whoever pays has approved it.    *)
(* Burned tokens are kept on an account of their own, so that the total of *)
(* a ledger tells whether tokens were lost.                                *)
(***************************************************************************)
EXTENDS Integers

CONSTANTS
  Burned,         \* the account of the burned tokens
  MaxPPM,         \* 1_000_000 in the code
  MaxTime         \* bound on the block timestamp

ASSUME LedgerAssumption == MaxPPM \in Nat \ {0} /\ MaxTime \in Nat \ {0}

VARIABLES
  now,            \* block.timestamp
  balanceOf       \* token balance of every address

(* pullTokens and pushTokens do nothing for an amount of zero, as here.    *)
CanTransfer(from, tokens) == tokens <= balanceOf[from]

Transfer(balances, from, to, tokens) ==
  LET paid == [balances EXCEPT ![from] = @ - tokens]
  IN  [paid EXCEPT ![to] = @ + tokens]

Burn(balances, from, tokens) == Transfer(balances, from, Burned, tokens)

IsValidPPM(cut) == cut <= MaxPPM
MulPPM(a, b) == (a * b) \div MaxPPM
MulPPMRoundUp(a, cut) == a - MulPPM(a, MaxPPM - cut)

Tick == now < MaxTime /\ now' = now + 1
=============================================================================
