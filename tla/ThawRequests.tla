---------------------------- MODULE ThawRequests ----------------------------
(***************************************************************************)
(* The thawing accounts of HorizonStaking.  A provision and a delegation   *)
(* pool each keep tokens, of which tokensThawing are on their way out, and *)
(* sharesThawing, the shares of the thawing tokens held by the pending     *)
(* thaw requests.  A request is fulfilled in list order, by redeeming its  *)
(* shares, or skipped if it carries the nonce of an earlier thawing pool.  *)
(*                                                                         *)
(* This module has no state: a thaw request list is a sequence, and an     *)
(* account is any record with the five fields named below.                 *)
(***************************************************************************)
EXTENDS Integers, Sequences, Functions

ThawRequestType == [shares : Nat \ {0}, thawingUntil : Nat, thawingNonce : Nat]

TokensAvailable(account) == account.tokens - account.tokensThawing

LesserOf(a, b) == IF a <= b THEN a ELSE b

-----------------------------------------------------------------------------
(* Opening a thaw request: the thawing tokens and shares of the account    *)
(* grow.  A provision rounds the shares up, a delegation pool down.        *)

ThawingSharesRoundUp(account, tokens) ==
  IF account.tokensThawing = 0 THEN tokens
  ELSE (account.sharesThawing * tokens + account.tokensThawing - 1)
         \div account.tokensThawing

ThawingSharesRoundDown(account, tokens) ==
  IF account.tokensThawing = 0 THEN tokens
  ELSE (tokens * account.sharesThawing) \div account.tokensThawing

StartThawing(account, tokens, shares) ==
  [account EXCEPT !.tokensThawing = @ + tokens, !.sharesThawing = @ + shares]

NewThawRequest(account, shares, until) ==
  [shares |-> shares, thawingUntil |-> until, thawingNonce |-> account.thawingNonce]

-----------------------------------------------------------------------------
(* Fulfilling thaw requests.                                               *)

(* Mutant: zero is not "all".                                              *)
TraversalLimit_ZeroIsNone(reqs, n) == n

(* Mutant: requests are fulfilled before they expire.                      *)
RequestsFulfilled_AnyTime(reqs, n, time) == IF n = 0 THEN Len(reqs) ELSE n

(* How many requests a traversal takes off the list: at most n (all if n   *)
(* is zero), and it stops before the first that has not expired.           *)
TraversalLimit(reqs, n) == IF n = 0 THEN Len(reqs) ELSE n

RequestsFulfilled(reqs, n, time) ==
  CHOOSE k \in 0 .. TraversalLimit(reqs, n) :
    /\ \A i \in 1 .. k : reqs[i].thawingUntil <= time
    /\ k < TraversalLimit(reqs, n) => reqs[k + 1].thawingUntil > time

(* The accumulator of the traversal after one more request.                *)
FulfillThawRequest(acc, req, nonce) ==
  LET tokens == (req.shares * acc.tokensThawing) \div acc.sharesThawing
  IN  IF req.thawingNonce # nonce THEN acc
      ELSE [tokensThawed  |-> acc.tokensThawed + tokens,
            tokensThawing |-> acc.tokensThawing - tokens,
            sharesThawing |-> acc.sharesThawing - req.shares]

TraverseThawRequests(account, reqs, k) ==
  LET acc[i \in 0 .. k] ==
        IF i = 0
        THEN [tokensThawed  |-> 0,
              tokensThawing |-> account.tokensThawing,
              sharesThawing |-> account.sharesThawing]
        ELSE FulfillThawRequest(acc[i - 1], reqs[i], account.thawingNonce)
  IN  acc[k]

FulfillThawRequests(account, reqs, n, time) ==
  TraverseThawRequests(account, reqs, RequestsFulfilled(reqs, n, time))

RemainingRequests(reqs, n, time) ==
  SubSeq(reqs, RequestsFulfilled(reqs, n, time) + 1, Len(reqs))

(* The account once the thawed tokens have left it.                        *)
ReleaseThawed(account, result) ==
  [account EXCEPT !.tokens        = @ - result.tokensThawed,
                  !.tokensThawing = result.tokensThawing,
                  !.sharesThawing = result.sharesThawing]

-----------------------------------------------------------------------------
(* Mutants: thawing tokens are spared; shares and nonce survive the loss of*)
(* all thawing tokens.                                                     *)
SlashAccount_SparesThawing(account, slashed) ==
  [account EXCEPT !.tokens = @ - slashed]

SlashAccount_NeverCancels(account, slashed) ==
  IF slashed = 0 THEN account
  ELSE [account EXCEPT
          !.tokens        = @ - slashed,
          !.tokensThawing = (@ * (account.tokens - slashed)) \div account.tokens]

(* Slashing takes thawing and other tokens alike.  If no thawing token is  *)
(* left, the thawing shares are dropped and a new nonce voids the requests.*)
SlashAccount(account, slashed) ==
  LET thawing == (account.tokensThawing * (account.tokens - slashed))
                   \div account.tokens
      cancel  == account.sharesThawing # 0 /\ thawing = 0
  IN  IF slashed = 0 THEN account
      ELSE [account EXCEPT
              !.tokens        = @ - slashed,
              !.tokensThawing = thawing,
              !.sharesThawing = IF cancel THEN 0 ELSE @,
              !.thawingNonce  = IF cancel THEN @ + 1 ELSE @]

-----------------------------------------------------------------------------
(* What the requests of a list hold of the current thawing pool.           *)

RequestShares(reqs, nonce) ==
  [i \in 1 .. Len(reqs) |->
     IF reqs[i].thawingNonce = nonce THEN reqs[i].shares ELSE 0]

ValidShares(reqs, nonce) ==
  SumFunctionOnSet(RequestShares(reqs, nonce), 1 .. Len(reqs))

NoncesUpTo(reqs, nonce) == \A i \in 1 .. Len(reqs) : reqs[i].thawingNonce <= nonce

(* Those of them that may be redeemed at a time.                           *)
ExpiredShares(reqs, nonce, time) ==
  SumFunctionOnSet([i \in 1 .. Len(reqs) |->
                      IF reqs[i].thawingUntil <= time
                      THEN RequestShares(reqs, nonce)[i] ELSE 0], 1 .. Len(reqs))

(* What left an account is not worth more than so many thawing shares.     *)
LeavesAtPrice(account, new, shares) ==
  (account.tokens - new.tokens) * account.sharesThawing
    <= shares * account.tokensThawing
=============================================================================
