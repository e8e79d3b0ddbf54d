------------------------ MODULE HorizonStakingProofs ------------------------
(***************************************************************************)
(* The safety of HorizonStaking, proved for every choice of its constants. *)
(*                                                                         *)
(* The first part is about the accounts as values: what makes a            *)
(* provision, a provider's record and a delegation pool sound, each        *)
(* together with its thaw requests, and that the operators the calls are   *)
(* made of keep them so.  The operators of ThawRequests come first, for    *)
(* every account and every list of thaw requests.  No lemma there mentions *)
(* a step: a call that changes one provision or pool after another is a    *)
(* chain of updates.                                                       *)
(*                                                                         *)
(* The inductive invariant IInv says of the current state what the first   *)
(* part says of values, together with the types of the other variables and *)
(* solvency.  One lemma per call shows that the call keeps it, and every   *)
(* state invariant of the runs follows from it; so does TokensAtHand, that *)
(* the contract has the tokens of every payment a call may ask for.        *)
(*                                                                         *)
(* The last part is about LinkedList, in which the contract keeps its      *)
(* requests: the lists are well linked and implement ItemQueue, for any    *)
(* set of lists and any bounds.  Its invariant ListInv says where          *)
(* everything is: the items of a list bear the last numbers given out, as  *)
(* many as the list counts, and each of them points to the next number.    *)
(* It is kept by adding an item, and by every turn of the loop of a        *)
(* traversal.                                                              *)
(***************************************************************************)
EXTENDS HorizonStaking, LinkedList, SumTheorems, SequenceTheorems

(* Thawing tokens and shares that a thaw request list may be redeemed from.*)
SoundThawing(tokens, shares) ==
  /\ tokens \in Nat
  /\ shares \in Nat
  /\ tokens <= shares
  /\ tokens = 0 => shares = 0

-----------------------------------------------------------------------------
(* Arithmetic.                                                             *)

(* Redeeming some of the thawing shares leaves the rest sound.             *)
LEMMA RedeemSound ==
  ASSUME NEW tokens, NEW shares, SoundThawing(tokens, shares),
         NEW s \in Nat \ {0}, s <= shares
  PROVE  LET q == (s * tokens) \div shares
         IN  q \in Nat /\ q <= tokens /\ SoundThawing(tokens - q, shares - s)
<1> DEFINE q == (s * tokens) \div shares
<1>1. tokens \in Nat /\ shares \in Nat \ {0} /\ tokens # 0 /\ tokens <= shares
  BY DEF SoundThawing
<1>2. s * tokens \in Nat
  BY <1>1
<1>3. q \in Nat /\ q * shares <= s * tokens /\ s * tokens < q * shares + shares
  BY <1>1, <1>2, Quotient
<1> HIDE DEF q
<1>4. s * tokens <= shares * tokens
  BY <1>1
<1>5. q <= tokens
  BY <1>1, <1>3, <1>4
<1>6. tokens - q <= shares - s
  <2>1. SUFFICES ASSUME tokens - q >= shares - s + 1 PROVE FALSE
    BY <1>1, <1>3
  <2>2. (tokens - q) * shares >= (shares - s + 1) * shares
    BY <1>1, <1>3, <2>1
  <2>3. tokens * shares - q * shares >= (shares - s) * shares + shares
    BY <1>1, <1>3, <2>2
  <2>4. tokens * shares - s * tokens + shares > tokens * shares - q * shares
    BY <1>1, <1>3
  <2>5. (shares - s) * tokens <= (shares - s) * shares
    BY <1>1
  <2>6. (shares - s) * tokens = tokens * shares - s * tokens
    BY <1>1
  <2> QED BY <1>1, <1>3, <2>3, <2>4, <2>5, <2>6
<1>7. tokens - q = 0 => shares - s = 0
  <2>1. SUFFICES ASSUME q = tokens PROVE s = shares
    BY <1>1, <1>3
  <2>2. tokens * shares <= s * tokens
    BY <1>3, <2>1
  <2>3. tokens * (shares - s) <= 0
    BY <1>1, <2>2
  <2>4. shares - s \in Nat
    BY <1>1
  <2> QED BY <1>1, <2>3, <2>4
<1> QED
  BY <1>1, <1>3, <1>5, <1>6, <1>7 DEF SoundThawing, q

-----------------------------------------------------------------------------
(* The shares held by a list.                                              *)

PrefixShares(reqs, nonce, k) == SumFunctionOnSet(RequestShares(reqs, nonce), 1 .. k)

(* The shares a request counts for are a number.                           *)
LEMMA RequestSharesType ==
  ASSUME NEW reqs \in Seq(ThawRequestType), NEW nonce
  PROVE  \A i \in 1 .. Len(reqs) : RequestShares(reqs, nonce)[i] \in Nat
<1> SUFFICES ASSUME NEW i \in 1 .. Len(reqs)
             PROVE  RequestShares(reqs, nonce)[i] \in Nat
  OBVIOUS
<1>1. reqs[i] \in ThawRequestType
  OBVIOUS
<1>2. reqs[i].shares \in Nat
  BY <1>1 DEF ThawRequestType
<1>3. RequestShares(reqs, nonce)[i] \in {reqs[i].shares, 0}
  BY DEF RequestShares
<1> QED
  BY <1>2, <1>3

(* So is their sum over a prefix of the list.                              *)
LEMMA PrefixSharesType ==
  ASSUME NEW reqs \in Seq(ThawRequestType), NEW nonce, NEW k \in 0 .. Len(reqs)
  PROVE  PrefixShares(reqs, nonce, k) \in Nat
<1>1. \A i \in 1 .. k : RequestShares(reqs, nonce)[i] \in Nat
  BY RequestSharesType
<1>2. k \in Nat
  OBVIOUS
<1> QED
  BY <1>1, <1>2, IntervalSumType DEF PrefixShares

(* The shares held by a list are a number: those of its longest prefix.    *)
LEMMA ValidSharesType ==
  ASSUME NEW reqs \in Seq(ThawRequestType), NEW nonce
  PROVE  /\ ValidShares(reqs, nonce) \in Nat
         /\ ValidShares(reqs, nonce) = PrefixShares(reqs, nonce, Len(reqs))
<1>1. Len(reqs) \in 0 .. Len(reqs)
  OBVIOUS
<1> QED
  BY <1>1, PrefixSharesType DEF ValidShares, PrefixShares

(* One more request of the prefix.                                         *)
LEMMA PrefixSharesStep ==
  ASSUME NEW reqs \in Seq(ThawRequestType), NEW nonce, NEW k \in Nat, k < Len(reqs)
  PROVE  PrefixShares(reqs, nonce, k + 1) = PrefixShares(reqs, nonce, k) +
           (IF reqs[k + 1].thawingNonce = nonce THEN reqs[k + 1].shares ELSE 0)
<1> DEFINE f == RequestShares(reqs, nonce)
<1>1. \A i \in 1 .. (k + 1) : f[i] \in Int
  BY RequestSharesType
<1>2. f[k + 1] = IF reqs[k + 1].thawingNonce = nonce THEN reqs[k + 1].shares ELSE 0
  BY DEF RequestShares
<1> HIDE DEF f
<1>3. SumFunctionOnSet(f, 1 .. (k + 1)) = SumFunctionOnSet(f, 1 .. k) + f[k + 1]
  BY <1>1, SumLast
<1> QED
  BY <1>2, <1>3 DEF f, PrefixShares

(* A prefix holds no more than the list.                                   *)
LEMMA PrefixSharesBound ==
  ASSUME NEW reqs \in Seq(ThawRequestType), NEW nonce, NEW k \in 0 .. Len(reqs)
  PROVE  PrefixShares(reqs, nonce, k) <= ValidShares(reqs, nonce)
<1> DEFINE f == RequestShares(reqs, nonce)
           n == Len(reqs)
<1>1. n \in Nat /\ k \in 0 .. n /\ \A i \in 1 .. n : f[i] \in Nat
  BY RequestSharesType
<1> HIDE DEF f, n
<1>2. SumFunctionOnSet(f, 1 .. k) <= SumFunctionOnSet(f, 1 .. n)
  BY <1>1, SumPrefix
<1> QED
  BY <1>2 DEF f, n, PrefixShares, ValidShares

(* An empty list holds nothing.                                            *)
LEMMA ValidSharesEmpty ==
  ASSUME NEW nonce
  PROVE  ValidShares(<<>>, nonce) = 0
<1>1. 1 .. Len(<<>>) = {}
  OBVIOUS
<1> QED
  BY <1>1, SumEmpty DEF ValidShares

(* A new request of the current nonce adds its shares.                     *)
LEMMA ValidSharesAppend ==
  ASSUME NEW reqs \in Seq(ThawRequestType), NEW req \in ThawRequestType
  PROVE  /\ Append(reqs, req) \in Seq(ThawRequestType)
         /\ ValidShares(Append(reqs, req), req.thawingNonce)
              = ValidShares(reqs, req.thawingNonce) + req.shares
<1> DEFINE longer == Append(reqs, req)
           nonce  == req.thawingNonce
           n      == Len(reqs)
<1>1. /\ longer \in Seq(ThawRequestType)
      /\ Len(longer) = n + 1
      /\ n \in Nat
      /\ longer[n + 1] = req
      /\ \A i \in 1 .. n : longer[i] = reqs[i]
  OBVIOUS
<1>2. PrefixShares(longer, nonce, n + 1) = PrefixShares(longer, nonce, n) + req.shares
  <2> HIDE DEF longer, n
  <2> QED BY <1>1, PrefixSharesStep
<1>3. PrefixShares(longer, nonce, n) = PrefixShares(reqs, nonce, n)
  <2>1. \A i \in 1 .. n : RequestShares(longer, nonce)[i] = RequestShares(reqs, nonce)[i]
    BY <1>1 DEF RequestShares
  <2>2. IsFiniteSet(1 .. n)
    BY <1>1, FS_Interval
  <2> HIDE DEF longer, n
  <2> QED BY <2>1, <2>2, SumEqual DEF PrefixShares
<1>4. /\ ValidShares(longer, nonce) = PrefixShares(longer, nonce, n + 1)
      /\ ValidShares(reqs, nonce) = PrefixShares(reqs, nonce, n)
  <2> HIDE DEF longer
  <2> QED BY <1>1, ValidSharesType
<1> HIDE DEF longer, n
<1> QED
  BY <1>1, <1>2, <1>3, <1>4 DEF longer

(* No request is valid for a nonce that none of them has reached.          *)
LEMMA ValidSharesOfNewNonce ==
  ASSUME NEW reqs \in Seq(ThawRequestType), NEW nonce \in Nat, NoncesUpTo(reqs, nonce)
  PROVE  ValidShares(reqs, nonce + 1) = 0
<1>1. \A i \in 1 .. Len(reqs) : RequestShares(reqs, nonce + 1)[i] = 0
  BY DEF RequestShares, NoncesUpTo, ThawRequestType
<1>2. IsFiniteSet(1 .. Len(reqs))
  BY FS_Interval
<1> QED
  BY <1>1, <1>2, SumZero DEF ValidShares

(* Without its first k requests a list holds what those did not.           *)
LEMMA ValidSharesOfRest ==
  ASSUME NEW reqs \in Seq(ThawRequestType), NEW nonce, NEW k \in 0 .. Len(reqs)
  PROVE  LET rest == SubSeq(reqs, k + 1, Len(reqs))
         IN  /\ rest \in Seq(ThawRequestType)
             /\ \A i \in 1 .. Len(rest) : i + k \in 1 .. Len(reqs) /\ rest[i] = reqs[i + k]
             /\ ValidShares(rest, nonce)
                  = ValidShares(reqs, nonce) - PrefixShares(reqs, nonce, k)
<1> DEFINE rest == SubSeq(reqs, k + 1, Len(reqs))
           n    == Len(reqs)
           m    == Len(rest)
           f    == RequestShares(reqs, nonce)
           g    == RequestShares(rest, nonce)
<1>1. /\ rest \in Seq(ThawRequestType)
      /\ m = n - k
      /\ n \in Nat /\ m \in Nat /\ k \in Nat
      /\ \A i \in 1 .. m : i + k \in 1 .. n /\ rest[i] = reqs[i + k]
  <2>1. n \in Nat /\ k \in Nat /\ k + 1 \in Int /\ n \in Int /\ k <= n
    OBVIOUS
  <2> DEFINE lo == k + 1
  <2>2. lo \in Int /\ n \in Int /\ \A i \in lo .. n : reqs[i] \in ThawRequestType
    BY <2>1
  <2>3. /\ rest \in Seq(ThawRequestType)
        /\ m = IF lo <= n THEN n - lo + 1 ELSE 0
        /\ \A i \in 1 .. (n - lo + 1) : rest[i] = reqs[lo + i - 1]
    <3>1. rest = SubSeq(reqs, lo, n)
      OBVIOUS
    <3> HIDE DEF lo, n, rest
    <3>2. /\ SubSeq(reqs, lo, n) \in Seq(ThawRequestType)
          /\ Len(SubSeq(reqs, lo, n)) = IF lo <= n THEN n - lo + 1 ELSE 0
          /\ \A i \in 1 .. (n - lo + 1) : SubSeq(reqs, lo, n)[i] = reqs[lo + i - 1]
      BY <2>2, SubSeqProperties
    <3> QED BY <3>1, <3>2
  <2> HIDE DEF n
  <2>4. m = n - k
    BY <2>1, <2>3
  <2> HIDE DEF m, rest
  <2>5. ASSUME NEW i \in 1 .. m  PROVE i + k \in 1 .. n /\ rest[i] = reqs[i + k]
    <3>1. i \in 1 .. (n - lo + 1) /\ lo + i - 1 = i + k
      BY <2>1, <2>4
    <3>2. rest[i] = reqs[lo + i - 1]
      BY <2>3, <3>1
    <3> QED BY <2>1, <2>4, <3>1, <3>2
  <2> QED BY <2>1, <2>3, <2>4, <2>5
<1> HIDE DEF rest
<1>2. Shifted(g, f, k, m)
  BY <1>1 DEF Shifted, RequestShares
<1>3. \A i \in 1 .. n : f[i] \in Int
  BY RequestSharesType
<1>4. n = k + m
  BY <1>1
<1>5. /\ ValidShares(rest, nonce) = SumFunctionOnSet(g, 1 .. m)
      /\ ValidShares(reqs, nonce) = SumFunctionOnSet(f, 1 .. n)
      /\ PrefixShares(reqs, nonce, k) = SumFunctionOnSet(f, 1 .. k)
  BY DEF ValidShares, PrefixShares
<1>6. /\ ValidShares(rest, nonce) \in Nat
      /\ PrefixShares(reqs, nonce, k) \in Nat
  BY <1>1, ValidSharesType, PrefixSharesType
<1>7. SumFunctionOnSet(f, 1 .. n) = SumFunctionOnSet(f, 1 .. k) + SumFunctionOnSet(g, 1 .. m)
  <2> HIDE DEF f, g, n, m
  <2> QED BY <1>1, <1>2, <1>3, <1>4, SumShift
<1>8. ValidShares(rest, nonce) = ValidShares(reqs, nonce) - PrefixShares(reqs, nonce, k)
  <2> HIDE DEF f, g, n, m
  <2> QED BY <1>5, <1>6, <1>7
<1> QED
  BY <1>1, <1>8 DEF rest

-----------------------------------------------------------------------------
(* The traversal: the recursive function of TraverseThawRequests exists, is*)
(* unique, and so obeys its two equations.                                 *)

InitialAcc(account) ==
  [tokensThawed  |-> 0,
   tokensThawing |-> account.tokensThawing,
   sharesThawing |-> account.sharesThawing]

IsTraversal(acc, account, reqs, k) ==
  acc = [i \in 0 .. k |->
           IF i = 0 THEN InitialAcc(account)
           ELSE FulfillThawRequest(acc[i - 1], reqs[i], account.thawingNonce)]

(* One more request of a traversal.                                        *)
LEMMA TraversalStep ==
  ASSUME NEW acc, NEW account, NEW reqs, NEW k \in Nat, IsTraversal(acc, account, reqs, k)
  PROVE  /\ acc[0] = InitialAcc(account)
         /\ \A i \in 1 .. k :
              acc[i] = FulfillThawRequest(acc[i - 1], reqs[i], account.thawingNonce)
<1>1. \A i \in 0 .. k : acc[i] =
        IF i = 0 THEN InitialAcc(account)
        ELSE FulfillThawRequest(acc[i - 1], reqs[i], account.thawingNonce)
  BY DEF IsTraversal
<1>2. 0 \in 0 .. k /\ \A i \in 1 .. k : i \in 0 .. k /\ i # 0
  OBVIOUS
<1> QED
  BY <1>1, <1>2

(* A traversal has one result for each prefix.                             *)
LEMMA TraversalUnique ==
  ASSUME NEW f, NEW g, NEW account, NEW reqs, NEW k \in Nat, NEW n \in Nat, k <= n,
         IsTraversal(f, account, reqs, k), IsTraversal(g, account, reqs, n)
  PROVE  \A i \in 0 .. k : f[i] = g[i]
<1> DEFINE Bad == {i \in 0 .. k : f[i] # g[i]}
<1>1. SUFFICES ASSUME Bad # {} PROVE FALSE
  OBVIOUS
<1>2. PICK m \in Bad : \A i \in Bad : m <= i
  <2>1. Bad \in SUBSET (0 .. k)
    OBVIOUS
  <2> HIDE DEF Bad
  <2> QED BY <1>1, <2>1, LeastElement
<1>3. f[0] = g[0]
  BY TraversalStep
<1>4. m # 0 /\ m \in 1 .. k /\ m \in 1 .. n /\ m - 1 \in 0 .. k
  BY <1>2, <1>3
<1>5. f[m - 1] = g[m - 1]
  BY <1>2, <1>4
<1>6. /\ f[m] = FulfillThawRequest(f[m - 1], reqs[m], account.thawingNonce)
      /\ g[m] = FulfillThawRequest(g[m - 1], reqs[m], account.thawingNonce)
  BY <1>4, TraversalStep
<1>7. f[m] # g[m]
  BY <1>2
<1> QED
  BY <1>5, <1>6, <1>7

(* A traversal exists for every list.                                      *)
LEMMA TraversalExists ==
  ASSUME NEW account, NEW reqs, NEW n \in Nat
  PROVE  \E acc : IsTraversal(acc, account, reqs, n)
<1> DEFINE Bad == {k \in 0 .. n : ~ \E acc : IsTraversal(acc, account, reqs, k)}
<1>1. SUFFICES ASSUME Bad # {} PROVE FALSE
  <2>1. n \in 0 .. n
    OBVIOUS
  <2> QED BY <1>1, <2>1
<1>2. PICK m \in Bad : \A i \in Bad : m <= i
  <2>1. Bad \in SUBSET (0 .. n)
    OBVIOUS
  <2> HIDE DEF Bad
  <2> QED BY <1>1, <2>1, LeastElement
<1>3. m # 0
  <2> DEFINE acc == [i \in 0 .. 0 |-> InitialAcc(account)]
  <2>1. acc = [i \in 0 .. 0 |->
                 IF i = 0 THEN InitialAcc(account)
                 ELSE FulfillThawRequest(acc[i - 1], reqs[i], account.thawingNonce)]
    <3>1. \A i \in 0 .. 0 : i = 0
      OBVIOUS
    <3> QED BY <3>1
  <2>2. IsTraversal(acc, account, reqs, 0)
    BY <2>1 DEF IsTraversal
  <2> QED BY <1>2, <2>2
<1> DEFINE j == m - 1
<1>4. j \in 0 .. n /\ j \in Nat /\ m = j + 1 /\ j \notin Bad
  BY <1>2, <1>3
<1>5. PICK f : IsTraversal(f, account, reqs, j)
  BY <1>4
<1> HIDE DEF j
<1> DEFINE last == FulfillThawRequest(f[j], reqs[m], account.thawingNonce)
           acc  == [i \in 0 .. m |-> IF i = m THEN last ELSE f[i]]
<1>6. IsTraversal(acc, account, reqs, m)
  <2>1. f[0] = InitialAcc(account)
    BY <1>4, <1>5, TraversalStep
  <2>2. \A i \in 1 .. j : f[i] = FulfillThawRequest(f[i - 1], reqs[i], account.thawingNonce)
    BY <1>4, <1>5, TraversalStep
  <2> DEFINE Body(i) == IF i = 0 THEN InitialAcc(account)
                        ELSE FulfillThawRequest(acc[i - 1], reqs[i], account.thawingNonce)
  <2>3. ASSUME NEW i \in 0 .. m  PROVE acc[i] = Body(i)
    <3> HIDE DEF last
    <3>1. CASE i = 0
      BY <2>1, <3>1, <1>4
    <3>2. CASE i \in 1 .. j
      <4>1. acc[i - 1] = f[i - 1] /\ acc[i] = f[i] /\ i # 0
        BY <3>2, <1>4
      <4> HIDE DEF acc
      <4> QED BY <2>2, <3>2, <4>1
    <3>3. CASE i = m
      <4>1. acc[i - 1] = f[j] /\ acc[i] = last /\ i # 0
        BY <3>3, <1>3, <1>4
      <4> HIDE DEF acc
      <4> QED BY <3>3, <4>1 DEF last
    <3> QED BY <3>1, <3>2, <3>3, <1>4
  <2> HIDE DEF last
  <2>4. acc = [i \in 0 .. m |-> Body(i)]
    <3> HIDE DEF Body
    <3> QED BY <2>3
  <2> HIDE DEF acc
  <2> QED BY <2>4 DEF IsTraversal
<1> QED
  BY <1>2, <1>6

(* The operator of the model is that traversal's last value.               *)
LEMMA TraverseIsValue ==
  ASSUME NEW acc, NEW account, NEW reqs, NEW k \in Nat, IsTraversal(acc, account, reqs, k)
  PROVE  TraverseThawRequests(account, reqs, k) = acc[k]
<1> DEFINE Chosen == CHOOSE f : IsTraversal(f, account, reqs, k)
<1>1. TraverseThawRequests(account, reqs, k) = Chosen[k]
  BY Zenon DEF TraverseThawRequests, IsTraversal, InitialAcc
<1>2. IsTraversal(Chosen, account, reqs, k)
  OBVIOUS
<1> HIDE DEF Chosen
<1>3. \A i \in 0 .. k : Chosen[i] = acc[i]
  BY <1>2, TraversalUnique
<1> QED
  BY <1>1, <1>3

(* Nothing is fulfilled at first, and then one request at a time.          *)
LEMMA TraverseEquations ==
  ASSUME NEW account, NEW reqs, NEW k \in Nat
  PROVE  /\ TraverseThawRequests(account, reqs, 0) = InitialAcc(account)
         /\ TraverseThawRequests(account, reqs, k + 1) =
              FulfillThawRequest(TraverseThawRequests(account, reqs, k), reqs[k + 1],
                                 account.thawingNonce)
<1> DEFINE n == k + 1
<1>1. PICK z : IsTraversal(z, account, reqs, 0)
  BY TraversalExists
<1>2. PICK f : IsTraversal(f, account, reqs, k)
  BY TraversalExists
<1>3. n \in Nat /\ n \in 1 .. n /\ k <= n /\ n - 1 = k /\ k \in 0 .. k
  OBVIOUS
<1> HIDE DEF n
<1>4. PICK g : IsTraversal(g, account, reqs, n)
  BY <1>3, TraversalExists
<1>5. f[k] = g[k]
  BY <1>2, <1>3, <1>4, TraversalUnique
<1>6. g[n] = FulfillThawRequest(g[k], reqs[n], account.thawingNonce)
  BY <1>3, <1>4, TraversalStep
<1>7. z[0] = InitialAcc(account)
  BY <1>1, TraversalStep
<1>8. /\ TraverseThawRequests(account, reqs, 0) = z[0]
      /\ TraverseThawRequests(account, reqs, k) = f[k]
      /\ TraverseThawRequests(account, reqs, n) = g[n]
  BY <1>1, <1>2, <1>3, <1>4, TraverseIsValue
<1> QED
  BY <1>5, <1>6, <1>7, <1>8 DEF n

(* A traversal takes from the thawing tokens what it returns as thawed, and*)
(* leaves a sound thawing pool without the shares of the requests passed.  *)
LEMMA TraverseSound ==
  ASSUME NEW account, NEW reqs \in Seq(ThawRequestType),
         SoundThawing(account.tokensThawing, account.sharesThawing),
         ValidShares(reqs, account.thawingNonce) <= account.sharesThawing,
         NEW n \in 0 .. Len(reqs)
  PROVE  LET result == TraverseThawRequests(account, reqs, n)
         IN  /\ result.tokensThawed \in Nat
             /\ result.tokensThawed + result.tokensThawing = account.tokensThawing
             /\ SoundThawing(result.tokensThawing, result.sharesThawing)
             /\ result.sharesThawing = account.sharesThawing
                  - PrefixShares(reqs, account.thawingNonce, n)
<1> DEFINE nonce == account.thawingNonce
           T == account.tokensThawing
           S == account.sharesThawing
           R(k) == TraverseThawRequests(account, reqs, k)
           Ok(k) == /\ R(k).tokensThawed \in Nat
                    /\ R(k).tokensThawed + R(k).tokensThawing = T
                    /\ SoundThawing(R(k).tokensThawing, R(k).sharesThawing)
                    /\ R(k).sharesThawing = S - PrefixShares(reqs, nonce, k)
           Bad == {k \in 0 .. n : ~Ok(k)}
<1>0. T \in Nat /\ S \in Nat /\ n \in Nat
  BY DEF SoundThawing
<1>1. SUFFICES ASSUME Bad # {} PROVE FALSE
  <2>1. n \in 0 .. n
    BY <1>0
  <2> HIDE DEF Ok
  <2> QED BY <1>1, <2>1 DEF Ok
<1>2. PICK m \in Bad : \A k \in Bad : m <= k
  <2>1. Bad \in SUBSET (0 .. n)
    OBVIOUS
  <2> HIDE DEF Bad
  <2> QED BY <1>0, <1>1, <2>1, LeastElement
<1>3. m # 0
  <2>1. R(0) = InitialAcc(account)
    BY TraverseEquations, <1>0
  <2>2. PrefixShares(reqs, nonce, 0) = 0
    BY SumEmpty DEF PrefixShares
  <2>3. Ok(0)
    BY <1>0, <2>1, <2>2 DEF InitialAcc
  <2> HIDE DEF Ok
  <2> QED BY <1>2, <2>3
<1> DEFINE j == m - 1
<1>4. j \in Nat /\ j + 1 = m /\ m \in 0 .. Len(reqs) /\ j < Len(reqs) /\ Ok(j)
  BY <1>2, <1>3
<1> HIDE DEF j
<1> DEFINE old == R(j)
           req == reqs[m]
           q   == (req.shares * old.tokensThawing) \div old.sharesThawing
<1>5. R(m) = FulfillThawRequest(old, req, nonce)
  BY <1>4, TraverseEquations
<1>6. PrefixShares(reqs, nonce, m) =
        PrefixShares(reqs, nonce, j) + (IF req.thawingNonce = nonce THEN req.shares ELSE 0)
  BY <1>4, PrefixSharesStep
<1>7. /\ PrefixShares(reqs, nonce, m) \in Nat
      /\ PrefixShares(reqs, nonce, m) <= S
  <2>1. PrefixShares(reqs, nonce, m) <= ValidShares(reqs, nonce)
    BY <1>4, PrefixSharesBound
  <2> QED BY <1>0, <1>4, <2>1, PrefixSharesType, ValidSharesType
<1>8. PrefixShares(reqs, nonce, j) \in Nat
  <2>1. j \in 0 .. Len(reqs)
    BY <1>4
  <2> QED BY <2>1, PrefixSharesType
<1>9. req.shares \in Nat \ {0}
  <2>1. req \in ThawRequestType
    BY <1>2, <1>3, <1>4
  <2> QED BY <2>1 DEF ThawRequestType
<1>10. /\ old.tokensThawed \in Nat
       /\ old.tokensThawed + old.tokensThawing = T
       /\ SoundThawing(old.tokensThawing, old.sharesThawing)
       /\ old.sharesThawing = S - PrefixShares(reqs, nonce, j)
  BY <1>4
<1>11. Ok(m)
  <2> HIDE DEF old, req, nonce, T, S
  <2>1. CASE req.thawingNonce # nonce
    <3>1. R(m) = old
      BY <1>5, <2>1 DEF FulfillThawRequest
    <3> QED BY <1>0, <1>6, <1>8, <1>10, <2>1, <3>1
  <2>2. CASE req.thawingNonce = nonce
    <3>1. R(m) = [tokensThawed  |-> old.tokensThawed + q,
                  tokensThawing |-> old.tokensThawing - q,
                  sharesThawing |-> old.sharesThawing - req.shares]
      BY <1>5, <2>2 DEF FulfillThawRequest
    <3>2. req.shares <= old.sharesThawing
      BY <1>0, <1>6, <1>7, <1>8, <1>9, <1>10, <2>2
    <3>3. /\ q \in Nat /\ q <= old.tokensThawing
          /\ SoundThawing(old.tokensThawing - q, old.sharesThawing - req.shares)
      BY <1>9, <1>10, <3>2, RedeemSound
    <3> HIDE DEF q
    <3>4. old.tokensThawing \in Nat
      BY <1>10 DEF SoundThawing
    <3>5. /\ R(m).tokensThawed = old.tokensThawed + q
          /\ R(m).tokensThawing = old.tokensThawing - q
          /\ R(m).sharesThawing = old.sharesThawing - req.shares
      BY <3>1
    <3>6. R(m).sharesThawing = S - PrefixShares(reqs, nonce, m)
      BY <1>0, <1>6, <1>8, <1>9, <1>10, <2>2, <3>5
    <3>7. /\ R(m).tokensThawed \in Nat
          /\ R(m).tokensThawed + R(m).tokensThawing = T
      <4>1. old.tokensThawed + q \in Nat
        BY <1>10, <3>3
      <4>2. (old.tokensThawed + q) + (old.tokensThawing - q) = T
        BY <1>0, <1>10, <3>3, <3>4
      <4> QED BY <3>5, <4>1, <4>2
    <3>8. SoundThawing(R(m).tokensThawing, R(m).sharesThawing)
      BY <3>3, <3>5
    <3> QED BY <3>6, <3>7, <3>8
  <2> QED BY <2>1, <2>2
<1> HIDE DEF Ok
<1> QED
  BY <1>2, <1>11

(* A traversal that may run ends within the list.                          *)
LEMMA RequestsFulfilledType ==
  ASSUME NEW reqs \in Seq(ThawRequestType), NEW n \in Nat, n <= Len(reqs), NEW time \in Nat
  PROVE  LET k == RequestsFulfilled(reqs, n, time)
         IN  /\ k \in 0 .. Len(reqs)
             /\ \A i \in 1 .. k : reqs[i].thawingUntil <= time
<1> DEFINE limit == TraversalLimit(reqs, n)
           Stops(k) == k < limit => reqs[k + 1].thawingUntil > time
           B == {k \in 0 .. limit : Stops(k)}
<1>1. limit \in Nat /\ limit <= Len(reqs)
  BY DEF TraversalLimit
<1>2. \A i \in 1 .. limit : reqs[i].thawingUntil \in Nat
  <2>1. \A i \in 1 .. limit : reqs[i] \in ThawRequestType
    BY <1>1
  <2> QED BY <2>1 DEF ThawRequestType
<1> HIDE DEF limit
<1>3. limit \in B
  BY <1>1
<1>4. PICK m \in B : \A k \in B : m <= k
  <2>1. B \in SUBSET (0 .. limit)
    OBVIOUS
  <2> HIDE DEF B
  <2> QED BY <1>1, <1>3, <2>1, LeastElement
<1>5. ASSUME NEW i \in 1 .. m  PROVE reqs[i].thawingUntil <= time
  <2>1. i - 1 \in 0 .. limit /\ i - 1 < m /\ (i - 1) + 1 = i /\ i \in 1 .. limit
    BY <1>1, <1>4
  <2>2. i - 1 \notin B
    BY <1>4, <2>1
  <2>3. ~(reqs[i].thawingUntil > time)
    BY <2>1, <2>2
  <2> QED BY <1>2, <2>1, <2>3
<1>6. \E k \in 0 .. limit : /\ \A i \in 1 .. k : reqs[i].thawingUntil <= time
                            /\ k < limit => reqs[k + 1].thawingUntil > time
  BY <1>4, <1>5
<1>7. LET k == RequestsFulfilled(reqs, n, time)
      IN  k \in 0 .. limit /\ \A i \in 1 .. k : reqs[i].thawingUntil <= time
  BY <1>6 DEF RequestsFulfilled, limit
<1> QED
  BY <1>1, <1>7

(* Fulfilment as a whole: the thawed tokens come out of the thawing ones,  *)
(* the pool stays sound, and pool and list lose the same shares.           *)
LEMMA FulfillSound ==
  ASSUME NEW account, NEW reqs \in Seq(ThawRequestType),
         SoundThawing(account.tokensThawing, account.sharesThawing),
         ValidShares(reqs, account.thawingNonce) <= account.sharesThawing,
         NEW n \in Nat, n <= Len(reqs), NEW time \in Nat
  PROVE  LET result == FulfillThawRequests(account, reqs, n, time)
             rest   == RemainingRequests(reqs, n, time)
         IN  /\ result.tokensThawed \in Nat
             /\ result.tokensThawed + result.tokensThawing = account.tokensThawing
             /\ SoundThawing(result.tokensThawing, result.sharesThawing)
             /\ rest \in Seq(ThawRequestType)
             /\ account.sharesThawing - result.sharesThawing =
                  ValidShares(reqs, account.thawingNonce)
                    - ValidShares(rest, account.thawingNonce)
             /\ \A nonce : NoncesUpTo(reqs, nonce) => NoncesUpTo(rest, nonce)
<1> DEFINE k == RequestsFulfilled(reqs, n, time)
           a == account.thawingNonce
<1>1. k \in 0 .. Len(reqs)
  BY RequestsFulfilledType
<1> HIDE DEF k
<1>2. LET result == FulfillThawRequests(account, reqs, n, time)
      IN  /\ result.tokensThawed \in Nat
          /\ result.tokensThawed + result.tokensThawing = account.tokensThawing
          /\ SoundThawing(result.tokensThawing, result.sharesThawing)
          /\ result.sharesThawing = account.sharesThawing - PrefixShares(reqs, a, k)
  BY <1>1, TraverseSound DEF FulfillThawRequests, k
<1>3. LET rest == RemainingRequests(reqs, n, time)
      IN  /\ rest \in Seq(ThawRequestType)
          /\ \A i \in 1 .. Len(rest) : i + k \in 1 .. Len(reqs) /\ rest[i] = reqs[i + k]
          /\ ValidShares(rest, a) = ValidShares(reqs, a) - PrefixShares(reqs, a, k)
  BY <1>1, ValidSharesOfRest DEF RemainingRequests, k
<1>4. ASSUME NEW nonce, NoncesUpTo(reqs, nonce)
      PROVE  NoncesUpTo(RemainingRequests(reqs, n, time), nonce)
  BY <1>3, <1>4 DEF NoncesUpTo
<1>5. PrefixShares(reqs, a, k) \in Nat /\ ValidShares(reqs, a) \in Nat
  BY <1>1, PrefixSharesType, ValidSharesType
<1>6. account.sharesThawing \in Nat
  BY DEF SoundThawing
<1> QED
  BY <1>2, <1>3, <1>4, <1>5, <1>6

-----------------------------------------------------------------------------
(* The price of thawing shares.                                            *)

(* Redeeming rounds down, so what the other shares are worth does not fall.*)
(* T tokens for S shares is the price before any request was redeemed.     *)
LEMMA RedeemKeepsPrice ==
  ASSUME NEW T \in Nat, NEW S \in Nat, NEW tokens \in Nat, NEW shares \in Nat \ {0},
         T * shares <= tokens * S, NEW s \in Nat, s <= shares
  PROVE  LET q == (s * tokens) \div shares
         IN  T * (shares - s) <= (tokens - q) * S
<1> DEFINE q == (s * tokens) \div shares
           r == shares - s
<1>1. s * tokens \in Nat
  OBVIOUS
<1>2. q \in Nat /\ q * shares <= s * tokens
  BY <1>1, Quotient
<1>3. r \in Nat /\ shares = r + s
  OBVIOUS
<1> HIDE DEF q, r
<1>4. tokens * r <= (tokens - q) * shares
  <2>1. tokens * shares = tokens * r + tokens * s
    BY <1>3
  <2>2. (tokens - q) * shares = tokens * shares - q * shares
    BY <1>2
  <2> QED BY <1>2, <1>3, <2>1, <2>2
<1>5. (tokens * r) * S <= ((tokens - q) * shares) * S
  BY <1>2, <1>3, <1>4
<1>6. (T * shares) * r <= (tokens * S) * r
  BY <1>3
<1>7. (T * r) * shares <= ((tokens - q) * S) * shares
  <2>1. /\ (T * r) * shares = (T * shares) * r
        /\ (tokens * S) * r = (tokens * r) * S
        /\ ((tokens - q) * shares) * S = ((tokens - q) * S) * shares
    BY <1>2, <1>3
  <2> QED BY <1>2, <1>3, <1>5, <1>6, <2>1
<1>8. T * r <= (tokens - q) * S
  <2>1. T * r \in Int /\ (tokens - q) * S \in Int
    BY <1>2, <1>3
  <2>2. PICK x \in Int, y \in Int : x = T * r /\ y = (tokens - q) * S
    BY <2>1
  <2>3. x * shares <= y * shares
    BY <1>7, <2>2
  <2>4. x <= y
    BY <2>3
  <2> QED BY <2>2, <2>4
<1> QED
  BY <1>8 DEF q, r

(* So a traversal never lowers the price of the shares that remain.        *)
LEMMA TraverseKeepsPrice ==
  ASSUME NEW account, NEW reqs \in Seq(ThawRequestType),
         SoundThawing(account.tokensThawing, account.sharesThawing),
         ValidShares(reqs, account.thawingNonce) <= account.sharesThawing,
         NEW n \in 0 .. Len(reqs)
  PROVE  LET result == TraverseThawRequests(account, reqs, n)
         IN  account.tokensThawing * result.sharesThawing
               <= result.tokensThawing * account.sharesThawing
<1> DEFINE nonce == account.thawingNonce
           T == account.tokensThawing
           S == account.sharesThawing
           R(k) == TraverseThawRequests(account, reqs, k)
           Ok(k) == T * R(k).sharesThawing <= R(k).tokensThawing * S
           Bad == {k \in 0 .. n : ~Ok(k)}
<1>0. T \in Nat /\ S \in Nat /\ n \in Nat /\ n <= Len(reqs)
  BY DEF SoundThawing
<1>1. SUFFICES ASSUME Bad # {} PROVE FALSE
  <2>1. n \in 0 .. n
    BY <1>0
  <2> HIDE DEF Ok
  <2> QED BY <1>1, <2>1 DEF Ok
<1>2. PICK m \in Bad : \A k \in Bad : m <= k
  <2>1. Bad \in SUBSET (0 .. n)
    OBVIOUS
  <2> HIDE DEF Bad
  <2> QED BY <1>0, <1>1, <2>1, LeastElement
<1>3. m # 0
  <2>1. R(0) = InitialAcc(account)
    BY TraverseEquations, <1>0
  <2>2. Ok(0)
    BY <1>0, <2>1 DEF InitialAcc
  <2> HIDE DEF Ok
  <2> QED BY <1>2, <2>2
<1> DEFINE j == m - 1
<1>4. j \in Nat /\ j + 1 = m /\ m \in 0 .. Len(reqs) /\ j \in 0 .. Len(reqs)
      /\ j < Len(reqs) /\ Ok(j)
  BY <1>0, <1>2, <1>3
<1> HIDE DEF j
<1> DEFINE old == R(j)
           req == reqs[m]
           q   == (req.shares * old.tokensThawing) \div old.sharesThawing
<1>5. R(m) = FulfillThawRequest(old, req, nonce)
  BY <1>4, TraverseEquations
<1>6. CASE req.thawingNonce # nonce
  <2>1. R(m) = old
    BY <1>5, <1>6 DEF FulfillThawRequest
  <2>2. Ok(m)
    BY <1>4, <2>1
  <2> HIDE DEF Ok
  <2> QED BY <1>2, <2>2
<1>7. CASE req.thawingNonce = nonce
  <2>1. /\ R(m).tokensThawing = old.tokensThawing - q
        /\ R(m).sharesThawing = old.sharesThawing - req.shares
    BY <1>5, <1>7 DEF FulfillThawRequest
  <2>2. SoundThawing(old.tokensThawing, old.sharesThawing)
    BY <1>4, TraverseSound
  <2>3. SoundThawing(R(m).tokensThawing, R(m).sharesThawing)
    BY <1>4, TraverseSound
  <2>4. req.shares \in Nat \ {0}
    <3>1. req \in ThawRequestType
      BY <1>2, <1>3, <1>4
    <3> QED BY <3>1 DEF ThawRequestType
  <2> HIDE DEF old, req, q
  <2>5. /\ old.tokensThawing \in Nat /\ old.sharesThawing \in Nat \ {0}
        /\ req.shares <= old.sharesThawing
    <3>1. old.tokensThawing \in Nat /\ old.sharesThawing \in Nat
          /\ R(m).sharesThawing \in Nat
      BY <2>2, <2>3 DEF SoundThawing
    <3> QED BY <2>1, <2>4, <3>1
  <2>6. T * old.sharesThawing <= old.tokensThawing * S
    BY <1>4 DEF old
  <2>7. T * (old.sharesThawing - req.shares) <= (old.tokensThawing - q) * S
    BY <1>0, <2>4, <2>5, <2>6, RedeemKeepsPrice DEF q
  <2>8. Ok(m)
    BY <2>1, <2>7
  <2> HIDE DEF Ok
  <2> QED BY <1>2, <2>8
<1> QED
  BY <1>6, <1>7

(* The expired shares of a list are a number, and no less than those of the*)
(* requests that a traversal passes.                                       *)
LEMMA ExpiredPrefix ==
  ASSUME NEW reqs \in Seq(ThawRequestType), NEW nonce, NEW time,
         NEW k \in 0 .. Len(reqs), \A i \in 1 .. k : reqs[i].thawingUntil <= time
  PROVE  /\ ExpiredShares(reqs, nonce, time) \in Nat
         /\ PrefixShares(reqs, nonce, k) <= ExpiredShares(reqs, nonce, time)
<1> DEFINE f == RequestShares(reqs, nonce)
           g == [i \in 1 .. Len(reqs) |-> IF reqs[i].thawingUntil <= time THEN f[i] ELSE 0]
           n == Len(reqs)
<1>1. n \in Nat /\ k \in 0 .. n /\ \A i \in 1 .. n : f[i] \in Nat
  BY RequestSharesType
<1>2. /\ \A i \in 1 .. n : g[i] \in Nat
      /\ \A i \in 1 .. k : f[i] = g[i]
  BY <1>1
<1>3. ExpiredShares(reqs, nonce, time) = SumFunctionOnSet(g, 1 .. n)
  BY DEF ExpiredShares
<1> HIDE DEF f, g, n
<1>4. SumFunctionOnSet(g, 1 .. n) \in Nat
  BY <1>1, <1>2, IntervalSumType
<1>5. SumFunctionOnSet(g, 1 .. k) <= SumFunctionOnSet(g, 1 .. n)
  BY <1>1, <1>2, SumPrefix
<1>6. SumFunctionOnSet(f, 1 .. k) = SumFunctionOnSet(g, 1 .. k)
  <2>1. IsFiniteSet(1 .. k)
    BY <1>1, FS_Interval
  <2> QED BY <1>2, <2>1, SumEqual
<1> QED
  BY <1>3, <1>4, <1>5, <1>6 DEF f, PrefixShares

(* Fulfilment redeems expired shares only, at most at their price, and     *)
(* leaves the others worth what they were.                                 *)
LEMMA FulfillAtPrice ==
  ASSUME NEW account, NEW reqs \in Seq(ThawRequestType),
         SoundThawing(account.tokensThawing, account.sharesThawing),
         ValidShares(reqs, account.thawingNonce) <= account.sharesThawing,
         NEW n \in Nat, n <= Len(reqs), NEW time \in Nat
  PROVE  LET result  == FulfillThawRequests(account, reqs, n, time)
             expired == ExpiredShares(reqs, account.thawingNonce, time)
         IN  /\ expired \in Nat
             /\ account.tokensThawing * result.sharesThawing
                  <= result.tokensThawing * account.sharesThawing
             /\ result.tokensThawed * account.sharesThawing
                  <= expired * account.tokensThawing
<1> DEFINE k == RequestsFulfilled(reqs, n, time)
           a == account.thawingNonce
           T == account.tokensThawing
           S == account.sharesThawing
           result  == FulfillThawRequests(account, reqs, n, time)
           expired == ExpiredShares(reqs, a, time)
           prefix  == PrefixShares(reqs, a, k)
<1>1. k \in 0 .. Len(reqs) /\ \A i \in 1 .. k : reqs[i].thawingUntil <= time
  BY RequestsFulfilledType
<1>2. result = TraverseThawRequests(account, reqs, k)
  BY DEF FulfillThawRequests
<1> HIDE DEF k
<1>3. /\ result.tokensThawed \in Nat
      /\ result.tokensThawed + result.tokensThawing = T
      /\ SoundThawing(result.tokensThawing, result.sharesThawing)
      /\ result.sharesThawing = S - prefix
  BY <1>1, <1>2, TraverseSound
<1>4. T * result.sharesThawing <= result.tokensThawing * S
  BY <1>1, <1>2, TraverseKeepsPrice
<1>5. expired \in Nat /\ prefix <= expired /\ prefix \in Nat
  BY <1>1, ExpiredPrefix, PrefixSharesType
<1>6. T \in Nat /\ S \in Nat
  BY DEF SoundThawing
<1> HIDE DEF result, expired, prefix, T, S
<1>7. result.tokensThawing \in Nat /\ result.sharesThawing \in Nat
  BY <1>3 DEF SoundThawing
<1>8. result.tokensThawed * S <= expired * T
  <2>1. PICK x \in Nat, y \in Nat : x = result.tokensThawed /\ y = result.tokensThawing
    BY <1>3, <1>7
  <2>2. x + y = T /\ T * (S - prefix) <= y * S
    BY <1>3, <1>4, <2>1
  <2>3. T * (S - prefix) = T * S - T * prefix /\ y * S = T * S - x * S
    BY <1>5, <1>6, <2>2
  <2>4. x * S <= T * prefix
    BY <1>5, <1>6, <2>2, <2>3
  <2>5. T * prefix <= expired * T
    BY <1>5, <1>6
  <2> QED BY <1>5, <1>6, <2>1, <2>4, <2>5
<1> QED
  BY <1>4, <1>5, <1>8 DEF result, expired, T, S

-----------------------------------------------------------------------------
(* The accounts and what makes them sound.                                 *)

ProvisionInv(prov, reqs) ==
  /\ prov \in ProvisionType
  /\ reqs \in Seq(ThawRequestType)
  /\ SoundAccount(prov)
  /\ NoncesUpTo(reqs, prov.thawingNonce)
  /\ prov.sharesThawing = ValidShares(reqs, prov.thawingNonce)
  /\ ~prov.created => prov.tokens = 0 /\ reqs = <<>>

ProvisionTokens(provs) ==
  SumFunctionOnSet([v \in Verifiers |-> provs[v].tokens], Verifiers)

StakeInv(sp, provs) ==
  /\ sp \in ServiceProviderType
  /\ sp.tokensProvisioned = ProvisionTokens(provs)
  /\ sp.tokensProvisioned + sp.tokensLocked <= sp.tokensStaked

StakeSideInv(sps, provs, reqs) ==
  /\ sps \in [Providers -> ServiceProviderType]
  /\ provs \in [Providers -> [Verifiers -> ProvisionType]]
  /\ reqs \in [Providers -> [Verifiers -> Seq(ThawRequestType)]]
  /\ \A p \in Providers, v \in Verifiers : ProvisionInv(provs[p][v], reqs[p][v])
  /\ \A p \in Providers : StakeInv(sps[p], provs[p])

HeldShares(waiting, nonce) ==
  SumFunctionOnSet([d \in Delegators |-> ValidShares(waiting[d], nonce)], Delegators)

PoolInv(pool, dels, waiting) ==
  /\ pool \in DelegationPoolType
  /\ dels \in [Delegators -> Nat]
  /\ waiting \in [Delegators -> Seq(ThawRequestType)]
  /\ SoundAccount(pool)
  /\ \A d \in Delegators : NoncesUpTo(waiting[d], pool.thawingNonce)
  /\ pool.sharesThawing = HeldShares(waiting, pool.thawingNonce)
  /\ pool.shares = SumFunctionOnSet(dels, Delegators)
  /\ pool.shares = 0 <=> (pool.tokens = pool.tokensThawing /\ IsValidPool(pool))

DelegationSideInv(pls, dels, waiting) ==
  /\ pls \in [Providers -> [Verifiers -> DelegationPoolType]]
  /\ dels \in [Providers -> [Verifiers -> [Delegators -> Nat]]]
  /\ waiting \in [Providers -> [Verifiers -> [Delegators -> Seq(ThawRequestType)]]]
  /\ \A p \in Providers, v \in Verifiers : PoolInv(pls[p][v], dels[p][v], waiting[p][v])

-----------------------------------------------------------------------------
(* A function of functions with one value replaced.                        *)
LEMMA UpdateTwice ==
  ASSUME NEW A, NEW B, NEW C, NEW f \in [A -> [B -> C]], NEW a \in A, NEW b \in B, NEW c \in C
  PROVE  LET g == [f EXCEPT ![a][b] = c]
         IN  /\ g \in [A -> [B -> C]]
             /\ g[a][b] = c
             /\ \A y \in B : y # b => g[a][y] = f[a][y]
             /\ \A x \in A : x # a => g[x] = f[x]
OBVIOUS

(* A provision and its list are replaced by sound ones, and the provider's *)
(* record follows.                                                         *)
LEMMA UpdateProvision ==
  ASSUME NEW sps, NEW provs, NEW reqs, StakeSideInv(sps, provs, reqs),
         NEW p \in Providers, NEW v \in Verifiers,
         NEW prov, NEW list, ProvisionInv(prov, list),
         NEW sp \in ServiceProviderType,
         sp.tokensProvisioned + provs[p][v].tokens = sps[p].tokensProvisioned + prov.tokens,
         sp.tokensProvisioned + sp.tokensLocked <= sp.tokensStaked
  PROVE  StakeSideInv([sps EXCEPT ![p] = sp], [provs EXCEPT ![p][v] = prov],
                      [reqs EXCEPT ![p][v] = list])
<1> DEFINE sps2   == [sps EXCEPT ![p] = sp]
           provs2 == [provs EXCEPT ![p][v] = prov]
           reqs2  == [reqs EXCEPT ![p][v] = list]
<1>1. /\ provs \in [Providers -> [Verifiers -> ProvisionType]]
      /\ reqs \in [Providers -> [Verifiers -> Seq(ThawRequestType)]]
      /\ sps \in [Providers -> ServiceProviderType]
      /\ \A q \in Providers, w \in Verifiers : ProvisionInv(provs[q][w], reqs[q][w])
      /\ \A q \in Providers : StakeInv(sps[q], provs[q])
  BY DEF StakeSideInv
<1>2. prov \in ProvisionType /\ list \in Seq(ThawRequestType)
  BY DEF ProvisionInv
<1>3. /\ provs2 \in [Providers -> [Verifiers -> ProvisionType]]
      /\ provs2[p][v] = prov
      /\ \A w \in Verifiers : w # v => provs2[p][w] = provs[p][w]
      /\ \A q \in Providers : q # p => provs2[q] = provs[q]
  BY <1>1, <1>2, UpdateTwice
<1>4. /\ reqs2 \in [Providers -> [Verifiers -> Seq(ThawRequestType)]]
      /\ reqs2[p][v] = list
      /\ \A w \in Verifiers : w # v => reqs2[p][w] = reqs[p][w]
      /\ \A q \in Providers : q # p => reqs2[q] = reqs[q]
  BY <1>1, <1>2, UpdateTwice
<1>5. /\ sps2 \in [Providers -> ServiceProviderType]
      /\ sps2[p] = sp
      /\ \A q \in Providers : q # p => sps2[q] = sps[q]
  BY <1>1
<1> HIDE DEF sps2, provs2, reqs2
<1>6. \A q \in Providers, w \in Verifiers : ProvisionInv(provs2[q][w], reqs2[q][w])
  BY <1>1, <1>3, <1>4
<1>7. StakeInv(sp, provs2[p])
  <2> DEFINE f == [w \in Verifiers |-> provs[p][w].tokens]
             g == [w \in Verifiers |-> provs2[p][w].tokens]
  <2>1. \A w \in Verifiers : f[w] \in Int /\ g[w] \in Int
    BY <1>1, <1>3 DEF ProvisionType
  <2>2. \A w \in Verifiers \ {v} : g[w] = f[w]
    BY <1>3
  <2>3. f[v] = provs[p][v].tokens /\ g[v] = prov.tokens
    BY <1>3
  <2>4. ProvisionTokens(provs[p]) = SumFunctionOnSet(f, Verifiers)
        /\ ProvisionTokens(provs2[p]) = SumFunctionOnSet(g, Verifiers)
    BY DEF ProvisionTokens
  <2>5. SumFunctionOnSet(f, Verifiers) \in Int
    BY <2>1, SumType, AddressesFinite
  <2> HIDE DEF f, g
  <2>6. SumFunctionOnSet(g, Verifiers) = SumFunctionOnSet(f, Verifiers) + g[v] - f[v]
    BY <2>1, <2>2, SumUpdate, AddressesFinite
  <2>7. sps[p].tokensProvisioned = SumFunctionOnSet(f, Verifiers)
    BY <1>1, <2>4 DEF StakeInv
  <2>8. sp.tokensProvisioned = SumFunctionOnSet(g, Verifiers)
    <3>1. sp.tokensProvisioned \in Int /\ g[v] \in Int /\ f[v] \in Int
      BY <2>1 DEF ServiceProviderType
    <3> QED BY <2>3, <2>5, <2>6, <2>7, <3>1
  <2> QED BY <2>4, <2>8 DEF StakeInv
<1>8. \A q \in Providers : StakeInv(sps2[q], provs2[q])
  BY <1>1, <1>3, <1>5, <1>7
<1> QED
  BY <1>3, <1>4, <1>5, <1>6, <1>8 DEF StakeSideInv, sps2, provs2, reqs2

(* Stake that no provision uses comes or goes.                             *)
LEMMA UpdateStake ==
  ASSUME NEW sps, NEW provs, NEW reqs, StakeSideInv(sps, provs, reqs),
         NEW p \in Providers, NEW sp \in ServiceProviderType,
         sp.tokensProvisioned = sps[p].tokensProvisioned,
         sp.tokensProvisioned + sp.tokensLocked <= sp.tokensStaked
  PROVE  StakeSideInv([sps EXCEPT ![p] = sp], provs, reqs)
BY DEF StakeSideInv, StakeInv

(* A pool, its delegations and its lists are replaced by sound ones.       *)
LEMMA UpdatePool ==
  ASSUME NEW pls, NEW dels, NEW waiting, DelegationSideInv(pls, dels, waiting),
         NEW p \in Providers, NEW v \in Verifiers,
         NEW pool, NEW del, NEW list, PoolInv(pool, del, list)
  PROVE  DelegationSideInv([pls EXCEPT ![p][v] = pool], [dels EXCEPT ![p][v] = del],
                           [waiting EXCEPT ![p][v] = list])
<1> DEFINE pls2   == [pls EXCEPT ![p][v] = pool]
           dels2  == [dels EXCEPT ![p][v] = del]
           waiting2 == [waiting EXCEPT ![p][v] = list]
<1>1. /\ pls \in [Providers -> [Verifiers -> DelegationPoolType]]
      /\ dels \in [Providers -> [Verifiers -> [Delegators -> Nat]]]
      /\ waiting \in [Providers -> [Verifiers -> [Delegators -> Seq(ThawRequestType)]]]
      /\ \A q \in Providers, w \in Verifiers : PoolInv(pls[q][w], dels[q][w], waiting[q][w])
  BY DEF DelegationSideInv
<1>2. /\ pool \in DelegationPoolType
      /\ del \in [Delegators -> Nat]
      /\ list \in [Delegators -> Seq(ThawRequestType)]
  BY DEF PoolInv
<1>3. /\ pls2 \in [Providers -> [Verifiers -> DelegationPoolType]]
      /\ pls2[p][v] = pool
      /\ \A w \in Verifiers : w # v => pls2[p][w] = pls[p][w]
      /\ \A q \in Providers : q # p => pls2[q] = pls[q]
  BY <1>1, <1>2, UpdateTwice
<1>4. /\ dels2 \in [Providers -> [Verifiers -> [Delegators -> Nat]]]
      /\ dels2[p][v] = del
      /\ \A w \in Verifiers : w # v => dels2[p][w] = dels[p][w]
      /\ \A q \in Providers : q # p => dels2[q] = dels[q]
  BY <1>1, <1>2, UpdateTwice
<1>5. /\ waiting2 \in [Providers -> [Verifiers -> [Delegators -> Seq(ThawRequestType)]]]
      /\ waiting2[p][v] = list
      /\ \A w \in Verifiers : w # v => waiting2[p][w] = waiting[p][w]
      /\ \A q \in Providers : q # p => waiting2[q] = waiting[q]
  BY <1>1, <1>2, UpdateTwice
<1> HIDE DEF pls2, dels2, waiting2
<1>6. \A q \in Providers, w \in Verifiers : PoolInv(pls2[q][w], dels2[q][w], waiting2[q][w])
  BY ZenonT(40), <1>1, <1>3, <1>4, <1>5
<1> QED
  BY <1>3, <1>4, <1>5, <1>6 DEF DelegationSideInv, pls2, dels2, waiting2
-----------------------------------------------------------------------------
(* What the calls do to one provision and its list.                        *)

(* Tokens are added.                                                       *)
LEMMA ProvisionGains ==
  ASSUME NEW prov \in ProvisionType, NEW reqs, ProvisionInv(prov, reqs), prov.created,
         NEW tokens \in Nat
  PROVE  ProvisionInv([prov EXCEPT !.tokens = @ + tokens], reqs)
<1> DEFINE new == [prov EXCEPT !.tokens = @ + tokens]
<1>1. prov.tokens + tokens \in Nat /\ prov.tokens \in Nat /\ prov.tokensThawing \in Nat
  BY DEF ProvisionType
<1>2. new \in ProvisionType
  BY <1>1 DEF ProvisionType
<1>3. /\ new.tokens = prov.tokens + tokens
      /\ new.tokensThawing = prov.tokensThawing
      /\ new.sharesThawing = prov.sharesThawing
      /\ new.thawingNonce = prov.thawingNonce
      /\ new.created
  BY DEF ProvisionType
<1> HIDE DEF new
<1> QED
  BY <1>1, <1>2, <1>3 DEF ProvisionInv, SoundAccount, new

(* The parameters change.                                                  *)
LEMMA ProvisionParameters ==
  ASSUME NEW prov \in ProvisionType, NEW reqs, ProvisionInv(prov, reqs), prov.created,
         NEW a \in Nat, NEW b \in Nat
  PROVE  /\ ProvisionInv([prov EXCEPT !.maxVerifierCutPending = a,
                                      !.thawingPeriodPending = b], reqs)
         /\ ProvisionInv([prov EXCEPT !.maxVerifierCut = a, !.thawingPeriod = b], reqs)
<1> DEFINE staged   == [prov EXCEPT !.maxVerifierCutPending = a, !.thawingPeriodPending = b]
           accepted == [prov EXCEPT !.maxVerifierCut = a, !.thawingPeriod = b]
<1>1. staged \in ProvisionType /\ accepted \in ProvisionType
  BY DEF ProvisionType
<1>2. ASSUME NEW new \in {staged, accepted}
      PROVE  /\ new.tokens = prov.tokens
             /\ new.tokensThawing = prov.tokensThawing
             /\ new.sharesThawing = prov.sharesThawing
             /\ new.thawingNonce = prov.thawingNonce
             /\ new.created
  BY DEF ProvisionType
<1> HIDE DEF staged, accepted
<1>3. ASSUME NEW new \in {staged, accepted}
      PROVE  ProvisionInv(new, reqs)
  BY <1>1, <1>2 DEF ProvisionInv, SoundAccount
<1> QED
  BY <1>3 DEF staged, accepted

(* A provision is created where there was none.                            *)
LEMMA ProvisionNew ==
  ASSUME NEW prov \in ProvisionType, NEW reqs, ProvisionInv(prov, reqs), ~prov.created,
         NEW tokens \in Nat, NEW cut \in Nat, NEW period \in Nat
  PROVE  ProvisionInv(NewProvision(tokens, cut, period), reqs)
<1>1. reqs = <<>> /\ reqs \in Seq(ThawRequestType)
  BY DEF ProvisionInv
<1>2. ValidShares(reqs, 0) = 0
  BY <1>1, ValidSharesEmpty
<1>3. NoncesUpTo(reqs, 0)
  BY <1>1 DEF NoncesUpTo
<1> QED
  BY <1>1, <1>2, <1>3 DEF ProvisionInv, NewProvision, ProvisionType, SoundAccount

(* A token never sells for less than a thawing share: shares rounded up.   *)
LEMMA RoundUpAtLeast ==
  ASSUME NEW T \in Nat \ {0}, NEW S \in Nat, T <= S, NEW tokens \in Nat \ {0}
  PROVE  LET q == (S * tokens + T - 1) \div T
         IN  q \in Nat /\ q >= tokens
<1> DEFINE q == (S * tokens + T - 1) \div T
<1>1. S * tokens \in Nat /\ S * tokens >= T * tokens /\ T * tokens \in Nat
  OBVIOUS
<1>2. S * tokens + T - 1 \in Nat
  BY <1>1
<1>3. q \in Nat /\ S * tokens + T - 1 < q * T + T
  BY <1>2, Quotient
<1> HIDE DEF q
<1>4. q >= tokens
  <2> SUFFICES ASSUME q + 1 <= tokens PROVE FALSE
    BY <1>3
  <2>1. (q + 1) * T <= tokens * T
    BY <1>3
  <2>2. (q + 1) * T = q * T + T /\ tokens * T = T * tokens
    BY <1>3
  <2> QED BY <1>1, <1>3, <2>1, <2>2
<1> QED
  BY <1>3, <1>4 DEF q

(* The thawing shares of thaw are not fewer than the tokens.               *)
LEMMA SharesRoundUp ==
  ASSUME NEW account, account.tokensThawing \in Nat, account.sharesThawing \in Nat,
         account.tokensThawing <= account.sharesThawing, NEW tokens \in Nat \ {0}
  PROVE  /\ ThawingSharesRoundUp(account, tokens) \in Nat \ {0}
         /\ ThawingSharesRoundUp(account, tokens) >= tokens
<1>1. CASE account.tokensThawing = 0
  BY <1>1 DEF ThawingSharesRoundUp
<1>2. CASE account.tokensThawing # 0
  <2>1. /\ ThawingSharesRoundUp(account, tokens) \in Nat
        /\ ThawingSharesRoundUp(account, tokens) >= tokens
    BY <1>2, RoundUpAtLeast DEF ThawingSharesRoundUp
  <2> QED BY <2>1
<1> QED
  BY <1>1, <1>2

(* Thawing.                                                                *)
LEMMA ProvisionThaws ==
  ASSUME NEW prov \in ProvisionType, NEW reqs, ProvisionInv(prov, reqs),
         NEW tokens \in Nat \ {0}, tokens <= TokensAvailable(prov), NEW until \in Nat
  PROVE  LET shares == ThawingSharesRoundUp(prov, tokens)
         IN  ProvisionInv(StartThawing(prov, tokens, shares),
                          Append(reqs, NewThawRequest(prov, shares, until)))
<1> DEFINE shares == ThawingSharesRoundUp(prov, tokens)
           req    == NewThawRequest(prov, shares, until)
           new    == StartThawing(prov, tokens, shares)
           longer == Append(reqs, req)
<1>1. /\ prov \in ProvisionType /\ reqs \in Seq(ThawRequestType) /\ SoundAccount(prov)
      /\ NoncesUpTo(reqs, prov.thawingNonce)
      /\ prov.sharesThawing = ValidShares(reqs, prov.thawingNonce)
      /\ prov.created
  BY DEF ProvisionInv, TokensAvailable, ProvisionType
<1>2. shares \in Nat \ {0} /\ shares >= tokens
  BY <1>1, SharesRoundUp DEF ProvisionType, SoundAccount
<1> HIDE DEF shares
<1>3. req \in ThawRequestType /\ req.thawingNonce = prov.thawingNonce /\ req.shares = shares
  BY <1>1, <1>2 DEF ThawRequestType, NewThawRequest, ProvisionType
<1> HIDE DEF req
<1>4. /\ longer \in Seq(ThawRequestType)
      /\ ValidShares(longer, prov.thawingNonce)
           = ValidShares(reqs, prov.thawingNonce) + shares
  BY <1>1, <1>3, ValidSharesAppend
<1>5. NoncesUpTo(longer, prov.thawingNonce)
  BY <1>1, <1>3 DEF NoncesUpTo, ProvisionType
<1> HIDE DEF longer
<1>6. /\ new \in ProvisionType
      /\ new.thawingNonce = prov.thawingNonce
      /\ new.created
      /\ new.sharesThawing = prov.sharesThawing + shares
      /\ SoundAccount(new)
  <2>1. /\ prov.tokens \in Nat /\ prov.tokensThawing \in Nat /\ prov.sharesThawing \in Nat
        /\ prov.tokensThawing <= prov.sharesThawing
        /\ prov.tokensThawing + tokens <= prov.tokens
    BY <1>1 DEF ProvisionType, SoundAccount, TokensAvailable
  <2>2. prov.tokensThawing + tokens \in Nat /\ prov.sharesThawing + shares \in Nat
    BY <1>2, <2>1
  <2>3. new \in ProvisionType
    BY <2>2 DEF StartThawing, ProvisionType
  <2>4. /\ new.tokens = prov.tokens
        /\ new.tokensThawing = prov.tokensThawing + tokens
        /\ new.sharesThawing = prov.sharesThawing + shares
        /\ new.thawingNonce = prov.thawingNonce
        /\ new.created = prov.created
    BY DEF StartThawing, ProvisionType
  <2> HIDE DEF new
  <2>5. SoundAccount(new)
    BY <1>2, <2>1, <2>4 DEF SoundAccount
  <2> QED BY <1>1, <2>3, <2>4, <2>5
<1> HIDE DEF new
<1> QED
  BY <1>1, <1>4, <1>5, <1>6 DEF ProvisionInv, new, longer, req, shares

(* Deprovision: what has thawed leaves.                                    *)
LEMMA ProvisionReleases ==
  ASSUME NEW prov \in ProvisionType, NEW reqs, ProvisionInv(prov, reqs), prov.created,
         NEW n \in Nat, n <= Len(reqs), NEW time \in Nat
  PROVE  LET result == FulfillThawRequests(prov, reqs, n, time)
         IN  /\ ProvisionInv(ReleaseThawed(prov, result), RemainingRequests(reqs, n, time))
             /\ result.tokensThawed \in Nat
             /\ result.tokensThawed <= prov.tokens
             /\ ReleaseThawed(prov, result).tokens = prov.tokens - result.tokensThawed
<1> DEFINE result == FulfillThawRequests(prov, reqs, n, time)
           rest   == RemainingRequests(reqs, n, time)
           new    == ReleaseThawed(prov, result)
           a      == prov.thawingNonce
<1>1. /\ prov \in ProvisionType /\ reqs \in Seq(ThawRequestType) /\ SoundAccount(prov)
      /\ NoncesUpTo(reqs, a) /\ prov.sharesThawing = ValidShares(reqs, a)
  BY DEF ProvisionInv
<1>2. SoundThawing(prov.tokensThawing, prov.sharesThawing)
  BY <1>1 DEF SoundThawing, SoundAccount, ProvisionType
<1>3. ValidShares(reqs, a) <= prov.sharesThawing
  BY <1>1 DEF ProvisionType
<1>4. /\ result.tokensThawed \in Nat
      /\ result.tokensThawed + result.tokensThawing = prov.tokensThawing
      /\ SoundThawing(result.tokensThawing, result.sharesThawing)
      /\ rest \in Seq(ThawRequestType)
      /\ prov.sharesThawing - result.sharesThawing = ValidShares(reqs, a) - ValidShares(rest, a)
      /\ NoncesUpTo(rest, a)
  BY <1>1, <1>2, <1>3, FulfillSound
<1> HIDE DEF result, rest
<1>5. ValidShares(rest, a) \in Nat
  BY <1>4, ValidSharesType
<1>6. result.sharesThawing = ValidShares(rest, a)
  BY SMTT(30), <1>1, <1>4, <1>5 DEF SoundThawing, ProvisionType
<1>7. result.tokensThawed <= prov.tokens
  BY SMTT(30), <1>1, <1>4 DEF SoundThawing, SoundAccount, ProvisionType
<1>8. /\ new \in ProvisionType
      /\ new.tokens = prov.tokens - result.tokensThawed
      /\ new.tokensThawing = result.tokensThawing
      /\ new.sharesThawing = result.sharesThawing
      /\ new.thawingNonce = a
      /\ new.created
  <2>1. /\ prov.tokens - result.tokensThawed \in Nat
        /\ result.tokensThawing \in Nat /\ result.sharesThawing \in Nat
    BY SMTT(30), <1>4, <1>7 DEF ProvisionType, SoundThawing
  <2>2. new \in ProvisionType
    BY <2>1 DEF ReleaseThawed, ProvisionType
  <2> QED BY <2>2 DEF ReleaseThawed, ProvisionType
<1> HIDE DEF new
<1>9. SoundAccount(new)
  <2>1. /\ prov.tokens \in Nat /\ result.tokensThawing \in Nat
        /\ prov.tokensThawing \in Nat /\ prov.tokensThawing <= prov.tokens
    BY <1>1, <1>4 DEF SoundAccount, SoundThawing, ProvisionType
  <2>2. new.tokensThawing <= new.tokens
    BY <1>4, <1>8, <2>1
  <2> QED BY <1>4, <1>8, <2>2 DEF SoundAccount, SoundThawing
<1> QED
  BY <1>1, <1>4, <1>6, <1>7, <1>8, <1>9 DEF ProvisionInv, new, result, rest

(* What a slash leaves thawing.                                            *)
LEMMA SlashedThawing ==
  ASSUME NEW T \in Nat, NEW P \in Nat \ {0}, NEW x \in Nat, x <= P, T <= P
  PROVE  LET t == (T * (P - x)) \div P
         IN  /\ t \in Nat /\ t <= T /\ t <= P - x
             /\ T = 0 => t = 0
             /\ T = P => t = P - x
             /\ (t = P - x /\ x # P) => T = P
<1> DEFINE y == P - x
           t == (T * y) \div P
<1>1. y \in Nat /\ y <= P
  OBVIOUS
<1> HIDE DEF y
<1>2. T * y \in Nat /\ T * y <= T * P /\ T * y <= P * y
  BY <1>1
<1>3. t \in Nat /\ t * P <= T * y /\ T * y < t * P + P
  BY <1>2, Quotient
<1> HIDE DEF t
<1>4. t <= T
  <2> SUFFICES ASSUME t >= T + 1 PROVE FALSE
    BY <1>3
  <2>1. t * P >= (T + 1) * P
    BY <1>3
  <2> QED BY <1>2, <1>3, <2>1
<1>5. t <= y
  <2> SUFFICES ASSUME t >= y + 1 PROVE FALSE
    BY <1>1, <1>3
  <2>1. t * P >= (y + 1) * P
    BY <1>1, <1>3
  <2> QED BY <1>1, <1>2, <1>3, <2>1
<1>6. T = P => t = y
  <2> SUFFICES ASSUME T = P PROVE t >= y
    BY <1>1, <1>3, <1>5
  <2> SUFFICES ASSUME t + 1 <= y PROVE FALSE
    BY <1>1, <1>3
  <2>1. (t + 1) * P <= y * P
    BY <1>1, <1>3
  <2> QED BY <1>1, <1>2, <1>3, <2>1
<1>7. (t = y /\ y # 0) => T = P
  <2> SUFFICES ASSUME t = y, y # 0, T + 1 <= P PROVE FALSE
    OBVIOUS
  <2>1. y * P <= T * y
    BY <1>3
  <2>2. (T + 1) * y <= P * y
    BY <1>1
  <2> QED BY <1>1, <2>1, <2>2
<1>8. y = 0 <=> x = P
  BY DEF y
<1> QED
  BY <1>3, <1>4, <1>5, <1>6, <1>7, <1>8 DEF t, y
(* Slashing keeps an account sound: the thawing shares and the nonce stay, *)
(* or the requests are voided by the next nonce.                           *)
LEMMA SlashedAccount ==
  ASSUME NEW V \in {ProvisionType, DelegationPoolType}, NEW account \in V,
         SoundAccount(account), NEW x \in Nat, x <= account.tokens
  PROVE  LET new == SlashAccount(account, x)
         IN  /\ new \in V
             /\ new.tokens = account.tokens - x
             /\ SoundAccount(new)
             /\ \/ /\ new.sharesThawing = account.sharesThawing
                   /\ new.thawingNonce = account.thawingNonce
                \/ /\ new.sharesThawing = 0
                   /\ new.thawingNonce = account.thawingNonce + 1
             /\ V = ProvisionType => new.created = account.created
             /\ V = DelegationPoolType => new.shares = account.shares
             /\ account.tokens = account.tokensThawing => new.tokens = new.tokensThawing
             /\ new.tokens = new.tokensThawing /\ new.tokens # 0
                  => account.tokens = account.tokensThawing
<1> DEFINE P   == account.tokens
           T   == account.tokensThawing
           t   == (T * (P - x)) \div P
           new == SlashAccount(account, x)
           cancel == account.sharesThawing # 0 /\ t = 0
<1>1. /\ P \in Nat /\ T \in Nat /\ account.sharesThawing \in Nat
      /\ account.thawingNonce \in Nat
      /\ T <= P /\ T <= account.sharesThawing
      /\ T = 0 => account.sharesThawing = 0
  <2>1. /\ P \in Nat /\ T \in Nat /\ account.sharesThawing \in Nat
        /\ account.thawingNonce \in Nat
    <3>1. CASE V = ProvisionType
      BY <3>1 DEF ProvisionType
    <3>2. CASE V = DelegationPoolType
      BY <3>2 DEF DelegationPoolType
    <3> QED BY <3>1, <3>2
  <2> QED BY <2>1 DEF SoundAccount
<1>2. CASE x = 0
  <2>1. new = account
    BY <1>2 DEF SlashAccount
  <2> QED BY <1>1, <1>2, <2>1
<1>3. CASE x # 0
  <2>1. P # 0 /\ P - x \in Nat
    BY <1>1, <1>3
  <2>2. /\ t \in Nat /\ t <= T /\ t <= P - x
        /\ T = 0 => t = 0
        /\ T = P => t = P - x
        /\ (t = P - x /\ x # P) => T = P
    BY SMTT(30), <1>1, <2>1, SlashedThawing
  <2>3. new = [account EXCEPT
                 !.tokens        = P - x,
                 !.tokensThawing = t,
                 !.sharesThawing = IF cancel THEN 0 ELSE account.sharesThawing,
                 !.thawingNonce  = IF cancel THEN account.thawingNonce + 1
                                   ELSE account.thawingNonce]
    BY <1>3 DEF SlashAccount
  <2> HIDE DEF t, new
  <2>4. CASE cancel
    <3>1. new = [account EXCEPT !.tokens = P - x, !.tokensThawing = t,
                   !.sharesThawing = 0, !.thawingNonce = account.thawingNonce + 1]
      BY <2>3, <2>4
    <3>2. account.thawingNonce + 1 \in Nat
      BY <1>1
    <3>3. new \in V
      <4>1. CASE V = ProvisionType
        BY <2>1, <2>2, <3>1, <3>2, <4>1 DEF ProvisionType
      <4>2. CASE V = DelegationPoolType
        BY <2>1, <2>2, <3>1, <3>2, <4>2 DEF DelegationPoolType
      <4> QED BY <4>1, <4>2
    <3>4. /\ new.tokens = P - x /\ new.tokensThawing = t
          /\ new.sharesThawing = 0 /\ new.thawingNonce = account.thawingNonce + 1
          /\ V = ProvisionType => new.created = account.created
          /\ V = DelegationPoolType => new.shares = account.shares
      BY <3>1 DEF ProvisionType, DelegationPoolType
    <3>5. SoundAccount(new)
      BY <2>1, <2>2, <2>4, <3>4 DEF SoundAccount
    <3> QED BY <1>1, <2>1, <2>2, <3>3, <3>4, <3>5 DEF new
  <2>5. CASE ~cancel
    <3>1. new = [account EXCEPT !.tokens = P - x, !.tokensThawing = t,
                   !.sharesThawing = account.sharesThawing,
                   !.thawingNonce = account.thawingNonce]
      BY <2>3, <2>5
    <3>2. account.sharesThawing \in Nat /\ account.thawingNonce \in Nat
      BY <1>1
    <3>3. new \in V
      <4>1. CASE V = ProvisionType
        BY <2>1, <2>2, <3>1, <3>2, <4>1 DEF ProvisionType
      <4>2. CASE V = DelegationPoolType
        BY <2>1, <2>2, <3>1, <3>2, <4>2 DEF DelegationPoolType
      <4> QED BY <4>1, <4>2
    <3>4. /\ new.tokens = P - x /\ new.tokensThawing = t
          /\ new.sharesThawing = account.sharesThawing
          /\ new.thawingNonce = account.thawingNonce
          /\ V = ProvisionType => new.created = account.created
          /\ V = DelegationPoolType => new.shares = account.shares
      BY <3>1 DEF ProvisionType, DelegationPoolType
    <3>5. SoundAccount(new)
      BY <1>1, <2>1, <2>2, <2>5, <3>4 DEF SoundAccount
    <3> QED BY <1>1, <2>1, <2>2, <3>3, <3>4, <3>5 DEF new
  <2> QED BY <2>4, <2>5
<1> QED
  BY <1>2, <1>3

(* Requests stay behind when the nonce moves on.                           *)
LEMMA NoncesUpToNext ==
  ASSUME NEW reqs \in Seq(ThawRequestType), NEW nonce \in Nat, NoncesUpTo(reqs, nonce)
  PROVE  NoncesUpTo(reqs, nonce + 1)
<1>1. \A i \in 1 .. Len(reqs) : reqs[i] \in ThawRequestType
  OBVIOUS
<1>2. \A i \in 1 .. Len(reqs) : reqs[i].thawingNonce \in Nat
  BY <1>1 DEF ThawRequestType
<1> QED
  BY <1>2 DEF NoncesUpTo

(* Slashing the provider.                                                  *)
LEMMA ProvisionSlashed ==
  ASSUME NEW prov \in ProvisionType, NEW reqs, ProvisionInv(prov, reqs),
         NEW x \in Nat, x <= prov.tokens
  PROVE  /\ ProvisionInv(SlashAccount(prov, x), reqs)
         /\ SlashAccount(prov, x).tokens = prov.tokens - x
<1> DEFINE new == SlashAccount(prov, x)
           a   == prov.thawingNonce
<1>1. /\ reqs \in Seq(ThawRequestType) /\ SoundAccount(prov) /\ NoncesUpTo(reqs, a)
      /\ prov.sharesThawing = ValidShares(reqs, a)
      /\ ~prov.created => prov.tokens = 0 /\ reqs = <<>>
      /\ a \in Nat /\ prov.tokens \in Nat
  BY DEF ProvisionInv, ProvisionType
<1>2. /\ new \in ProvisionType
      /\ new.tokens = prov.tokens - x
      /\ SoundAccount(new)
      /\ \/ new.sharesThawing = prov.sharesThawing /\ new.thawingNonce = a
         \/ new.sharesThawing = 0 /\ new.thawingNonce = a + 1
      /\ new.created = prov.created
  BY <1>1, SlashedAccount
<1> HIDE DEF new
<1>3. CASE new.thawingNonce = a /\ new.sharesThawing = prov.sharesThawing
  BY <1>1, <1>2, <1>3 DEF ProvisionInv, new
<1>4. CASE new.thawingNonce = a + 1 /\ new.sharesThawing = 0
  <2>1. ValidShares(reqs, a + 1) = 0
    BY <1>1, ValidSharesOfNewNonce
  <2>2. NoncesUpTo(reqs, a + 1)
    BY <1>1, NoncesUpToNext
  <2> QED BY <1>1, <1>2, <1>4, <2>1, <2>2 DEF ProvisionInv, new
<1> QED
  BY <1>2, <1>3, <1>4
-----------------------------------------------------------------------------
(* What the calls do to one pool, its delegations and its lists.           *)

(* The thawing shares of a pool, after the list of one delegator changed.  *)
LEMMA HeldSharesUpdate ==
  ASSUME NEW waiting \in [Delegators -> Seq(ThawRequestType)], NEW nonce,
         NEW d \in Delegators, NEW list \in Seq(ThawRequestType)
  PROVE  /\ HeldShares(waiting, nonce) \in Nat
         /\ ValidShares(waiting[d], nonce) \in Nat
         /\ ValidShares(list, nonce) \in Nat
         /\ ValidShares(waiting[d], nonce) <= HeldShares(waiting, nonce)
         /\ HeldShares([waiting EXCEPT ![d] = list], nonce)
              = HeldShares(waiting, nonce) + ValidShares(list, nonce)
                  - ValidShares(waiting[d], nonce)
<1> DEFINE f == [e \in Delegators |-> ValidShares(waiting[e], nonce)]
           g == [e \in Delegators |-> ValidShares([waiting EXCEPT ![d] = list][e], nonce)]
<1>1. \A e \in Delegators : f[e] \in Nat
  BY ValidSharesType
<1>2. /\ ValidShares(list, nonce) \in Nat
      /\ f[d] = ValidShares(waiting[d], nonce)
      /\ g[d] = ValidShares(list, nonce)
      /\ \A e \in Delegators \ {d} : g[e] = f[e]
  BY ValidSharesType
<1>3. \A e \in Delegators : f[e] \in Int /\ g[e] \in Int
  BY <1>1, <1>2
<1>4. HeldShares(waiting, nonce) = SumFunctionOnSet(f, Delegators)
  BY DEF HeldShares
<1>5. HeldShares([waiting EXCEPT ![d] = list], nonce) = SumFunctionOnSet(g, Delegators)
  BY DEF HeldShares
<1> HIDE DEF f, g
<1>6. SumFunctionOnSet(f, Delegators) \in Nat /\ SumFunctionOnSet(f, Delegators) >= f[d]
  BY <1>1, SumType, SumAtLeast, AddressesFinite
<1>7. SumFunctionOnSet(g, Delegators) = SumFunctionOnSet(f, Delegators) + g[d] - f[d]
  BY <1>2, <1>3, SumUpdate, AddressesFinite
<1> QED
  BY <1>1, <1>2, <1>4, <1>5, <1>6, <1>7

(* The delegations of a pool, after that of one delegator changed.         *)
LEMMA DelegationsUpdate ==
  ASSUME NEW dels \in [Delegators -> Nat], NEW d \in Delegators, NEW shares \in Nat
  PROVE  /\ SumFunctionOnSet(dels, Delegators) \in Nat
         /\ dels[d] <= SumFunctionOnSet(dels, Delegators)
         /\ SumFunctionOnSet([dels EXCEPT ![d] = shares], Delegators)
              = SumFunctionOnSet(dels, Delegators) + shares - dels[d]
<1> DEFINE g == [dels EXCEPT ![d] = shares]
<1>1. /\ \A e \in Delegators : dels[e] \in Nat
      /\ \A e \in Delegators : dels[e] \in Int /\ g[e] \in Int
      /\ \A e \in Delegators \ {d} : g[e] = dels[e]
      /\ g[d] = shares
  OBVIOUS
<1> HIDE DEF g
<1>2. SumFunctionOnSet(dels, Delegators) \in Nat /\ SumFunctionOnSet(dels, Delegators) >= dels[d]
  BY <1>1, SumType, SumAtLeast, AddressesFinite
<1>3. SumFunctionOnSet(g, Delegators) = SumFunctionOnSet(dels, Delegators) + g[d] - dels[d]
  BY <1>1, SumUpdate, AddressesFinite
<1> QED
  BY <1>1, <1>2, <1>3 DEF g

(* Delegating.                                                             *)
LEMMA PoolDelegates ==
  ASSUME NEW pool \in DelegationPoolType, NEW dels, NEW waiting, PoolInv(pool, dels, waiting),
         NEW d \in Delegators, NEW tokens \in Nat \ {0}, DelegationShares(pool, tokens) # 0
  PROVE  /\ PoolInv(AddDelegation(pool, tokens),
                    [dels EXCEPT ![d] = @ + DelegationShares(pool, tokens)], waiting)
         /\ AddDelegation(pool, tokens).tokens = pool.tokens + tokens
<1> DEFINE shares == DelegationShares(pool, tokens)
           new    == AddDelegation(pool, tokens)
<1>1. /\ dels \in [Delegators -> Nat] /\ dels[d] \in Nat
      /\ pool.tokens \in Nat /\ pool.shares \in Nat
      /\ pool.tokensThawing \in Nat /\ pool.sharesThawing \in Nat
      /\ pool.tokensThawing <= pool.tokens
      /\ pool.shares = SumFunctionOnSet(dels, Delegators)
  BY DEF PoolInv, DelegationPoolType, SoundAccount
<1>2. shares \in Nat \ {0}
  <2>1. CASE pool.tokens = 0 \/ pool.tokens = pool.tokensThawing
    BY <2>1 DEF DelegationShares
  <2>2. CASE ~(pool.tokens = 0 \/ pool.tokens = pool.tokensThawing)
    <3>1. tokens * pool.shares \in Nat
      BY <1>1
    <3>3. TokensAvailable(pool) \in Nat \ {0}
      BY <1>1, <2>2 DEF TokensAvailable
    <3>2. (tokens * pool.shares) \div TokensAvailable(pool) \in Nat
      BY <3>1, <3>3, Quotient
    <3> QED BY <2>2, <3>2 DEF DelegationShares
  <2> QED BY <2>1, <2>2
<1> HIDE DEF shares
<1>3. new = [pool EXCEPT !.tokens = pool.tokens + tokens, !.shares = pool.shares + shares]
  BY DEF AddDelegation, shares
<1> HIDE DEF new
<1>4. pool.tokens + tokens \in Nat /\ pool.shares + shares \in Nat
  BY <1>1, <1>2
<1>5. new \in DelegationPoolType
  BY <1>3, <1>4 DEF DelegationPoolType
<1>6. /\ new.tokens = pool.tokens + tokens
      /\ new.shares = pool.shares + shares
      /\ new.tokensThawing = pool.tokensThawing
      /\ new.sharesThawing = pool.sharesThawing
      /\ new.thawingNonce = pool.thawingNonce
  BY <1>3 DEF DelegationPoolType
<1>7. SoundAccount(new)
  BY <1>1, <1>6 DEF SoundAccount, PoolInv
<1>8. /\ [dels EXCEPT ![d] = @ + shares] \in [Delegators -> Nat]
      /\ SumFunctionOnSet([dels EXCEPT ![d] = @ + shares], Delegators) = new.shares
  <2>1. PICK n \in Nat : n = dels[d] + shares
    BY <1>1, <1>2
  <2>2. SumFunctionOnSet([dels EXCEPT ![d] = n], Delegators)
          = SumFunctionOnSet(dels, Delegators) + n - dels[d]
    <3>1. dels \in [Delegators -> Nat] /\ n \in Nat /\ d \in Delegators
      BY <1>1
    <3> QED BY ONLY <3>1, DelegationsUpdate
  <2>3. [dels EXCEPT ![d] = @ + shares] = [dels EXCEPT ![d] = n]
    BY <2>1
  <2>4. [dels EXCEPT ![d] = n] \in [Delegators -> Nat]
    BY <1>1
  <2> QED BY <1>1, <1>2, <1>6, <2>1, <2>2, <2>3, <2>4
<1>9. new.shares # 0 /\ new.tokens # new.tokensThawing
  BY <1>1, <1>2, <1>6
<1> QED
  BY <1>5, <1>6, <1>7, <1>8, <1>9 DEF PoolInv, shares, new

(* Tokens are given to a pool that has shares.                             *)
LEMMA PoolGains ==
  ASSUME NEW pool \in DelegationPoolType, NEW dels, NEW waiting, PoolInv(pool, dels, waiting),
         pool.shares > 0, NEW tokens \in Nat \ {0}
  PROVE  /\ PoolInv([pool EXCEPT !.tokens = @ + tokens], dels, waiting)
         /\ [pool EXCEPT !.tokens = @ + tokens].tokens = pool.tokens + tokens
<1> DEFINE new == [pool EXCEPT !.tokens = @ + tokens]
<1>1. /\ pool.tokens \in Nat /\ pool.tokens + tokens \in Nat /\ pool.shares \in Nat
      /\ pool.tokensThawing \in Nat /\ pool.tokensThawing <= pool.tokens
  BY DEF PoolInv, DelegationPoolType, SoundAccount
<1>2. new \in DelegationPoolType
  BY <1>1 DEF DelegationPoolType
<1>3. /\ new.tokens = pool.tokens + tokens
      /\ new.shares = pool.shares
      /\ new.tokensThawing = pool.tokensThawing
      /\ new.sharesThawing = pool.sharesThawing
      /\ new.thawingNonce = pool.thawingNonce
  BY DEF DelegationPoolType
<1> HIDE DEF new
<1>4. SoundAccount(new)
  BY <1>1, <1>3 DEF SoundAccount, PoolInv
<1>5. new.shares # 0 /\ new.tokens # new.tokensThawing
  BY <1>1, <1>3
<1> QED
  BY <1>2, <1>3, <1>4, <1>5 DEF PoolInv, new
(* The price of undelegated shares, rounded down: all shares together take *)
(* all the tokens, and only they do.                                       *)
LEMMA UndelegatePrice ==
  ASSUME NEW total \in Nat \ {0}, NEW shares \in Nat \ {0}, shares <= total,
         NEW available \in Nat \ {0}
  PROVE  LET tokens == (shares * available) \div total
         IN  /\ tokens \in Nat
             /\ tokens <= available
             /\ tokens = available <=> shares = total
<1> DEFINE tokens == (shares * available) \div total
<1>1. shares * available \in Nat /\ shares * available <= total * available
  OBVIOUS
<1>2. tokens \in Nat /\ tokens * total <= shares * available
      /\ shares * available < tokens * total + total
  BY <1>1, Quotient
<1> HIDE DEF tokens
<1>3. tokens <= available
  <2> SUFFICES ASSUME available + 1 <= tokens PROVE FALSE
    BY <1>2
  <2>1. (available + 1) * total <= tokens * total
    BY <1>2
  <2> QED BY <1>1, <1>2, <2>1
<1>4. tokens = available => shares = total
  <2> SUFFICES ASSUME tokens = available, shares + 1 <= total PROVE FALSE
    OBVIOUS
  <2>1. (shares + 1) * available <= total * available
    OBVIOUS
  <2> QED BY <1>1, <1>2, <2>1
<1>5. shares = total => tokens = available
  <2> SUFFICES ASSUME shares = total, tokens + 1 <= available PROVE FALSE
    BY <1>2, <1>3
  <2>1. (tokens + 1) * total <= available * total
    BY <1>2
  <2> QED BY <1>1, <1>2, <2>1
<1> QED
  BY <1>2, <1>3, <1>4, <1>5 DEF tokens

(* Thawing shares of a pool are rounded down, and still not fewer than the *)
(* tokens, for a thawing share is never worth more than a token.           *)
LEMMA SharesRoundDown ==
  ASSUME NEW account, account.tokensThawing \in Nat, account.sharesThawing \in Nat,
         account.tokensThawing <= account.sharesThawing, NEW tokens \in Nat
  PROVE  /\ ThawingSharesRoundDown(account, tokens) \in Nat
         /\ ThawingSharesRoundDown(account, tokens) >= tokens
         /\ ThawingSharesRoundDown(account, tokens) # 0 => tokens # 0
<1>0. PICK T \in Nat, S \in Nat : T = account.tokensThawing /\ S = account.sharesThawing
  OBVIOUS
<1>1. CASE T = 0
  BY <1>0, <1>1 DEF ThawingSharesRoundDown
<1>2. CASE T # 0
  <2> DEFINE q == (tokens * S) \div T
  <2>1. tokens * S \in Nat /\ tokens * T <= tokens * S /\ (tokens = 0 => tokens * S = 0)
    BY <1>0
  <2>2. q \in Nat /\ q * T <= tokens * S /\ tokens * S < q * T + T
    BY <1>2, <2>1, Quotient
  <2>3. ThawingSharesRoundDown(account, tokens) = q
    BY <1>0, <1>2 DEF ThawingSharesRoundDown
  <2> HIDE DEF q
  <2>4. q >= tokens
    <3> SUFFICES ASSUME q + 1 <= tokens PROVE FALSE
      BY <2>2
    <3>1. (q + 1) * T <= tokens * T
      BY <2>2
    <3> QED BY <2>1, <2>2, <3>1
  <2>5. q # 0 => tokens # 0
    <3> SUFFICES ASSUME q >= 1, tokens = 0 PROVE FALSE
      BY <2>2
    <3>1. 1 * T <= q * T
      BY <2>2
    <3> QED BY <1>2, <2>1, <2>2, <3>1
  <2> QED BY <2>2, <2>3, <2>4, <2>5
<1> QED
  BY <1>1, <1>2

(* Undelegating.                                                           *)
LEMMA PoolUndelegates ==
  ASSUME NEW pool \in DelegationPoolType, NEW dels, NEW waiting, PoolInv(pool, dels, waiting),
         NEW d \in Delegators, NEW shares \in Nat \ {0}, shares <= dels[d],
         pool.tokens # 0, NEW until \in Nat,
         ThawingSharesRoundDown(pool, (shares * TokensAvailable(pool)) \div pool.shares) # 0
  PROVE  LET tokens == (shares * TokensAvailable(pool)) \div pool.shares
             new    == UndelegatedPool(pool, shares, tokens)
             req    == NewThawRequest(pool, ThawingSharesRoundDown(pool, tokens), until)
         IN  /\ PoolInv(new, [dels EXCEPT ![d] = @ - shares],
                        [waiting EXCEPT ![d] = Append(@, req)])
             /\ new.tokens = pool.tokens
<1> DEFINE available == TokensAvailable(pool)
           tokens == (shares * available) \div pool.shares
           thawingShares == ThawingSharesRoundDown(pool, tokens)
           new    == UndelegatedPool(pool, shares, tokens)
           req    == NewThawRequest(pool, thawingShares, until)
           a      == pool.thawingNonce
<1>1. /\ dels \in [Delegators -> Nat] /\ dels[d] \in Nat
      /\ waiting \in [Delegators -> Seq(ThawRequestType)] /\ waiting[d] \in Seq(ThawRequestType)
      /\ pool.tokens \in Nat /\ pool.shares \in Nat
      /\ pool.tokensThawing \in Nat /\ pool.sharesThawing \in Nat /\ a \in Nat
      /\ pool.tokensThawing <= pool.tokens
      /\ pool.tokensThawing <= pool.sharesThawing
      /\ pool.shares = SumFunctionOnSet(dels, Delegators)
      /\ pool.sharesThawing = HeldShares(waiting, a)
      /\ \A e \in Delegators : NoncesUpTo(waiting[e], a)
  BY DEF PoolInv, DelegationPoolType, SoundAccount
<1>2. dels[d] <= pool.shares
  BY <1>1, DelegationsUpdate
<1>3. pool.shares \in Nat \ {0} /\ shares <= pool.shares
  BY <1>1, <1>2
<1>4. available \in Nat \ {0} /\ available + pool.tokensThawing = pool.tokens
  <2>1. pool.tokens # pool.tokensThawing
    BY <1>3 DEF PoolInv, IsValidPool
  <2> QED BY <1>1, <2>1 DEF TokensAvailable
<1> HIDE DEF available
<1>5. tokens \in Nat /\ tokens <= available /\ (tokens = available <=> shares = pool.shares)
  BY <1>3, <1>4, UndelegatePrice
<1>6. thawingShares # 0
  BY DEF available
<1> HIDE DEF tokens
<1>7. thawingShares \in Nat \ {0} /\ thawingShares >= tokens /\ tokens # 0
  BY <1>1, <1>5, <1>6, SharesRoundDown
<1> HIDE DEF thawingShares
<1>8. req \in ThawRequestType /\ req.thawingNonce = a /\ req.shares = thawingShares
  BY <1>1, <1>7 DEF ThawRequestType, NewThawRequest
<1> HIDE DEF req
<1>9. PICK list \in Seq(ThawRequestType) : list = Append(waiting[d], req)
  <2>1. waiting[d] \in Seq(ThawRequestType) /\ req \in ThawRequestType
    BY <1>1, <1>8
  <2>2. Append(waiting[d], req) \in Seq(ThawRequestType)
    BY ONLY <2>1, AppendProperties
  <2> QED BY <2>2
<1>10. ValidShares(list, a) = ValidShares(waiting[d], a) + thawingShares
  BY <1>1, <1>8, <1>9, ValidSharesAppend
<1>11. NoncesUpTo(list, a)
  BY SMTT(30), <1>1, <1>8, <1>9 DEF NoncesUpTo
<1>12. HeldShares([waiting EXCEPT ![d] = list], a) = pool.sharesThawing + thawingShares
  <2>1. /\ HeldShares(waiting, a) \in Nat
        /\ ValidShares(waiting[d], a) \in Nat
        /\ HeldShares([waiting EXCEPT ![d] = list], a)
             = HeldShares(waiting, a) + ValidShares(list, a) - ValidShares(waiting[d], a)
    <3>1. waiting \in [Delegators -> Seq(ThawRequestType)] /\ d \in Delegators
          /\ list \in Seq(ThawRequestType)
      BY <1>1
    <3> QED BY ONLY <3>1, HeldSharesUpdate
  <2> QED BY <1>1, <1>7, <1>10, <2>1
<1>13. PICK left \in Nat : left = dels[d] - shares
  BY <1>1
<1>14. SumFunctionOnSet([dels EXCEPT ![d] = left], Delegators) = pool.shares - shares
  <2>1. SumFunctionOnSet([dels EXCEPT ![d] = left], Delegators)
          = SumFunctionOnSet(dels, Delegators) + left - dels[d]
    <3>1. dels \in [Delegators -> Nat] /\ left \in Nat /\ d \in Delegators
      BY <1>1
    <3> QED BY ONLY <3>1, DelegationsUpdate
  <2> QED BY <1>1, <1>13, <2>1
<1>15. /\ pool.tokensThawing + tokens \in Nat /\ pool.sharesThawing + thawingShares \in Nat
       /\ pool.shares - shares \in Nat
  BY SMTT(30), <1>1, <1>3, <1>5, <1>7
<1>16. new = [pool EXCEPT !.tokensThawing = pool.tokensThawing + tokens,
                          !.sharesThawing = pool.sharesThawing + thawingShares,
                          !.shares = pool.shares - shares]
  BY DEF UndelegatedPool, StartThawing, thawingShares, DelegationPoolType
<1> HIDE DEF new
<1>17. new \in DelegationPoolType
  BY <1>15, <1>16 DEF DelegationPoolType
<1>18. /\ new.tokens = pool.tokens
       /\ new.tokensThawing = pool.tokensThawing + tokens
       /\ new.sharesThawing = pool.sharesThawing + thawingShares
       /\ new.shares = pool.shares - shares
       /\ new.thawingNonce = a
  BY <1>16 DEF DelegationPoolType
<1>19. SoundAccount(new)
  BY SMTT(30), <1>1, <1>4, <1>5, <1>7, <1>18 DEF SoundAccount
<1>20. new.shares = 0 <=> (new.tokens = new.tokensThawing /\ IsValidPool(new))
  <2>1. new.shares = 0 <=> tokens = available
    BY <1>1, <1>3, <1>5, <1>18
  <2>2. new.tokens = new.tokensThawing <=> tokens = available
    BY SMTT(30), <1>1, <1>4, <1>5, <1>18
  <2> QED BY <1>18, <2>1, <2>2 DEF IsValidPool
<1>21. /\ [dels EXCEPT ![d] = @ - shares] = [dels EXCEPT ![d] = left]
       /\ [dels EXCEPT ![d] = left] \in [Delegators -> Nat]
       /\ [waiting EXCEPT ![d] = Append(@, req)] = [waiting EXCEPT ![d] = list]
       /\ [waiting EXCEPT ![d] = list] \in [Delegators -> Seq(ThawRequestType)]
  BY <1>1, <1>9, <1>13
<1>22. \A e \in Delegators : NoncesUpTo([waiting EXCEPT ![d] = list][e], a)
  BY <1>1, <1>11
<1>23. PoolInv(new, [dels EXCEPT ![d] = left], [waiting EXCEPT ![d] = list])
  BY <1>12, <1>14, <1>17, <1>18, <1>19, <1>20, <1>21, <1>22 DEF PoolInv
<1> QED
  BY <1>18, <1>21, <1>23 DEF new, req, thawingShares, tokens, available
(* Withdrawing what has thawed.                                            *)
LEMMA PoolReleases ==
  ASSUME NEW pool \in DelegationPoolType, NEW dels, NEW waiting, PoolInv(pool, dels, waiting),
         IsValidPool(pool), NEW d \in Delegators,
         NEW n \in Nat, n <= Len(waiting[d]), NEW time \in Nat
  PROVE  LET result == FulfillThawRequests(pool, waiting[d], n, time)
         IN  /\ PoolInv(ReleaseThawed(pool, result), dels,
                        [waiting EXCEPT ![d] = RemainingRequests(@, n, time)])
             /\ result.tokensThawed \in Nat
             /\ result.tokensThawed <= pool.tokens
             /\ ReleaseThawed(pool, result).tokens = pool.tokens - result.tokensThawed
<1> DEFINE result == FulfillThawRequests(pool, waiting[d], n, time)
           rest   == RemainingRequests(waiting[d], n, time)
           new    == ReleaseThawed(pool, result)
           a      == pool.thawingNonce
<1>1. /\ waiting \in [Delegators -> Seq(ThawRequestType)] /\ waiting[d] \in Seq(ThawRequestType)
      /\ dels \in [Delegators -> Nat]
      /\ pool.tokens \in Nat /\ pool.shares \in Nat /\ a \in Nat
      /\ pool.tokensThawing \in Nat /\ pool.sharesThawing \in Nat
      /\ pool.tokensThawing <= pool.tokens
      /\ pool.tokensThawing <= pool.sharesThawing
      /\ pool.tokensThawing = 0 => pool.sharesThawing = 0
      /\ pool.shares = SumFunctionOnSet(dels, Delegators)
      /\ pool.sharesThawing = HeldShares(waiting, a)
      /\ \A e \in Delegators : NoncesUpTo(waiting[e], a)
      /\ pool.shares = 0 <=> (pool.tokens = pool.tokensThawing /\ IsValidPool(pool))
  BY DEF PoolInv, DelegationPoolType, SoundAccount
<1>2. SoundThawing(pool.tokensThawing, pool.sharesThawing)
  BY <1>1 DEF SoundThawing
<1>3. ValidShares(waiting[d], a) <= pool.sharesThawing
  BY <1>1, HeldSharesUpdate
<1>4. /\ result.tokensThawed \in Nat
      /\ result.tokensThawed + result.tokensThawing = pool.tokensThawing
      /\ SoundThawing(result.tokensThawing, result.sharesThawing)
      /\ rest \in Seq(ThawRequestType)
      /\ pool.sharesThawing - result.sharesThawing
           = ValidShares(waiting[d], a) - ValidShares(rest, a)
      /\ NoncesUpTo(rest, a)
  <2>1. PICK reqs \in Seq(ThawRequestType) : reqs = waiting[d]
    BY <1>1
  <2> HIDE DEF a
  <2>2. /\ SoundThawing(pool.tokensThawing, pool.sharesThawing)
        /\ ValidShares(reqs, pool.thawingNonce) <= pool.sharesThawing
        /\ n \in Nat /\ n <= Len(reqs) /\ time \in Nat
        /\ NoncesUpTo(reqs, a)
    BY <1>1, <1>2, <1>3, <2>1 DEF a
  <2> QED BY <2>1, <2>2, FulfillSound DEF a
<1> HIDE DEF result, rest
<1>5. result.sharesThawing = HeldShares([waiting EXCEPT ![d] = rest], a)
  <2>1. /\ HeldShares(waiting, a) \in Nat
        /\ ValidShares(waiting[d], a) \in Nat
        /\ ValidShares(rest, a) \in Nat
        /\ HeldShares([waiting EXCEPT ![d] = rest], a)
             = HeldShares(waiting, a) + ValidShares(rest, a) - ValidShares(waiting[d], a)
    <3>1. waiting \in [Delegators -> Seq(ThawRequestType)] /\ d \in Delegators
          /\ rest \in Seq(ThawRequestType)
      BY <1>1, <1>4
    <3> QED BY ONLY <3>1, HeldSharesUpdate
  <2>2. result.sharesThawing \in Nat
    BY <1>4 DEF SoundThawing
  <2>3. pool.sharesThawing = HeldShares(waiting, a)
        /\ pool.sharesThawing - result.sharesThawing
             = ValidShares(waiting[d], a) - ValidShares(rest, a)
    BY <1>1, <1>4
  <2> QED BY ONLY SMTT(30), <2>1, <2>2, <2>3
<1>6. result.tokensThawed <= pool.tokens /\ pool.tokens - result.tokensThawed \in Nat
      /\ result.tokensThawing \in Nat /\ result.sharesThawing \in Nat
  BY SMTT(30), <1>1, <1>4 DEF SoundThawing
<1>7. new = [pool EXCEPT !.tokens = pool.tokens - result.tokensThawed,
                         !.tokensThawing = result.tokensThawing,
                         !.sharesThawing = result.sharesThawing]
  BY DEF ReleaseThawed
<1> HIDE DEF new
<1>8. new \in DelegationPoolType
  BY <1>6, <1>7 DEF DelegationPoolType
<1>9. /\ new.tokens = pool.tokens - result.tokensThawed
      /\ new.shares = pool.shares
      /\ new.tokensThawing = result.tokensThawing
      /\ new.sharesThawing = result.sharesThawing
      /\ new.thawingNonce = a
  BY <1>7 DEF DelegationPoolType
<1>10. SoundAccount(new)
  <2>1. new.tokensThawing <= new.tokens
    BY SMTT(30), <1>1, <1>4, <1>6, <1>9
  <2> QED BY <1>4, <1>9, <2>1 DEF SoundAccount, SoundThawing
<1>11. new.shares = 0 <=> (new.tokens = new.tokensThawing /\ IsValidPool(new))
  <2>1. new.tokens = new.tokensThawing <=> pool.tokens = pool.tokensThawing
    BY SMTT(30), <1>1, <1>4, <1>6, <1>9
  <2> QED BY <1>1, <1>9, <2>1 DEF IsValidPool
<1>12. /\ [waiting EXCEPT ![d] = rest] \in [Delegators -> Seq(ThawRequestType)]
       /\ \A e \in Delegators : NoncesUpTo([waiting EXCEPT ![d] = rest][e], a)
  BY <1>1, <1>4
<1>13. PoolInv(new, dels, [waiting EXCEPT ![d] = rest])
  BY <1>1, <1>5, <1>8, <1>9, <1>10, <1>11, <1>12 DEF PoolInv
<1> QED
  BY <1>4, <1>6, <1>9, <1>13 DEF new, rest, result

(* Slashing the delegators.                                                *)
LEMMA PoolSlashed ==
  ASSUME NEW pool \in DelegationPoolType, NEW dels, NEW waiting, PoolInv(pool, dels, waiting),
         NEW x \in Nat, x <= pool.tokens
  PROVE  /\ PoolInv(SlashAccount(pool, x), dels, waiting)
         /\ SlashAccount(pool, x).tokens = pool.tokens - x
<1> DEFINE new == SlashAccount(pool, x)
           a   == pool.thawingNonce
<1>1. /\ waiting \in [Delegators -> Seq(ThawRequestType)]
      /\ dels \in [Delegators -> Nat]
      /\ pool.tokens \in Nat /\ pool.shares \in Nat /\ a \in Nat
      /\ SoundAccount(pool)
      /\ pool.shares = SumFunctionOnSet(dels, Delegators)
      /\ pool.sharesThawing = HeldShares(waiting, a)
      /\ \A e \in Delegators : NoncesUpTo(waiting[e], a)
      /\ pool.shares = 0 <=> (pool.tokens = pool.tokensThawing /\ IsValidPool(pool))
  BY DEF PoolInv, DelegationPoolType
<1>2. /\ new \in DelegationPoolType
      /\ new.tokens = pool.tokens - x
      /\ SoundAccount(new)
      /\ \/ new.sharesThawing = pool.sharesThawing /\ new.thawingNonce = a
         \/ new.sharesThawing = 0 /\ new.thawingNonce = a + 1
      /\ new.shares = pool.shares
      /\ pool.tokens = pool.tokensThawing => new.tokens = new.tokensThawing
      /\ new.tokens = new.tokensThawing /\ new.tokens # 0 => pool.tokens = pool.tokensThawing
  BY <1>1, SlashedAccount
<1> HIDE DEF new
<1>3. new.shares = 0 <=> (new.tokens = new.tokensThawing /\ IsValidPool(new))
  BY <1>1, <1>2 DEF IsValidPool
<1>4. CASE new.thawingNonce = a /\ new.sharesThawing = pool.sharesThawing
  BY <1>1, <1>2, <1>3, <1>4 DEF PoolInv, new
<1>5. CASE new.thawingNonce = a + 1 /\ new.sharesThawing = 0
  <2>1. HeldShares(waiting, a + 1) = 0
    <3> DEFINE f == [e \in Delegators |-> ValidShares(waiting[e], a + 1)]
    <3>1. \A e \in Delegators : f[e] = 0
      BY <1>1, ValidSharesOfNewNonce
    <3> HIDE DEF f
    <3>2. SumFunctionOnSet(f, Delegators) = 0
      BY <3>1, SumZero, AddressesFinite
    <3> QED BY <3>2 DEF HeldShares, f
  <2>2. \A e \in Delegators : NoncesUpTo(waiting[e], a + 1)
    BY <1>1, NoncesUpToNext
  <2> QED BY <1>1, <1>2, <1>3, <1>5, <2>1, <2>2 DEF PoolInv, new
<1> QED
  BY <1>2, <1>4, <1>5
-----------------------------------------------------------------------------
(* What the contract owes, after one record changed.                       *)

LEMMA StakedUpdate ==
  ASSUME NEW sps \in [Providers -> ServiceProviderType],
         NEW p \in Providers, NEW sp \in ServiceProviderType
  PROVE  /\ TokensStaked(sps) \in Nat
         /\ TokensStaked([sps EXCEPT ![p] = sp])
              = TokensStaked(sps) + sp.tokensStaked - sps[p].tokensStaked
<1> DEFINE f == [q \in Providers |-> sps[q].tokensStaked]
           g == [q \in Providers |-> [sps EXCEPT ![p] = sp][q].tokensStaked]
<1>1. \A q \in Providers : f[q] \in Nat
  BY DEF ServiceProviderType
<1>2. /\ f[p] = sps[p].tokensStaked
      /\ g[p] = sp.tokensStaked
      /\ \A q \in Providers \ {p} : g[q] = f[q]
      /\ g[p] \in Nat
  BY DEF ServiceProviderType
<1>3. \A q \in Providers : f[q] \in Int /\ g[q] \in Int
  BY <1>1, <1>2
<1>4. TokensStaked(sps) = SumFunctionOnSet(f, Providers)
  BY DEF TokensStaked
<1>5. TokensStaked([sps EXCEPT ![p] = sp]) = SumFunctionOnSet(g, Providers)
  BY DEF TokensStaked
<1> HIDE DEF f, g
<1>6. SumFunctionOnSet(f, Providers) \in Nat
  BY <1>1, SumType, AddressesFinite
<1>7. SumFunctionOnSet(g, Providers) = SumFunctionOnSet(f, Providers) + g[p] - f[p]
  BY <1>2, <1>3, SumUpdate, AddressesFinite
<1> QED
  BY <1>2, <1>4, <1>5, <1>6, <1>7

(* The delegated tokens, after one pool changed.                           *)
LEMMA DelegatedUpdate ==
  ASSUME NEW pls \in [Providers -> [Verifiers -> DelegationPoolType]],
         NEW p \in Providers, NEW v \in Verifiers, NEW pool \in DelegationPoolType
  PROVE  /\ TokensDelegated(pls) \in Nat
         /\ TokensDelegated([pls EXCEPT ![p][v] = pool])
              = TokensDelegated(pls) + pool.tokens - pls[p][v].tokens
<1> DEFINE pls2 == [pls EXCEPT ![p][v] = pool]
           Of(q)  == [w \in Verifiers |-> pls[q][w].tokens]
           Of2(q) == [w \in Verifiers |-> pls2[q][w].tokens]
           f == [q \in Providers |-> SumFunctionOnSet(Of(q), Verifiers)]
           g == [q \in Providers |-> SumFunctionOnSet(Of2(q), Verifiers)]
<1>1. /\ pls2[p][v] = pool
      /\ \A w \in Verifiers : w # v => pls2[p][w] = pls[p][w]
      /\ \A q \in Providers : q # p => pls2[q] = pls[q]
  BY UpdateTwice
<1>2. TokensDelegated(pls) = SumFunctionOnSet(f, Providers)
      /\ TokensDelegated(pls2) = SumFunctionOnSet(g, Providers)
  BY Zenon DEF TokensDelegated
<1> HIDE DEF pls2
<1>3. \A q \in Providers : \A w \in Verifiers : Of(q)[w] \in Nat
  BY DEF DelegationPoolType
<1>4. /\ Of(p)[v] = pls[p][v].tokens
      /\ Of2(p)[v] = pool.tokens
      /\ \A w \in Verifiers \ {v} : Of2(p)[w] = Of(p)[w]
      /\ Of2(p)[v] \in Nat
  BY <1>1 DEF DelegationPoolType
<1>5. \A q \in Providers : q # p => Of2(q) = Of(q)
  BY <1>1
<1> HIDE DEF Of, Of2
<1>6. \A q \in Providers : SumFunctionOnSet(Of(q), Verifiers) \in Nat
  BY <1>3, SumType, AddressesFinite
<1>7. SumFunctionOnSet(Of2(p), Verifiers)
        = SumFunctionOnSet(Of(p), Verifiers) + Of2(p)[v] - Of(p)[v]
  <2>1. \A w \in Verifiers : Of(p)[w] \in Int /\ Of2(p)[w] \in Int
    BY <1>3, <1>4
  <2> QED BY <1>4, <2>1, SumUpdate, AddressesFinite
<1>8. /\ f[p] = SumFunctionOnSet(Of(p), Verifiers)
      /\ g[p] = SumFunctionOnSet(Of2(p), Verifiers)
      /\ \A q \in Providers : f[q] \in Nat
      /\ \A q \in Providers \ {p} : g[q] = f[q]
  BY <1>5, <1>6
<1> HIDE DEF f, g
<1>9. \A q \in Providers : f[q] \in Int /\ g[q] \in Int
  <2>1. g[p] \in Int
    <3>1. Of(p)[v] \in Int /\ Of2(p)[v] \in Int /\ f[p] \in Int
      BY <1>3, <1>4, <1>8
    <3> QED BY <1>7, <1>8, <3>1
  <2> QED BY <1>8, <2>1
<1>10. SumFunctionOnSet(f, Providers) \in Nat
  BY <1>8, SumType, AddressesFinite
<1>11. SumFunctionOnSet(g, Providers) = SumFunctionOnSet(f, Providers) + g[p] - f[p]
  BY <1>8, <1>9, SumUpdate, AddressesFinite
<1>12. g[p] - f[p] = pool.tokens - pls[p][v].tokens
  <2>1. Of(p)[v] \in Int /\ Of2(p)[v] \in Int /\ f[p] \in Int
    BY <1>3, <1>4, <1>8
  <2> QED BY <1>4, <1>7, <1>8, <2>1
<1>13. f[p] \in Int /\ g[p] \in Int /\ pool.tokens \in Int /\ pls[p][v].tokens \in Int
  BY <1>3, <1>4, <1>9
<1> QED
  BY <1>2, <1>10, <1>11, <1>12, <1>13 DEF pls2

(* The tokens locked before Horizon, after one delegator was paid.         *)
LEMMA LockedUpdate ==
  ASSUME NEW locked \in [Providers -> [Delegators -> Nat]],
         NEW p \in Providers, NEW d \in Delegators
  PROVE  /\ TokensLocked(locked) \in Nat
         /\ TokensLocked([locked EXCEPT ![p][d] = 0]) = TokensLocked(locked) - locked[p][d]
<1> DEFINE locked2 == [locked EXCEPT ![p][d] = 0]
           f == [q \in Providers |-> SumFunctionOnSet(locked[q], Delegators)]
           g == [q \in Providers |-> SumFunctionOnSet(locked2[q], Delegators)]
<1>1. /\ locked2[p] = [locked[p] EXCEPT ![d] = 0]
      /\ \A q \in Providers : q # p => locked2[q] = locked[q]
  OBVIOUS
<1>2. TokensLocked(locked) = SumFunctionOnSet(f, Providers)
      /\ TokensLocked(locked2) = SumFunctionOnSet(g, Providers)
  BY Zenon DEF TokensLocked
<1> HIDE DEF locked2
<1>3. \A q \in Providers : SumFunctionOnSet(locked[q], Delegators) \in Nat
  BY DelegationsUpdate
<1>4. SumFunctionOnSet(locked2[p], Delegators)
        = SumFunctionOnSet(locked[p], Delegators) + 0 - locked[p][d]
  BY <1>1, DelegationsUpdate
<1>5. /\ f[p] = SumFunctionOnSet(locked[p], Delegators)
      /\ g[p] = SumFunctionOnSet(locked2[p], Delegators)
      /\ \A q \in Providers : f[q] \in Nat
      /\ \A q \in Providers \ {p} : g[q] = f[q]
  BY <1>1, <1>3
<1> HIDE DEF f, g
<1>6. g[p] \in Int /\ f[p] \in Int /\ locked[p][d] \in Nat /\ g[p] = f[p] - locked[p][d]
  <2>1. locked[p][d] \in Nat /\ f[p] \in Nat
    BY <1>5
  <2> QED BY <1>4, <1>5, <2>1
<1>7. SumFunctionOnSet(f, Providers) \in Nat
  BY <1>5, SumType, AddressesFinite
<1>8. SumFunctionOnSet(g, Providers) = SumFunctionOnSet(f, Providers) + g[p] - f[p]
  <2>1. \A q \in Providers : f[q] \in Int /\ g[q] \in Int
    BY <1>5, <1>6
  <2> QED BY <1>5, <2>1, SumUpdate, AddressesFinite
<1> QED
  BY <1>2, <1>6, <1>7, <1>8 DEF locked2

-----------------------------------------------------------------------------
(* What may leave an account, and what its shares are worth.               *)

(* Where no token leaves, nothing leaves above its price.                  *)
LEMMA NothingLeaves ==
  ASSUME NEW V \in {ProvisionType, DelegationPoolType}, NEW account \in V, NEW new \in V,
         account.tokens <= new.tokens, NEW expired \in Nat
  PROVE  LeavesAtPrice(account, new, expired)
<1>1. /\ account.tokens \in Nat /\ new.tokens \in Nat
      /\ account.tokensThawing \in Nat /\ account.sharesThawing \in Nat
  <2>1. CASE V = ProvisionType
    BY <2>1 DEF ProvisionType
  <2>2. CASE V = DelegationPoolType
    BY <2>2 DEF DelegationPoolType
  <2> QED BY <2>1, <2>2
<1>2. PICK a \in Nat, b \in Nat, t \in Nat, s \in Nat :
        /\ a = account.tokens /\ b = new.tokens
        /\ t = account.tokensThawing /\ s = account.sharesThawing
  BY <1>1
<1>3. (a - b) * s <= 0 /\ expired * t >= 0
  <2>1. b - a \in Nat
    BY <1>2
  <2>2. (b - a) * s >= 0 /\ (a - b) * s = 0 - (b - a) * s
    BY <2>1
  <2> QED BY <2>2
<1> QED
  BY <1>2, <1>3 DEF LeavesAtPrice

(* A pool whose tokens and shares stay as they are.                        *)
LEMMA ValueUnchanged ==
  ASSUME NEW pool \in DelegationPoolType, NEW new \in DelegationPoolType,
         TokensAvailable(new) = TokensAvailable(pool), new.shares = pool.shares,
         new.tokensThawing = pool.tokensThawing, new.sharesThawing = pool.sharesThawing
  PROVE  SharesKeepValue(pool, new)
<1>1. /\ TokensAvailable(pool) \in Int /\ pool.shares \in Int
      /\ pool.tokensThawing \in Int /\ pool.sharesThawing \in Int
  BY DEF TokensAvailable, DelegationPoolType
<1> QED
  BY <1>1 DEF SharesKeepValue

(* The expired shares of a provision, and of all lists of a pool.          *)
HeldExpired(waiting, nonce, time) ==
  SumFunctionOnSet([d \in Delegators |-> ExpiredShares(waiting[d], nonce, time)], Delegators)

LEMMA ExpiredTypes ==
  ASSUME NEW nonce, NEW time
  PROVE  /\ \A reqs \in Seq(ThawRequestType) : ExpiredShares(reqs, nonce, time) \in Nat
         /\ \A waiting \in [Delegators -> Seq(ThawRequestType)] :
              /\ HeldExpired(waiting, nonce, time) \in Nat
              /\ \A d \in Delegators :
                   ExpiredShares(waiting[d], nonce, time) <= HeldExpired(waiting, nonce, time)
<1>1. ASSUME NEW reqs \in Seq(ThawRequestType)
      PROVE  ExpiredShares(reqs, nonce, time) \in Nat
  <2>1. 0 \in 0 .. Len(reqs) /\ \A i \in 1 .. 0 : reqs[i].thawingUntil <= time
    OBVIOUS
  <2> QED BY <2>1, ExpiredPrefix
<1>2. ASSUME NEW waiting \in [Delegators -> Seq(ThawRequestType)]
      PROVE  /\ HeldExpired(waiting, nonce, time) \in Nat
             /\ \A d \in Delegators :
                  ExpiredShares(waiting[d], nonce, time) <= HeldExpired(waiting, nonce, time)
  <2> DEFINE f == [d \in Delegators |-> ExpiredShares(waiting[d], nonce, time)]
  <2>1. \A d \in Delegators : f[d] \in Nat /\ f[d] = ExpiredShares(waiting[d], nonce, time)
    BY <1>1
  <2>2. HeldExpired(waiting, nonce, time) = SumFunctionOnSet(f, Delegators)
    BY Zenon DEF HeldExpired
  <2> HIDE DEF f
  <2>3. SumFunctionOnSet(f, Delegators) \in Nat
    BY <2>1, SumType, AddressesFinite
  <2>4. \A d \in Delegators : SumFunctionOnSet(f, Delegators) >= f[d]
    BY <2>1, SumAtLeast, AddressesFinite
  <2> QED BY <2>1, <2>2, <2>3, <2>4
<1> QED
  BY <1>1, <1>2

(* deprovision: what leaves was thawed, at no more than its price.         *)
LEMMA ProvisionReleasesAtPrice ==
  ASSUME NEW prov \in ProvisionType, NEW reqs, ProvisionInv(prov, reqs), prov.created,
         NEW n \in Nat, n <= Len(reqs), NEW time \in Nat
  PROVE  LeavesAtPrice(prov, ReleaseThawed(prov, FulfillThawRequests(prov, reqs, n, time)),
                       ExpiredShares(reqs, prov.thawingNonce, time))
<1> DEFINE result == FulfillThawRequests(prov, reqs, n, time)
           new    == ReleaseThawed(prov, result)
<1>1. /\ reqs \in Seq(ThawRequestType)
      /\ SoundThawing(prov.tokensThawing, prov.sharesThawing)
      /\ ValidShares(reqs, prov.thawingNonce) <= prov.sharesThawing
  BY DEF ProvisionInv, SoundAccount, SoundThawing, ProvisionType
<1>2. result.tokensThawed * prov.sharesThawing
        <= ExpiredShares(reqs, prov.thawingNonce, time) * prov.tokensThawing
  BY <1>1, FulfillAtPrice
<1>3. /\ new.tokens = prov.tokens - result.tokensThawed
      /\ result.tokensThawed \in Nat
  BY ProvisionReleases
<1>4. prov.tokens - new.tokens = result.tokensThawed
  <2>1. prov.tokens \in Nat
    BY DEF ProvisionType
  <2> HIDE DEF new, result
  <2> QED BY <1>3, <2>1
<1> QED
  BY <1>2, <1>4 DEF LeavesAtPrice

(* withdrawDelegated: the same, and nobody else's shares lose value.       *)
LEMMA PoolReleasesAtPrice ==
  ASSUME NEW pool \in DelegationPoolType, NEW dels, NEW waiting, PoolInv(pool, dels, waiting),
         IsValidPool(pool), NEW d \in Delegators,
         NEW n \in Nat, n <= Len(waiting[d]), NEW time \in Nat
  PROVE  LET new == ReleaseThawed(pool, FulfillThawRequests(pool, waiting[d], n, time))
         IN  /\ SharesKeepValue(pool, new)
             /\ TokensAvailable(new) = TokensAvailable(pool)
             /\ new.shares = pool.shares
             /\ LeavesAtPrice(pool, new, HeldExpired(waiting, pool.thawingNonce, time))
<1> DEFINE reqs    == waiting[d]
           result  == FulfillThawRequests(pool, reqs, n, time)
           new     == ReleaseThawed(pool, result)
           expired == ExpiredShares(reqs, pool.thawingNonce, time)
           held    == HeldExpired(waiting, pool.thawingNonce, time)
<1>1. /\ waiting \in [Delegators -> Seq(ThawRequestType)] /\ reqs \in Seq(ThawRequestType)
      /\ SoundThawing(pool.tokensThawing, pool.sharesThawing)
      /\ pool.sharesThawing = HeldShares(waiting, pool.thawingNonce)
  BY DEF PoolInv, SoundAccount, SoundThawing, DelegationPoolType
<1>2. ValidShares(reqs, pool.thawingNonce) <= pool.sharesThawing
  BY <1>1, HeldSharesUpdate
<1>3. /\ expired \in Nat
      /\ pool.tokensThawing * result.sharesThawing <= result.tokensThawing * pool.sharesThawing
      /\ result.tokensThawed * pool.sharesThawing <= expired * pool.tokensThawing
  BY <1>1, <1>2, FulfillAtPrice
<1>4. /\ result.tokensThawed \in Nat
      /\ result.tokensThawed + result.tokensThawing = pool.tokensThawing
      /\ result.tokensThawing \in Nat
  BY <1>1, <1>2, FulfillSound DEF SoundThawing
<1>5. held \in Nat /\ expired <= held
  BY <1>1, ExpiredTypes
<1>6. /\ new.tokens = pool.tokens - result.tokensThawed
      /\ new.tokensThawing = result.tokensThawing
      /\ new.sharesThawing = result.sharesThawing
      /\ new.shares = pool.shares
  BY DEF ReleaseThawed, DelegationPoolType
<1>7. /\ pool.tokens \in Nat /\ pool.tokensThawing \in Nat /\ pool.shares \in Nat
      /\ pool.sharesThawing \in Nat
  BY DEF DelegationPoolType
<1> HIDE DEF result, new, expired, held
<1>8. TokensAvailable(new) = TokensAvailable(pool) /\ TokensAvailable(pool) \in Int
  BY <1>4, <1>6, <1>7 DEF TokensAvailable
<1>9. SharesKeepValue(pool, new)
  BY <1>3, <1>6, <1>7, <1>8 DEF SharesKeepValue
<1>10. LeavesAtPrice(pool, new, held)
  <2>1. pool.tokens - new.tokens = result.tokensThawed
    BY <1>4, <1>6, <1>7
  <2>2. expired * pool.tokensThawing <= held * pool.tokensThawing
    BY <1>3, <1>5, <1>7
  <2> QED BY <1>3, <1>4, <1>5, <1>7, <2>1, <2>2 DEF LeavesAtPrice
<1> QED
  BY <1>6, <1>8, <1>9, <1>10 DEF new, result, held

(* delegate: the new shares cost what the old ones are worth.              *)
LEMMA PoolDelegatesAtPrice ==
  ASSUME NEW pool \in DelegationPoolType, NEW dels, NEW waiting, PoolInv(pool, dels, waiting),
         NEW tokens \in Nat \ {0}, IsValidPool(pool)
  PROVE  SharesKeepValue(pool, AddDelegation(pool, tokens))
<1> DEFINE shares == DelegationShares(pool, tokens)
           new    == AddDelegation(pool, tokens)
           avail  == TokensAvailable(pool)
<1>1. /\ pool.tokens \in Nat /\ pool.tokensThawing \in Nat /\ pool.shares \in Nat
      /\ pool.sharesThawing \in Nat /\ pool.tokensThawing <= pool.tokens
      /\ pool.shares = 0 <=> pool.tokens = pool.tokensThawing
  BY DEF PoolInv, SoundAccount, DelegationPoolType
<1>2. avail \in Nat /\ avail = pool.tokens - pool.tokensThawing
  BY <1>1 DEF TokensAvailable
<1>3. /\ new.tokens = pool.tokens + tokens
      /\ new.shares = pool.shares + shares
      /\ new.tokensThawing = pool.tokensThawing
      /\ new.sharesThawing = pool.sharesThawing
  BY DEF AddDelegation, DelegationPoolType
<1> HIDE DEF avail, new
<1>4. TokensAvailable(new) = avail + tokens
  BY <1>1, <1>2, <1>3 DEF TokensAvailable
<1>5. shares \in Nat /\ avail * shares <= tokens * pool.shares
  <2>1. CASE pool.tokens = 0 \/ pool.tokens = pool.tokensThawing
    <3>1. shares = tokens /\ avail = 0
      BY <1>1, <1>2, <2>1 DEF DelegationShares
    <3> QED BY <1>1, <3>1
  <2>2. CASE ~(pool.tokens = 0 \/ pool.tokens = pool.tokensThawing)
    <3>1. avail \in Nat \ {0} /\ tokens * pool.shares \in Nat
      <4>1. avail # 0
        BY <1>1, <1>2, <2>2
      <4> QED BY <1>1, <1>2, <4>1
    <3>2. shares = (tokens * pool.shares) \div avail
      BY <2>2 DEF DelegationShares, avail
    <3>3. shares \in Nat /\ shares * avail <= tokens * pool.shares
      BY <3>1, <3>2, Quotient
    <3> QED BY <3>1, <3>3
  <2> QED BY <2>1, <2>2
<1> HIDE DEF shares
<1>6. avail * (pool.shares + shares) <= (avail + tokens) * pool.shares
  BY <1>1, <1>2, <1>5
<1>7. TokensAvailable(pool) = avail
  BY DEF avail
<1> HIDE DEF avail
<1>8. SharesKeepValue(pool, new)
  BY <1>1, <1>3, <1>4, <1>6, <1>7 DEF SharesKeepValue
<1> QED
  BY <1>8 DEF new

(* addToDelegationPool: the shares gain value.                             *)
LEMMA PoolGainsValue ==
  ASSUME NEW pool \in DelegationPoolType, NEW tokens \in Nat
  PROVE  SharesKeepValue(pool, [pool EXCEPT !.tokens = @ + tokens])
<1> DEFINE new == [pool EXCEPT !.tokens = @ + tokens]
<1>1. /\ pool.tokens \in Nat /\ pool.tokensThawing \in Nat /\ pool.shares \in Nat
      /\ pool.sharesThawing \in Nat
  BY DEF DelegationPoolType
<1>2. /\ new.tokens = pool.tokens + tokens
      /\ new.shares = pool.shares
      /\ new.tokensThawing = pool.tokensThawing
      /\ new.sharesThawing = pool.sharesThawing
  BY DEF DelegationPoolType
<1> HIDE DEF new
<1>3. /\ TokensAvailable(pool) \in Int
      /\ TokensAvailable(new) = TokensAvailable(pool) + tokens
  BY <1>1, <1>2 DEF TokensAvailable
<1>4. TokensAvailable(pool) * pool.shares <= (TokensAvailable(pool) + tokens) * pool.shares
  BY <1>1, <1>3
<1> QED
  BY <1>1, <1>2, <1>3, <1>4 DEF SharesKeepValue, new

(* undelegate: the tokens that start to thaw are worth no more than the    *)
(* shares given up, and the thawing shares given for them no more either.  *)
LEMMA PoolUndelegatesAtPrice ==
  ASSUME NEW pool \in DelegationPoolType, NEW dels, NEW waiting, PoolInv(pool, dels, waiting),
         NEW d \in Delegators, NEW shares \in Nat \ {0}, shares <= dels[d]
  PROVE  SharesKeepValue(pool, UndelegatedPool(pool, shares,
                           (shares * TokensAvailable(pool)) \div pool.shares))
<1> DEFINE avail  == TokensAvailable(pool)
           tokens == (shares * avail) \div pool.shares
           thawingShares == ThawingSharesRoundDown(pool, tokens)
           new    == UndelegatedPool(pool, shares, tokens)
<1>1. /\ pool.tokens \in Nat /\ pool.tokensThawing \in Nat /\ pool.shares \in Nat
      /\ pool.sharesThawing \in Nat /\ pool.tokensThawing <= pool.tokens
      /\ dels \in [Delegators -> Nat] /\ pool.shares = SumFunctionOnSet(dels, Delegators)
  BY DEF PoolInv, SoundAccount, DelegationPoolType
<1>2. shares <= pool.shares
  <2>1. dels[d] <= SumFunctionOnSet(dels, Delegators) /\ dels[d] \in Nat
    BY <1>1, DelegationsUpdate
  <2> QED BY <1>1, <2>1
<1>3. avail \in Nat /\ avail = pool.tokens - pool.tokensThawing
  BY <1>1 DEF TokensAvailable
<1>4. /\ new.tokens = pool.tokens
      /\ new.shares = pool.shares - shares
      /\ new.tokensThawing = pool.tokensThawing + tokens
      /\ new.sharesThawing = pool.sharesThawing + thawingShares
  BY DEF UndelegatedPool, StartThawing, DelegationPoolType
<1> HIDE DEF avail, new
<1>5. tokens \in Nat /\ tokens * pool.shares <= shares * avail
  <2>1. shares * avail \in Nat /\ pool.shares \in Nat \ {0}
    BY <1>1, <1>2, <1>3
  <2> QED BY <2>1, Quotient
<1> HIDE DEF tokens
<1>6. thawingShares \in Nat /\ pool.tokensThawing * thawingShares <= tokens * pool.sharesThawing
  <2>1. CASE pool.tokensThawing = 0
    BY <1>1, <1>5, <2>1 DEF ThawingSharesRoundDown
  <2>2. CASE pool.tokensThawing # 0
    <3>1. thawingShares = (tokens * pool.sharesThawing) \div pool.tokensThawing
      BY <2>2 DEF ThawingSharesRoundDown
    <3>2. tokens * pool.sharesThawing \in Nat /\ pool.tokensThawing \in Nat \ {0}
      BY <1>1, <1>5, <2>2
    <3>3. thawingShares \in Nat
          /\ thawingShares * pool.tokensThawing <= tokens * pool.sharesThawing
      BY <3>1, <3>2, Quotient
    <3> QED BY <3>2, <3>3
  <2> QED BY <2>1, <2>2
<1> HIDE DEF thawingShares
<1>7. TokensAvailable(new) = avail - tokens
  BY <1>1, <1>3, <1>4, <1>5 DEF TokensAvailable
<1>8. avail * (pool.shares - shares) <= (avail - tokens) * pool.shares
  <2>1. /\ avail * (pool.shares - shares) = avail * pool.shares - shares * avail
        /\ (avail - tokens) * pool.shares = avail * pool.shares - tokens * pool.shares
    BY <1>1, <1>3, <1>5
  <2> QED BY <1>1, <1>3, <1>5, <2>1
<1>9. pool.tokensThawing * (pool.sharesThawing + thawingShares)
        <= (pool.tokensThawing + tokens) * pool.sharesThawing
  <2>1. /\ pool.tokensThawing * (pool.sharesThawing + thawingShares)
             = pool.tokensThawing * pool.sharesThawing + pool.tokensThawing * thawingShares
        /\ (pool.tokensThawing + tokens) * pool.sharesThawing
             = pool.tokensThawing * pool.sharesThawing + tokens * pool.sharesThawing
    BY <1>1, <1>5, <1>6
  <2> QED BY <1>1, <1>5, <1>6, <2>1
<1>10. TokensAvailable(pool) = avail
  BY DEF avail
<1> HIDE DEF avail
<1>11. SharesKeepValue(pool, new)
  BY <1>4, <1>7, <1>8, <1>9, <1>10 DEF SharesKeepValue
<1> QED
  BY <1>11 DEF new, tokens, avail

-----------------------------------------------------------------------------
(* The inductive invariant.                                                *)

OtherTypes ==
  /\ legacyLocked \in [Providers -> [Delegators -> Nat]]
  /\ balance \in Nat
  /\ wallet \in Nat
  /\ operatorAuth \in [Providers -> [Verifiers -> SUBSET Operators]]
  /\ delegationFeeCut \in [Providers -> [Verifiers -> Nat]]
  /\ allowedLockedVerifiers \in SUBSET LockedVerifiers
  /\ delegationSlashingEnabled \in BOOLEAN
  /\ maxThawingPeriod \in Nat
  /\ paused \in BOOLEAN
  /\ now \in Nat

IInv ==
  /\ StakeSideInv(serviceProviders, provisions, provisionRequests)
  /\ DelegationSideInv(pools, delegations, delegationRequests)
  /\ OtherTypes
  /\ Solvent

(* The three parts of what is owed are numbers.                            *)
LEMMA OwedTypes ==
  ASSUME StakeSideInv(serviceProviders, provisions, provisionRequests),
         DelegationSideInv(pools, delegations, delegationRequests),
         legacyLocked \in [Providers -> [Delegators -> Nat]]
  PROVE  /\ TokensStaked(serviceProviders) \in Nat
         /\ TokensDelegated(pools) \in Nat
         /\ TokensLocked(legacyLocked) \in Nat
<1>1. TokensStaked(serviceProviders) \in Nat
  <2> DEFINE f == [p \in Providers |-> serviceProviders[p].tokensStaked]
  <2>1. \A p \in Providers : f[p] \in Nat
    BY DEF StakeSideInv, ServiceProviderType
  <2> HIDE DEF f
  <2>2. SumFunctionOnSet(f, Providers) \in Nat
    BY <2>1, SumType, AddressesFinite
  <2> QED BY <2>2 DEF TokensStaked, f
<1>2. TokensDelegated(pools) \in Nat
  <2> DEFINE Of(p) == [v \in Verifiers |-> pools[p][v].tokens]
             f == [p \in Providers |-> SumFunctionOnSet(Of(p), Verifiers)]
  <2>1. \A p \in Providers : \A v \in Verifiers : Of(p)[v] \in Nat
    BY DEF DelegationSideInv, DelegationPoolType
  <2>2. TokensDelegated(pools) = SumFunctionOnSet(f, Providers)
    BY Zenon DEF TokensDelegated
  <2> HIDE DEF Of
  <2>3. \A p \in Providers : SumFunctionOnSet(Of(p), Verifiers) \in Nat
    BY <2>1, SumType, AddressesFinite
  <2>4. \A p \in Providers : f[p] \in Nat
    BY <2>3
  <2> HIDE DEF f
  <2> QED BY <2>2, <2>4, SumType, AddressesFinite
<1>3. TokensLocked(legacyLocked) \in Nat
  <2> DEFINE f == [p \in Providers |-> SumFunctionOnSet(legacyLocked[p], Delegators)]
  <2>1. TokensLocked(legacyLocked) = SumFunctionOnSet(f, Providers)
    BY Zenon DEF TokensLocked
  <2>2. \A p \in Providers : \A d \in Delegators : legacyLocked[p][d] \in Nat
    OBVIOUS
  <2>3. \A p \in Providers : SumFunctionOnSet(legacyLocked[p], Delegators) \in Nat
    BY <2>2, SumType, AddressesFinite
  <2>4. \A p \in Providers : f[p] \in Nat
    BY <2>3
  <2> HIDE DEF f
  <2> QED BY <2>1, <2>4, SumType, AddressesFinite
<1> QED
  BY <1>1, <1>2, <1>3

(* A step of the stake side alone, whose tokens move with the balance.     *)
LEMMA StakeSideStep ==
  ASSUME IInv,
         StakeSideInv(serviceProviders', provisions', provisionRequests'),
         UNCHANGED <<delegationVars, legacyLocked, configVars, now>>,
         balance' \in Nat, wallet' \in Nat,
         TokensStaked(serviceProviders') + balance = TokensStaked(serviceProviders) + balance'
  PROVE  IInv'
<1>1. DelegationSideInv(pools', delegations', delegationRequests')
  BY DEF IInv, delegationVars
<1>2. OtherTypes'
  BY DEF IInv, OtherTypes, configVars
<1>3. PICK s \in Nat, g \in Nat, l \in Nat :
        /\ s = TokensStaked(serviceProviders)
        /\ g = TokensDelegated(pools)
        /\ l = TokensLocked(legacyLocked)
  BY OwedTypes DEF IInv, OtherTypes
<1>4. balance = s + g + l
  BY <1>3 DEF IInv, Solvent, TokensOwed
<1>5. TokensDelegated(pools') = g /\ TokensLocked(legacyLocked') = l
  BY <1>3 DEF delegationVars
<1>6. TokensStaked(serviceProviders') + balance = s + balance'
  BY <1>3
<1>7. TokensStaked(serviceProviders') \in Nat
  <2> DEFINE f == [p \in Providers |-> serviceProviders'[p].tokensStaked]
  <2>1. \A p \in Providers : f[p] \in Nat
    BY DEF StakeSideInv, ServiceProviderType
  <2> HIDE DEF f
  <2>2. SumFunctionOnSet(f, Providers) \in Nat
    BY <2>1, SumType, AddressesFinite
  <2> QED BY <2>2 DEF TokensStaked, f
<1>8. balance' = TokensStaked(serviceProviders') + g + l
  <2>1. balance \in Nat
    BY DEF IInv, OtherTypes
  <2> QED BY <1>4, <1>6, <1>7, <2>1
<1>9. Solvent'
  BY <1>5, <1>8 DEF Solvent, TokensOwed
<1> QED
  BY <1>1, <1>2, <1>9 DEF IInv

(* A step of the delegation side alone.                                    *)
LEMMA DelegationSideStep ==
  ASSUME IInv,
         DelegationSideInv(pools', delegations', delegationRequests'),
         UNCHANGED <<provisionVars, legacyLocked, configVars, now>>,
         balance' \in Nat, wallet' \in Nat,
         TokensDelegated(pools') + balance = TokensDelegated(pools) + balance',
         TokensDelegated(pools') \in Int
  PROVE  IInv'
<1>1. StakeSideInv(serviceProviders', provisions', provisionRequests')
  BY DEF IInv, provisionVars
<1>2. OtherTypes'
  BY DEF IInv, OtherTypes, configVars
<1>3. PICK s \in Nat, g \in Nat, l \in Nat :
        /\ s = TokensStaked(serviceProviders)
        /\ g = TokensDelegated(pools)
        /\ l = TokensLocked(legacyLocked)
  BY OwedTypes DEF IInv, OtherTypes
<1>4. balance = s + g + l
  BY <1>3 DEF IInv, Solvent, TokensOwed
<1>5. TokensStaked(serviceProviders') = s /\ TokensLocked(legacyLocked') = l
  BY <1>3 DEF provisionVars
<1>6. TokensDelegated(pools') + balance = g + balance'
  BY <1>3
<1>7. balance' = s + TokensDelegated(pools') + l
  <2>1. balance \in Nat
    BY DEF IInv, OtherTypes
  <2> QED BY <1>4, <1>6, <2>1
<1>8. Solvent'
  BY <1>5, <1>7 DEF Solvent, TokensOwed
<1> QED
  BY <1>1, <1>2, <1>8 DEF IInv
-----------------------------------------------------------------------------
(* The invariant is kept: calls on the stake side.                         *)

(* What the invariant says of one provider and of one of its provisions.   *)
LEMMA StakeFacts ==
  ASSUME IInv, NEW p \in Providers
  PROVE  /\ serviceProviders \in [Providers -> ServiceProviderType]
         /\ serviceProviders[p] \in ServiceProviderType
         /\ serviceProviders[p].tokensStaked \in Nat
         /\ serviceProviders[p].tokensProvisioned \in Nat
         /\ serviceProviders[p].tokensLocked \in Nat
         /\ serviceProviders[p].tokensProvisioned + serviceProviders[p].tokensLocked
              <= serviceProviders[p].tokensStaked
         /\ balance \in Nat /\ wallet \in Nat /\ now \in Nat
<1>1. serviceProviders[p] \in ServiceProviderType
  BY DEF IInv, StakeSideInv
<1> QED
  BY <1>1 DEF IInv, StakeSideInv, StakeInv, OtherTypes, ServiceProviderType

(* What it says of one of the provider's provisions.                       *)
LEMMA ProvisionFacts ==
  ASSUME IInv, NEW p \in Providers, NEW v \in Verifiers
  PROVE  /\ provisions[p][v] \in ProvisionType
         /\ provisionRequests[p][v] \in Seq(ThawRequestType)
         /\ ProvisionInv(provisions[p][v], provisionRequests[p][v])
         /\ provisions[p][v].tokens \in Nat
         /\ provisions[p][v].tokens <= serviceProviders[p].tokensProvisioned
<1> DEFINE f == [w \in Verifiers |-> provisions[p][w].tokens]
<1>1. /\ provisions[p][v] \in ProvisionType
      /\ provisionRequests[p][v] \in Seq(ThawRequestType)
      /\ ProvisionInv(provisions[p][v], provisionRequests[p][v])
      /\ StakeInv(serviceProviders[p], provisions[p])
  BY DEF IInv, StakeSideInv
<1>2. \A w \in Verifiers : f[w] \in Nat
  BY DEF IInv, StakeSideInv, ProvisionType
<1>3. f[v] = provisions[p][v].tokens
  OBVIOUS
<1>4. serviceProviders[p].tokensProvisioned = SumFunctionOnSet(f, Verifiers)
  BY <1>1 DEF StakeInv, ProvisionTokens
<1> HIDE DEF f
<1>5. SumFunctionOnSet(f, Verifiers) >= f[v] /\ SumFunctionOnSet(f, Verifiers) \in Nat
  BY <1>2, SumAtLeast, SumType, AddressesFinite
<1> QED
  BY <1>1, <1>2, <1>3, <1>4, <1>5

(* Idle stake is what is neither provisioned nor locked.                   *)
LEMMA IdleStakeBound ==
  ASSUME NEW sp \in ServiceProviderType, NEW tokens \in Nat \ {0}, tokens <= IdleStake(sp)
  PROVE  sp.tokensProvisioned + sp.tokensLocked + tokens <= sp.tokensStaked
<1>1. sp.tokensStaked \in Nat /\ sp.tokensProvisioned \in Nat /\ sp.tokensLocked \in Nat
  BY DEF ServiceProviderType
<1> QED
  BY <1>1 DEF IdleStake

(* The stake of a provider changes by what enters or leaves the contract.  *)
LEMMA StakedChange ==
  ASSUME IInv, NEW p \in Providers, NEW sp \in ServiceProviderType,
         serviceProviders' = [serviceProviders EXCEPT ![p] = sp],
         StakeSideInv(serviceProviders', provisions', provisionRequests'),
         UNCHANGED <<delegationVars, legacyLocked, configVars, now>>,
         balance' \in Nat, wallet' \in Nat,
         sp.tokensStaked + balance = serviceProviders[p].tokensStaked + balance'
  PROVE  IInv'
<1>1. /\ TokensStaked(serviceProviders) \in Nat
      /\ TokensStaked(serviceProviders')
           = TokensStaked(serviceProviders) + sp.tokensStaked - serviceProviders[p].tokensStaked
  BY StakeFacts, StakedUpdate
<1>2. sp.tokensStaked \in Nat /\ serviceProviders[p].tokensStaked \in Nat /\ balance \in Nat
  BY StakeFacts DEF ServiceProviderType
<1>3. TokensStaked(serviceProviders') + balance = TokensStaked(serviceProviders) + balance'
  BY <1>1, <1>2
<1> QED
  BY <1>3, StakeSideStep

(* stake, stakeTo.                                                         *)
LEMMA StakePreserves ==
  ASSUME IInv, NEW p \in Providers, NEW tokens \in Nat, Stake(p, tokens)
  PROVE  IInv'
<1> DEFINE sp == [serviceProviders[p] EXCEPT !.tokensStaked = @ + tokens]
<1>1. /\ sp \in ServiceProviderType
      /\ sp.tokensStaked = serviceProviders[p].tokensStaked + tokens
      /\ sp.tokensProvisioned = serviceProviders[p].tokensProvisioned
      /\ sp.tokensLocked = serviceProviders[p].tokensLocked
  BY StakeFacts DEF ServiceProviderType
<1>2. /\ serviceProviders' = [serviceProviders EXCEPT ![p] = sp]
      /\ provisions' = provisions /\ provisionRequests' = provisionRequests
      /\ UNCHANGED <<delegationVars, legacyLocked, configVars, now>>
      /\ balance' = balance + tokens /\ wallet' = wallet - tokens /\ tokens <= wallet
  BY DEF Stake, PullTokens
<1> HIDE DEF sp
<1>3. sp.tokensProvisioned + sp.tokensLocked <= sp.tokensStaked
  BY <1>1, StakeFacts
<1>4. StakeSideInv(serviceProviders', provisions', provisionRequests')
  BY <1>1, <1>2, <1>3, UpdateStake DEF IInv
<1>5. /\ balance' \in Nat /\ wallet' \in Nat
      /\ sp.tokensStaked + balance = serviceProviders[p].tokensStaked + balance'
  BY <1>1, <1>2, StakeFacts
<1> QED
  BY <1>1, <1>2, <1>4, <1>5, StakedChange

(* unstake: only idle stake leaves.                                        *)
LEMMA UnstakePreserves ==
  ASSUME IInv, NEW p \in Providers, NEW tokens \in Nat, Unstake(p, tokens)
  PROVE  IInv'
<1> DEFINE sp == [serviceProviders[p] EXCEPT !.tokensStaked = @ - tokens]
<1>1. /\ serviceProviders' = [serviceProviders EXCEPT ![p] = sp]
      /\ provisions' = provisions /\ provisionRequests' = provisionRequests
      /\ UNCHANGED <<delegationVars, legacyLocked, configVars, now>>
      /\ balance' = balance - tokens /\ wallet' = wallet + tokens /\ tokens <= balance
      /\ tokens # 0 /\ tokens <= IdleStake(serviceProviders[p])
  BY DEF Unstake, PushTokens
<1>2. serviceProviders[p].tokensProvisioned + serviceProviders[p].tokensLocked + tokens
        <= serviceProviders[p].tokensStaked
  BY <1>1, StakeFacts, IdleStakeBound
<1>3. serviceProviders[p].tokensStaked - tokens \in Nat
  BY <1>2, StakeFacts
<1>4. /\ sp \in ServiceProviderType
      /\ sp.tokensStaked = serviceProviders[p].tokensStaked - tokens
      /\ sp.tokensProvisioned = serviceProviders[p].tokensProvisioned
      /\ sp.tokensLocked = serviceProviders[p].tokensLocked
  BY <1>3, StakeFacts DEF ServiceProviderType
<1> HIDE DEF sp
<1>5. sp.tokensProvisioned + sp.tokensLocked <= sp.tokensStaked
  BY <1>2, <1>4, StakeFacts
<1>6. StakeSideInv(serviceProviders', provisions', provisionRequests')
  BY <1>1, <1>4, <1>5, UpdateStake DEF IInv
<1>7. /\ balance' \in Nat /\ wallet' \in Nat
      /\ sp.tokensStaked + balance = serviceProviders[p].tokensStaked + balance'
  BY <1>1, <1>4, StakeFacts
<1> QED
  BY <1>1, <1>4, <1>6, <1>7, StakedChange

(* withdraw: only locked stake leaves.                                     *)
LEMMA WithdrawPreserves ==
  ASSUME IInv, NEW p \in Providers, Withdraw(p)
  PROVE  IInv'
<1> DEFINE tokens == serviceProviders[p].tokensLocked
           sp == [serviceProviders[p] EXCEPT !.tokensLocked = 0, !.tokensStaked = @ - tokens]
<1>1. /\ serviceProviders' = [serviceProviders EXCEPT ![p] = sp]
      /\ provisions' = provisions /\ provisionRequests' = provisionRequests
      /\ UNCHANGED <<delegationVars, legacyLocked, configVars, now>>
      /\ balance' = balance - tokens /\ wallet' = wallet + tokens /\ tokens <= balance
  BY StakeFacts DEF Withdraw, PushTokens, ServiceProviderType
<1>2. serviceProviders[p].tokensStaked - tokens \in Nat /\ tokens \in Nat
  BY StakeFacts
<1>3. /\ sp \in ServiceProviderType
      /\ sp.tokensStaked = serviceProviders[p].tokensStaked - tokens
      /\ sp.tokensProvisioned = serviceProviders[p].tokensProvisioned
      /\ sp.tokensLocked = 0
  BY <1>2, StakeFacts DEF ServiceProviderType
<1> HIDE DEF sp
<1>4. sp.tokensProvisioned + sp.tokensLocked <= sp.tokensStaked
  BY <1>3, StakeFacts
<1>5. StakeSideInv(serviceProviders', provisions', provisionRequests')
  BY <1>1, <1>3, <1>4, UpdateStake DEF IInv
<1>6. /\ balance' \in Nat /\ wallet' \in Nat
      /\ sp.tokensStaked + balance = serviceProviders[p].tokensStaked + balance'
  BY <1>1, <1>2, <1>3, StakeFacts
<1> QED
  BY <1>1, <1>3, <1>5, <1>6, StakedChange
(* Nothing changes.                                                        *)
LEMMA KeepTwice ==
  ASSUME NEW A, NEW B, NEW C, NEW f \in [A -> [B -> C]], NEW a \in A, NEW b \in B
  PROVE  [f EXCEPT ![a][b] = f[a][b]] = f
OBVIOUS

(* A call that changes one provision.                                      *)
LEMMA ProvisionChange ==
  ASSUME IInv, NEW p \in Providers, NEW v \in Verifiers,
         NEW sp \in ServiceProviderType, NEW prov, NEW list, ProvisionInv(prov, list),
         serviceProviders' = [serviceProviders EXCEPT ![p] = sp],
         provisions' = [provisions EXCEPT ![p][v] = prov],
         provisionRequests' = [provisionRequests EXCEPT ![p][v] = list],
         UNCHANGED <<delegationVars, legacyLocked, configVars, now>>,
         balance' \in Nat, wallet' \in Nat,
         sp.tokensStaked + balance = serviceProviders[p].tokensStaked + balance',
         sp.tokensProvisioned + provisions[p][v].tokens
           = serviceProviders[p].tokensProvisioned + prov.tokens,
         sp.tokensProvisioned + sp.tokensLocked <= sp.tokensStaked
  PROVE  IInv'
<1>1. StakeSideInv(serviceProviders, provisions, provisionRequests)
  BY DEF IInv
<1>2. StakeSideInv(serviceProviders', provisions', provisionRequests')
  BY <1>1, UpdateProvision
<1> QED
  BY <1>2, StakedChange

(* The provider's record or the list may stay as they are.                 *)
LEMMA Unchanged ==
  ASSUME IInv, NEW p \in Providers, NEW v \in Verifiers
  PROVE  /\ [serviceProviders EXCEPT ![p] = serviceProviders[p]] = serviceProviders
         /\ [provisionRequests EXCEPT ![p][v] = provisionRequests[p][v]] = provisionRequests
         /\ [provisions EXCEPT ![p][v] = provisions[p][v]] = provisions
         /\ [delegations EXCEPT ![p][v] = delegations[p][v]] = delegations
         /\ [delegationRequests EXCEPT ![p][v] = delegationRequests[p][v]] = delegationRequests
         /\ [pools EXCEPT ![p][v] = pools[p][v]] = pools
<1>1. [serviceProviders EXCEPT ![p] = serviceProviders[p]] = serviceProviders
  BY DEF IInv, StakeSideInv
<1>2. /\ [provisionRequests EXCEPT ![p][v] = provisionRequests[p][v]] = provisionRequests
      /\ [provisions EXCEPT ![p][v] = provisions[p][v]] = provisions
  BY KeepTwice DEF IInv, StakeSideInv
<1>3. /\ [delegations EXCEPT ![p][v] = delegations[p][v]] = delegations
      /\ [delegationRequests EXCEPT ![p][v] = delegationRequests[p][v]] = delegationRequests
      /\ [pools EXCEPT ![p][v] = pools[p][v]] = pools
  BY KeepTwice DEF IInv, DelegationSideInv
<1> QED
  BY <1>1, <1>2, <1>3

(* provision and provisionLocked, after their checks of the caller.        *)
LEMMA CreateProvisionPreserves ==
  ASSUME IInv, NEW p \in Providers, NEW v \in Verifiers, NEW tokens \in Nat,
         NEW cut \in Nat, NEW period \in Nat, CreateProvision(p, v, tokens, cut, period)
  PROVE  IInv'
<1> DEFINE sp   == [serviceProviders[p] EXCEPT !.tokensProvisioned = @ + tokens]
           prov == NewProvision(tokens, cut, period)
           list == provisionRequests[p][v]
<1>1. /\ serviceProviders' = [serviceProviders EXCEPT ![p] = sp]
      /\ provisions' = [provisions EXCEPT ![p][v] = prov]
      /\ provisionRequests' = provisionRequests
      /\ UNCHANGED <<delegationVars, legacyLocked, configVars, now>>
      /\ balance' = balance /\ wallet' = wallet
      /\ tokens > 0 /\ ~provisions[p][v].created
      /\ tokens <= IdleStake(serviceProviders[p])
  BY DEF CreateProvision, tokenVars
<1>2. provisionRequests' = [provisionRequests EXCEPT ![p][v] = list]
  BY <1>1, Unchanged
<1>3. serviceProviders[p].tokensProvisioned + serviceProviders[p].tokensLocked + tokens
        <= serviceProviders[p].tokensStaked
  BY <1>1, StakeFacts, IdleStakeBound
<1>4. serviceProviders[p].tokensProvisioned + tokens \in Nat
  BY StakeFacts
<1>5. /\ sp \in ServiceProviderType
      /\ sp.tokensStaked = serviceProviders[p].tokensStaked
      /\ sp.tokensProvisioned = serviceProviders[p].tokensProvisioned + tokens
      /\ sp.tokensLocked = serviceProviders[p].tokensLocked
  BY <1>4, StakeFacts DEF ServiceProviderType
<1>6. ProvisionInv(prov, list) /\ prov.tokens = tokens
  BY <1>1, ProvisionFacts, ProvisionNew DEF NewProvision
<1>7. provisions[p][v].tokens = 0
  BY <1>1, ProvisionFacts DEF ProvisionInv
<1> HIDE DEF sp, prov, list
<1>8. /\ sp.tokensProvisioned + sp.tokensLocked <= sp.tokensStaked
      /\ sp.tokensProvisioned + provisions[p][v].tokens
           = serviceProviders[p].tokensProvisioned + prov.tokens
      /\ balance' \in Nat /\ wallet' \in Nat
      /\ sp.tokensStaked + balance = serviceProviders[p].tokensStaked + balance'
  BY <1>1, <1>3, <1>5, <1>6, <1>7, StakeFacts
<1> QED
  BY <1>1, <1>2, <1>5, <1>6, <1>8, ProvisionChange

(* Stake, idle or new, is added to a provision.                            *)
LEMMA AddedPreserves ==
  ASSUME IInv, NEW p \in Providers, NEW v \in Verifiers,
         NEW tokens \in Nat \ {0}, NEW staked \in Nat,
         provisions[p][v].created,
         NEW sp \in ServiceProviderType,
         sp.tokensStaked = serviceProviders[p].tokensStaked + staked,
         sp.tokensProvisioned = serviceProviders[p].tokensProvisioned + tokens,
         sp.tokensProvisioned + sp.tokensLocked <= sp.tokensStaked,
         provisions' = [provisions EXCEPT ![p][v].tokens = @ + tokens],
         serviceProviders' = [serviceProviders EXCEPT ![p] = sp],
         provisionRequests' = provisionRequests,
         UNCHANGED <<delegationVars, legacyLocked, configVars, now>>,
         balance' = balance + staked, wallet' \in Nat
  PROVE  IInv'
<1> DEFINE prov == [provisions[p][v] EXCEPT !.tokens = @ + tokens]
           list == provisionRequests[p][v]
<1>1. provisions' = [provisions EXCEPT ![p][v] = prov]
  OBVIOUS
<1>2. provisionRequests' = [provisionRequests EXCEPT ![p][v] = list]
  BY Unchanged
<1>3. ProvisionInv(prov, list)
  BY ProvisionFacts, ProvisionGains
<1>4. prov.tokens = provisions[p][v].tokens + tokens
  BY ProvisionFacts DEF ProvisionType
<1> HIDE DEF prov, list
<1>5. sp.tokensProvisioned + provisions[p][v].tokens
        = serviceProviders[p].tokensProvisioned + prov.tokens
  <2>1. provisions[p][v].tokens \in Nat /\ serviceProviders[p].tokensProvisioned \in Nat
    BY StakeFacts, ProvisionFacts
  <2> QED BY <1>4, <2>1
<1>6. /\ balance' \in Nat
      /\ sp.tokensStaked + balance = serviceProviders[p].tokensStaked + balance'
  BY StakeFacts
<1> QED
  BY <1>1, <1>2, <1>3, <1>5, <1>6, ProvisionChange

(* addToProvision.                                                         *)
LEMMA AddToProvisionPreserves ==
  ASSUME IInv, NEW caller, NEW p \in Providers, NEW v \in Verifiers, NEW tokens \in Nat,
         AddToProvision(caller, p, v, tokens)
  PROVE  IInv'
<1> DEFINE sp == [serviceProviders[p] EXCEPT !.tokensProvisioned = @ + tokens]
<1>1. /\ serviceProviders' = [serviceProviders EXCEPT ![p] = sp]
      /\ provisions' = [provisions EXCEPT ![p][v].tokens = @ + tokens]
      /\ provisionRequests' = provisionRequests
      /\ UNCHANGED <<delegationVars, legacyLocked, configVars, now>>
      /\ balance' = balance /\ wallet' = wallet
      /\ tokens # 0 /\ provisions[p][v].created
      /\ tokens <= IdleStake(serviceProviders[p])
  BY DEF AddToProvision, tokenVars
<1>2. serviceProviders[p].tokensProvisioned + serviceProviders[p].tokensLocked + tokens
        <= serviceProviders[p].tokensStaked
  BY <1>1, StakeFacts, IdleStakeBound
<1>3. serviceProviders[p].tokensProvisioned + tokens \in Nat
  BY StakeFacts
<1>4. /\ sp \in ServiceProviderType
      /\ sp.tokensStaked = serviceProviders[p].tokensStaked
      /\ sp.tokensProvisioned = serviceProviders[p].tokensProvisioned + tokens
      /\ sp.tokensLocked = serviceProviders[p].tokensLocked
  BY <1>3, StakeFacts DEF ServiceProviderType
<1> HIDE DEF sp
<1>5. /\ sp.tokensStaked = serviceProviders[p].tokensStaked + 0
      /\ sp.tokensProvisioned + sp.tokensLocked <= sp.tokensStaked
      /\ balance' = balance + 0 /\ wallet' \in Nat
  BY <1>1, <1>2, <1>4, StakeFacts
<1> QED
  BY <1>1, <1>4, <1>5, AddedPreserves

(* stakeToProvision.                                                       *)
LEMMA StakeToProvisionPreserves ==
  ASSUME IInv, NEW caller, NEW p \in Providers, NEW v \in Verifiers, NEW tokens \in Nat,
         StakeToProvision(caller, p, v, tokens)
  PROVE  IInv'
<1> DEFINE staked == [serviceProviders[p] EXCEPT !.tokensStaked = @ + tokens]
           sp     == [serviceProviders[p] EXCEPT !.tokensStaked = @ + tokens,
                                                 !.tokensProvisioned = @ + tokens]
<1>1. /\ provisions' = [provisions EXCEPT ![p][v].tokens = @ + tokens]
      /\ provisionRequests' = provisionRequests
      /\ UNCHANGED <<delegationVars, legacyLocked, configVars, now>>
      /\ balance' = balance + tokens /\ wallet' = wallet - tokens /\ tokens <= wallet
      /\ tokens # 0 /\ provisions[p][v].created
      /\ tokens <= IdleStake(staked)
  BY DEF StakeToProvision, PullTokens
<1>2. serviceProviders' = [serviceProviders EXCEPT ![p] = sp]
  BY StakeFacts DEF StakeToProvision, ServiceProviderType
<1>3. /\ serviceProviders[p].tokensStaked + tokens \in Nat
      /\ serviceProviders[p].tokensProvisioned + tokens \in Nat
  BY StakeFacts
<1>4. /\ staked \in ServiceProviderType
      /\ staked.tokensStaked = serviceProviders[p].tokensStaked + tokens
      /\ staked.tokensProvisioned = serviceProviders[p].tokensProvisioned
      /\ staked.tokensLocked = serviceProviders[p].tokensLocked
  BY <1>3, StakeFacts DEF ServiceProviderType
<1>5. /\ sp \in ServiceProviderType
      /\ sp.tokensStaked = serviceProviders[p].tokensStaked + tokens
      /\ sp.tokensProvisioned = serviceProviders[p].tokensProvisioned + tokens
      /\ sp.tokensLocked = serviceProviders[p].tokensLocked
  BY <1>3, StakeFacts DEF ServiceProviderType
<1> HIDE DEF staked, sp
<1>6. serviceProviders[p].tokensProvisioned + serviceProviders[p].tokensLocked + tokens
        <= serviceProviders[p].tokensStaked + tokens
  BY <1>1, <1>4, IdleStakeBound
<1>7. /\ sp.tokensProvisioned + sp.tokensLocked <= sp.tokensStaked
      /\ wallet' \in Nat
  BY <1>1, <1>5, <1>6, StakeFacts
<1> QED
  BY <1>1, <1>2, <1>5, <1>7, AddedPreserves
(* thaw.                                                                   *)
LEMMA ThawPreserves ==
  ASSUME IInv, NEW caller, NEW p \in Providers, NEW v \in Verifiers, NEW tokens \in Nat,
         Thaw(caller, p, v, tokens)
  PROVE  IInv'
<1> DEFINE sp     == serviceProviders[p]
           shares == ThawingSharesRoundUp(provisions[p][v], tokens)
           prov   == StartThawing(provisions[p][v], tokens, shares)
           list   == Append(provisionRequests[p][v],
                            NewThawRequest(provisions[p][v], shares, ThawingUntil(p, v)))
<1>1. /\ serviceProviders' = serviceProviders
      /\ provisions' = [provisions EXCEPT ![p][v] = prov]
      /\ provisionRequests' = [provisionRequests EXCEPT ![p][v] = list]
      /\ UNCHANGED <<delegationVars, legacyLocked, configVars, now>>
      /\ balance' = balance /\ wallet' = wallet
      /\ tokens # 0 /\ tokens <= TokensAvailable(provisions[p][v])
  BY DEF Thaw, tokenVars
<1>2. ThawingUntil(p, v) \in Nat
  <2>1. now \in Nat /\ provisions[p][v].thawingPeriod \in Nat
    BY StakeFacts, ProvisionFacts DEF ProvisionType
  <2> QED BY <2>1, ParametersPositive DEF ThawingUntil
<1>3. ProvisionInv(prov, list)
  BY <1>1, <1>2, ProvisionFacts, ProvisionThaws
<1>4. prov.tokens = provisions[p][v].tokens
  BY ProvisionFacts DEF StartThawing, ProvisionType
<1> HIDE DEF prov, list
<1>5. serviceProviders' = [serviceProviders EXCEPT ![p] = sp]
  BY <1>1, Unchanged
<1> QED
  BY <1>1, <1>3, <1>4, <1>5, StakeFacts, ProvisionChange

(* deprovision.                                                            *)
LEMMA DeprovisionPreserves ==
  ASSUME IInv, NEW caller, NEW p \in Providers, NEW v \in Verifiers, NEW n \in Nat,
         Deprovision(caller, p, v, n)
  PROVE  IInv'
<1> DEFINE reqs   == provisionRequests[p][v]
           result == FulfillThawRequests(provisions[p][v], reqs, n, now)
           sp     == [serviceProviders[p] EXCEPT !.tokensProvisioned = @ - result.tokensThawed]
           prov   == ReleaseThawed(provisions[p][v], result)
           list   == RemainingRequests(reqs, n, now)
<1>1. /\ serviceProviders' = [serviceProviders EXCEPT ![p] = sp]
      /\ provisions' = [provisions EXCEPT ![p][v] = prov]
      /\ provisionRequests' = [provisionRequests EXCEPT ![p][v] = list]
      /\ UNCHANGED <<delegationVars, legacyLocked, configVars, now>>
      /\ balance' = balance /\ wallet' = wallet
      /\ reqs # <<>> /\ n <= Len(reqs)
  BY DEF Deprovision, tokenVars, CanFulfillThawRequests
<1>2. provisions[p][v].created
  BY <1>1, ProvisionFacts DEF ProvisionInv
<1>3. /\ ProvisionInv(prov, list)
      /\ result.tokensThawed \in Nat
      /\ result.tokensThawed <= provisions[p][v].tokens
      /\ prov.tokens = provisions[p][v].tokens - result.tokensThawed
  BY <1>1, <1>2, StakeFacts, ProvisionFacts, ProvisionReleases
<1> HIDE DEF prov, list, result
<1>4. serviceProviders[p].tokensProvisioned - result.tokensThawed \in Nat
  BY <1>3, StakeFacts, ProvisionFacts
<1>5. /\ sp \in ServiceProviderType
      /\ sp.tokensStaked = serviceProviders[p].tokensStaked
      /\ sp.tokensProvisioned = serviceProviders[p].tokensProvisioned - result.tokensThawed
      /\ sp.tokensLocked = serviceProviders[p].tokensLocked
  BY <1>4, StakeFacts DEF ServiceProviderType
<1> HIDE DEF sp
<1>6. /\ sp.tokensProvisioned + sp.tokensLocked <= sp.tokensStaked
      /\ balance' \in Nat /\ wallet' \in Nat
      /\ sp.tokensStaked + balance = serviceProviders[p].tokensStaked + balance'
  BY <1>1, <1>3, <1>5, StakeFacts
<1>7. sp.tokensProvisioned + provisions[p][v].tokens
        = serviceProviders[p].tokensProvisioned + prov.tokens
  <2>1. provisions[p][v].tokens \in Nat /\ serviceProviders[p].tokensProvisioned \in Nat
    BY StakeFacts, ProvisionFacts
  <2> QED BY <1>3, <1>5, <2>1
<1> QED
  BY <1>1, <1>3, <1>5, <1>6, <1>7, ProvisionChange

(* Two provisions change: deprovision, then addToProvision.                *)
LEMMA ReprovisionPreserves ==
  ASSUME IInv, NEW caller, NEW p \in Providers, NEW old \in Verifiers, NEW new \in Verifiers,
         NEW n \in Nat, Reprovision(caller, p, old, new, n)
  PROVE  IInv'
<1> DEFINE reqs   == provisionRequests[p][old]
           result == FulfillThawRequests(provisions[p][old], reqs, n, now)
           tokens == result.tokensThawed
           freed  == [serviceProviders[p] EXCEPT !.tokensProvisioned = @ - tokens]
           prov   == ReleaseThawed(provisions[p][old], result)
           list   == RemainingRequests(reqs, n, now)
           sps2   == [serviceProviders EXCEPT ![p] = freed]
           provs2 == [provisions EXCEPT ![p][old] = prov]
           reqs2  == [provisionRequests EXCEPT ![p][old] = list]
           prov2  == [provs2[p][new] EXCEPT !.tokens = @ + tokens]
<1>1. /\ serviceProviders' = serviceProviders
      /\ provisions' = [provs2 EXCEPT ![p][new] = prov2]
      /\ provisionRequests' = reqs2
      /\ UNCHANGED <<delegationVars, legacyLocked, configVars, now>>
      /\ balance' = balance /\ wallet' = wallet
      /\ reqs # <<>> /\ n <= Len(reqs)
      /\ tokens # 0
      /\ provisions[p][new].created
      /\ tokens <= IdleStake(freed)
  <2>1. provisions' = [provs2 EXCEPT ![p][new].tokens = @ + tokens]
    BY DEF Reprovision
  <2>2. [provs2 EXCEPT ![p][new].tokens = @ + tokens] = [provs2 EXCEPT ![p][new] = prov2]
    <3> HIDE DEF provs2, tokens
    <3> QED OBVIOUS
  <2> QED BY <2>1, <2>2 DEF Reprovision, tokenVars, CanFulfillThawRequests
<1>2. provisions[p][old].created
  BY <1>1, ProvisionFacts DEF ProvisionInv
<1>3. /\ ProvisionInv(prov, list)
      /\ tokens \in Nat
      /\ tokens <= provisions[p][old].tokens
      /\ prov.tokens = provisions[p][old].tokens - tokens
  BY <1>1, <1>2, StakeFacts, ProvisionFacts, ProvisionReleases
<1>4. prov.created
  BY <1>2, ProvisionFacts DEF ReleaseThawed, ProvisionType
<1> HIDE DEF prov, list, tokens
<1>5. serviceProviders[p].tokensProvisioned - tokens \in Nat
  BY <1>3, StakeFacts, ProvisionFacts
<1>6. /\ freed \in ServiceProviderType
      /\ freed.tokensStaked = serviceProviders[p].tokensStaked
      /\ freed.tokensProvisioned = serviceProviders[p].tokensProvisioned - tokens
      /\ freed.tokensLocked = serviceProviders[p].tokensLocked
  BY <1>5, StakeFacts DEF ServiceProviderType
<1>7. sps2[p] = freed /\ serviceProviders = [sps2 EXCEPT ![p] = serviceProviders[p]]
  BY StakeFacts
<1> HIDE DEF freed
<1>8. StakeSideInv(sps2, provs2, reqs2)
  <2>1. freed.tokensProvisioned + freed.tokensLocked <= freed.tokensStaked
    BY <1>3, <1>6, StakeFacts
  <2>2. freed.tokensProvisioned + provisions[p][old].tokens
          = serviceProviders[p].tokensProvisioned + prov.tokens
    <3>1. /\ provisions[p][old].tokens \in Nat
          /\ serviceProviders[p].tokensProvisioned \in Nat
      BY StakeFacts, ProvisionFacts
    <3> QED BY <1>3, <1>6, <3>1
  <2>3. StakeSideInv(serviceProviders, provisions, provisionRequests)
    BY DEF IInv
  <2> QED BY <1>3, <1>6, <2>1, <2>2, <2>3, UpdateProvision
<1>9. /\ provs2[p][new] \in ProvisionType
      /\ ProvisionInv(provs2[p][new], reqs2[p][new])
      /\ reqs2 = [reqs2 EXCEPT ![p][new] = reqs2[p][new]]
  <2> HIDE DEF provs2, reqs2, sps2
  <2>1. /\ provs2 \in [Providers -> [Verifiers -> ProvisionType]]
        /\ reqs2 \in [Providers -> [Verifiers -> Seq(ThawRequestType)]]
        /\ ProvisionInv(provs2[p][new], reqs2[p][new])
    BY <1>8 DEF StakeSideInv
  <2> QED BY <2>1, KeepTwice
<1>10. provs2[p][new].created
  <2>1. provisions \in [Providers -> [Verifiers -> ProvisionType]]
    BY DEF IInv, StakeSideInv
  <2> QED BY <1>1, <1>4, <2>1
<1> HIDE DEF sps2, provs2, reqs2
<1>11. /\ ProvisionInv(prov2, reqs2[p][new])
       /\ prov2.tokens = provs2[p][new].tokens + tokens
       /\ provs2[p][new].tokens \in Nat
  BY <1>3, <1>9, <1>10, ProvisionGains DEF ProvisionType
<1> HIDE DEF prov2
<1>12. /\ serviceProviders[p].tokensProvisioned + provs2[p][new].tokens
            = sps2[p].tokensProvisioned + prov2.tokens
       /\ serviceProviders[p] \in ServiceProviderType
       /\ serviceProviders[p].tokensProvisioned + serviceProviders[p].tokensLocked
            <= serviceProviders[p].tokensStaked
  <2>1. serviceProviders[p].tokensProvisioned \in Nat
    BY StakeFacts
  <2> QED BY <1>3, <1>6, <1>7, <1>11, <2>1, StakeFacts
<1>13. StakeSideInv([sps2 EXCEPT ![p] = serviceProviders[p]],
                    [provs2 EXCEPT ![p][new] = prov2],
                    [reqs2 EXCEPT ![p][new] = reqs2[p][new]])
  BY <1>8, <1>11, <1>12, UpdateProvision
<1>14. StakeSideInv(serviceProviders', provisions', provisionRequests')
  BY <1>1, <1>7, <1>9, <1>13
<1>15. serviceProviders' = [serviceProviders EXCEPT ![p] = serviceProviders[p]]
  BY <1>1, StakeFacts
<1> QED
  BY <1>1, <1>14, <1>15, StakeFacts, StakedChange
(* setProvisionParameters and acceptProvisionParameters.                   *)
LEMMA ParametersPreserve ==
  ASSUME IInv, NEW caller, NEW p \in Providers, NEW v \in Verifiers, NEW cut \in Nat,
         NEW period \in Nat,
         \/ SetProvisionParameters(caller, p, v, cut, period)
         \/ AcceptProvisionParameters(p, v)
  PROVE  IInv'
<1> DEFINE old      == provisions[p][v]
           staged   == [old EXCEPT !.maxVerifierCutPending = cut,
                                   !.thawingPeriodPending = period]
           accepted == [old EXCEPT !.maxVerifierCut = old.maxVerifierCutPending,
                                   !.thawingPeriod = old.thawingPeriodPending]
           list     == provisionRequests[p][v]
<1>1. /\ serviceProviders' = serviceProviders
      /\ provisionRequests' = provisionRequests
      /\ UNCHANGED <<delegationVars, legacyLocked, configVars, now>>
      /\ balance' = balance /\ wallet' = wallet
      /\ old.created
  BY DEF SetProvisionParameters, AcceptProvisionParameters, tokenVars
<1>2. PICK prov \in {staged, accepted} : provisions' = [provisions EXCEPT ![p][v] = prov]
  <2>1. CASE SetProvisionParameters(caller, p, v, cut, period)
    <3>1. provisions' = [provisions EXCEPT ![p][v] = staged]
      BY <2>1, ProvisionFacts DEF SetProvisionParameters
    <3> QED BY <3>1
  <2>2. CASE AcceptProvisionParameters(p, v)
    <3>1. provisions' = [provisions EXCEPT ![p][v] = accepted]
      BY <2>2, ProvisionFacts DEF AcceptProvisionParameters
    <3> QED BY <3>1
  <2> QED BY <2>1, <2>2
<1>3. /\ ProvisionInv(prov, list)
      /\ prov.tokens = old.tokens
  <2>1. old \in ProvisionType /\ ProvisionInv(old, list)
        /\ old.maxVerifierCutPending \in Nat /\ old.thawingPeriodPending \in Nat
    BY ProvisionFacts DEF ProvisionType
  <2>2. ProvisionInv(staged, list) /\ ProvisionInv(accepted, list)
    BY <1>1, <2>1, ProvisionParameters
  <2>3. staged.tokens = old.tokens /\ accepted.tokens = old.tokens
    BY <2>1 DEF ProvisionType
  <2> QED BY <2>2, <2>3
<1> HIDE DEF list
<1>4. /\ serviceProviders' = [serviceProviders EXCEPT ![p] = serviceProviders[p]]
      /\ provisionRequests' = [provisionRequests EXCEPT ![p][v] = list]
  BY <1>1, Unchanged DEF list
<1>5. /\ balance' \in Nat /\ wallet' \in Nat
      /\ serviceProviders[p] \in ServiceProviderType
      /\ serviceProviders[p].tokensStaked + balance
           = serviceProviders[p].tokensStaked + balance'
      /\ serviceProviders[p].tokensProvisioned + old.tokens
           = serviceProviders[p].tokensProvisioned + prov.tokens
      /\ serviceProviders[p].tokensProvisioned + serviceProviders[p].tokensLocked
           <= serviceProviders[p].tokensStaked
  BY <1>1, <1>3, StakeFacts
<1>6. ProvisionInv(prov, list)
  BY <1>3
<1> HIDE DEF old, staged, accepted
<1> QED
  BY <1>1, <1>2, <1>4, <1>5, <1>6, ProvisionChange DEF old

-----------------------------------------------------------------------------
(* The invariant is kept: calls on the delegation side.                    *)

LEMMA PoolFacts ==
  ASSUME IInv, NEW p \in Providers, NEW v \in Verifiers
  PROVE  /\ pools \in [Providers -> [Verifiers -> DelegationPoolType]]
         /\ pools[p][v] \in DelegationPoolType
         /\ pools[p][v].tokens \in Nat
         /\ pools[p][v].shares \in Nat
         /\ delegations[p][v] \in [Delegators -> Nat]
         /\ delegationRequests[p][v] \in [Delegators -> Seq(ThawRequestType)]
         /\ PoolInv(pools[p][v], delegations[p][v], delegationRequests[p][v])
         /\ DelegationSideInv(pools, delegations, delegationRequests)
<1>1. /\ pools \in [Providers -> [Verifiers -> DelegationPoolType]]
      /\ pools[p][v] \in DelegationPoolType
      /\ delegations[p][v] \in [Delegators -> Nat]
      /\ delegationRequests[p][v] \in [Delegators -> Seq(ThawRequestType)]
      /\ PoolInv(pools[p][v], delegations[p][v], delegationRequests[p][v])
      /\ DelegationSideInv(pools, delegations, delegationRequests)
  BY DEF IInv, DelegationSideInv
<1> QED
  BY <1>1 DEF DelegationPoolType

(* A call that changes one pool.                                           *)
LEMMA PoolChange ==
  ASSUME IInv, NEW p \in Providers, NEW v \in Verifiers,
         NEW pool, NEW dels, NEW waiting, PoolInv(pool, dels, waiting),
         pools' = [pools EXCEPT ![p][v] = pool],
         delegations' = [delegations EXCEPT ![p][v] = dels],
         delegationRequests' = [delegationRequests EXCEPT ![p][v] = waiting],
         UNCHANGED <<provisionVars, legacyLocked, configVars, now>>,
         balance' \in Nat, wallet' \in Nat,
         pool.tokens + balance = pools[p][v].tokens + balance'
  PROVE  IInv'
<1>1. DelegationSideInv(pools', delegations', delegationRequests')
  BY PoolFacts, UpdatePool
<1>2. pool \in DelegationPoolType /\ pool.tokens \in Nat
  BY DEF PoolInv, DelegationPoolType
<1>3. /\ TokensDelegated(pools) \in Nat
      /\ TokensDelegated(pools') = TokensDelegated(pools) + pool.tokens - pools[p][v].tokens
  BY <1>2, PoolFacts, DelegatedUpdate
<1>4. pools[p][v].tokens \in Nat /\ balance \in Nat
  BY PoolFacts, StakeFacts
<1>5. /\ TokensDelegated(pools') + balance = TokensDelegated(pools) + balance'
      /\ TokensDelegated(pools') \in Int
  BY <1>2, <1>3, <1>4
<1> QED
  BY <1>1, <1>5, DelegationSideStep

(* delegate.                                                               *)
LEMMA DelegatePreserves ==
  ASSUME IInv, NEW d \in Delegators, NEW p \in Providers, NEW v \in Verifiers,
         NEW tokens \in Nat, NEW minShares, Delegate(d, p, v, tokens, minShares)
  PROVE  IInv'
<1> DEFINE pool  == AddDelegation(pools[p][v], tokens)
           dels  == [delegations[p][v] EXCEPT ![d] = @ + DelegationShares(pools[p][v], tokens)]
           waiting == delegationRequests[p][v]
<1>1. /\ pools' = [pools EXCEPT ![p][v] = pool]
      /\ delegations' = [delegations EXCEPT ![p][v] = dels]
      /\ delegationRequests' = delegationRequests
      /\ UNCHANGED <<provisionVars, legacyLocked, configVars, now>>
      /\ balance' = balance + tokens /\ wallet' = wallet - tokens /\ tokens <= wallet
      /\ tokens # 0
      /\ DelegationShares(pools[p][v], tokens) # 0
  BY DEF Delegate, PullTokens, CanDelegate
<1>2. /\ PoolInv(pool, dels, waiting)
      /\ pool.tokens = pools[p][v].tokens + tokens
  BY <1>1, PoolFacts, PoolDelegates
<1> HIDE DEF pool, dels, waiting
<1>3. delegationRequests' = [delegationRequests EXCEPT ![p][v] = waiting]
  BY <1>1, Unchanged DEF waiting
<1>4. /\ balance' \in Nat /\ wallet' \in Nat
      /\ pool.tokens + balance = pools[p][v].tokens + balance'
  BY <1>1, <1>2, PoolFacts, StakeFacts
<1> QED
  BY <1>1, <1>2, <1>3, <1>4, PoolChange

(* addToDelegationPool.                                                    *)
LEMMA AddToDelegationPoolPreserves ==
  ASSUME IInv, NEW p \in Providers, NEW v \in Verifiers, NEW tokens \in Nat,
         AddToDelegationPool(p, v, tokens)
  PROVE  IInv'
<1> DEFINE pool  == [pools[p][v] EXCEPT !.tokens = @ + tokens]
           dels  == delegations[p][v]
           waiting == delegationRequests[p][v]
<1>1. /\ pools' = [pools EXCEPT ![p][v] = pool]
      /\ delegations' = delegations
      /\ delegationRequests' = delegationRequests
      /\ UNCHANGED <<provisionVars, legacyLocked, configVars, now>>
      /\ balance' = balance + tokens /\ wallet' = wallet - tokens /\ tokens <= wallet
      /\ tokens # 0
      /\ pools[p][v].shares > 0
  BY DEF AddToDelegationPool, PullTokens
<1>2. /\ PoolInv(pool, dels, waiting)
      /\ pool.tokens = pools[p][v].tokens + tokens
  BY <1>1, PoolFacts, PoolGains
<1> HIDE DEF pool, dels, waiting
<1>3. /\ delegations' = [delegations EXCEPT ![p][v] = dels]
      /\ delegationRequests' = [delegationRequests EXCEPT ![p][v] = waiting]
  BY <1>1, Unchanged DEF dels, waiting
<1>4. /\ balance' \in Nat /\ wallet' \in Nat
      /\ pool.tokens + balance = pools[p][v].tokens + balance'
  BY <1>1, <1>2, PoolFacts, StakeFacts
<1> QED
  BY <1>1, <1>2, <1>3, <1>4, PoolChange

(* undelegate.                                                             *)
LEMMA UndelegatePreserves ==
  ASSUME IInv, NEW d \in Delegators, NEW p \in Providers, NEW v \in Verifiers,
         NEW shares \in Nat, Undelegate(d, p, v, shares)
  PROVE  IInv'
<1> DEFINE tokens == (shares * TokensAvailable(pools[p][v])) \div pools[p][v].shares
           pool   == UndelegatedPool(pools[p][v], shares, tokens)
           req    == NewThawRequest(pools[p][v], ThawingSharesRoundDown(pools[p][v], tokens),
                                    ThawingUntil(p, v))
           dels   == [delegations[p][v] EXCEPT ![d] = @ - shares]
           waiting  == [delegationRequests[p][v] EXCEPT ![d] = Append(@, req)]
<1>1. /\ pools' = [pools EXCEPT ![p][v] = pool]
      /\ delegations' = [delegations EXCEPT ![p][v] = dels]
      /\ delegationRequests' = [delegationRequests EXCEPT ![p][v] = waiting]
      /\ UNCHANGED <<provisionVars, legacyLocked, configVars, now>>
      /\ balance' = balance /\ wallet' = wallet
      /\ shares > 0 /\ delegations[p][v][d] >= shares
      /\ pools[p][v].tokens # 0
      /\ ThawingSharesRoundDown(pools[p][v], tokens) # 0
  BY DEF Undelegate, tokenVars, CanCreateThawRequest
<1>2. ThawingUntil(p, v) \in Nat
  <2>1. now \in Nat /\ provisions[p][v].thawingPeriod \in Nat
    BY StakeFacts, ProvisionFacts DEF ProvisionType
  <2> QED BY <2>1, ParametersPositive DEF ThawingUntil
<1>3. /\ PoolInv(pool, dels, waiting)
      /\ pool.tokens = pools[p][v].tokens
  <2>1. shares \in Nat \ {0} /\ shares <= delegations[p][v][d]
    BY <1>1, PoolFacts
  <2>2. PICK old, ds, ls : /\ old = pools[p][v]
                           /\ ds = delegations[p][v]
                           /\ ls = delegationRequests[p][v]
    OBVIOUS
  <2>3. PICK until \in Nat : until = ThawingUntil(p, v)
    BY <1>2
  <2>4. /\ old \in DelegationPoolType /\ PoolInv(old, ds, ls)
        /\ shares <= ds[d] /\ old.tokens # 0
        /\ ThawingSharesRoundDown(old, (shares * TokensAvailable(old)) \div old.shares) # 0
    BY <1>1, <2>1, <2>2, PoolFacts
  <2> DEFINE t == (shares * TokensAvailable(old)) \div old.shares
             r == NewThawRequest(old, ThawingSharesRoundDown(old, t), until)
  <2>5. /\ PoolInv(UndelegatedPool(old, shares, t), [ds EXCEPT ![d] = @ - shares],
                   [ls EXCEPT ![d] = Append(@, r)])
        /\ UndelegatedPool(old, shares, t).tokens = old.tokens
    BY ONLY ZenonT(40), d \in Delegators, <2>1, <2>3, <2>4, PoolUndelegates
  <2> QED BY <2>2, <2>3, <2>5
<1> HIDE DEF pool, dels, waiting
<1> QED
  BY <1>1, <1>3, StakeFacts, PoolChange

(* withdrawDelegated.                                                      *)
LEMMA WithdrawDelegatedPreserves ==
  ASSUME IInv, NEW d \in Delegators, NEW p \in Providers, NEW v \in Verifiers,
         NEW n \in Nat, WithdrawDelegated(d, p, v, n)
  PROVE  IInv'
<1> DEFINE result == FulfillThawRequests(pools[p][v], delegationRequests[p][v][d], n, now)
           pool   == ReleaseThawed(pools[p][v], result)
           dels   == delegations[p][v]
           waiting  == [delegationRequests[p][v] EXCEPT ![d] = RemainingRequests(@, n, now)]
<1>1. /\ pools' = [pools EXCEPT ![p][v] = pool]
      /\ delegations' = delegations
      /\ delegationRequests' = [delegationRequests EXCEPT ![p][v] = waiting]
      /\ UNCHANGED <<provisionVars, legacyLocked, configVars, now>>
      /\ balance' = balance - result.tokensThawed
      /\ wallet' = wallet + result.tokensThawed
      /\ result.tokensThawed <= balance
      /\ IsValidPool(pools[p][v])
      /\ n <= Len(delegationRequests[p][v][d])
  BY DEF WithdrawDelegated, PushTokens, CanFulfillThawRequests
<1>2. /\ PoolInv(pool, dels, waiting)
      /\ result.tokensThawed \in Nat
      /\ result.tokensThawed <= pools[p][v].tokens
      /\ pool.tokens = pools[p][v].tokens - result.tokensThawed
  <2>1. PICK old, ds, ls : /\ old = pools[p][v]
                           /\ ds = delegations[p][v]
                           /\ ls = delegationRequests[p][v]
    OBVIOUS
  <2>2. /\ old \in DelegationPoolType /\ PoolInv(old, ds, ls)
        /\ IsValidPool(old) /\ n <= Len(ls[d]) /\ now \in Nat
    BY <1>1, <2>1, PoolFacts, StakeFacts
  <2> DEFINE r == FulfillThawRequests(old, ls[d], n, now)
  <2>3. /\ PoolInv(ReleaseThawed(old, r), ds,
                   [ls EXCEPT ![d] = RemainingRequests(@, n, now)])
        /\ r.tokensThawed \in Nat
        /\ r.tokensThawed <= old.tokens
        /\ ReleaseThawed(old, r).tokens = old.tokens - r.tokensThawed
    BY ONLY d \in Delegators, n \in Nat, <2>2, PoolReleases
  <2> QED BY <2>1, <2>3
<1> HIDE DEF result, pool, dels, waiting
<1>3. delegations' = [delegations EXCEPT ![p][v] = dels]
  BY <1>1, Unchanged DEF dels
<1>4. /\ balance' \in Nat /\ wallet' \in Nat
      /\ pool.tokens + balance = pools[p][v].tokens + balance'
  BY <1>1, <1>2, PoolFacts, StakeFacts
<1> QED
  BY <1>1, <1>2, <1>3, <1>4, PoolChange
(* Two pools change, or one twice: withdraw, then delegate.                *)
LEMMA RedelegatePreserves ==
  ASSUME IInv, NEW d \in Delegators, NEW p \in Providers, NEW v \in Verifiers,
         NEW newP \in Providers, NEW newV \in Verifiers, NEW minShares,
         NEW n \in Nat, Redelegate(d, p, v, newP, newV, minShares, n)
  PROVE  IInv'
<1> DEFINE result == FulfillThawRequests(pools[p][v], delegationRequests[p][v][d], n, now)
           tokens == result.tokensThawed
           pool   == ReleaseThawed(pools[p][v], result)
           waiting  == [delegationRequests[p][v] EXCEPT ![d] = RemainingRequests(@, n, now)]
           pls2   == [pools EXCEPT ![p][v] = pool]
           waiting2 == [delegationRequests EXCEPT ![p][v] = waiting]
           pool2  == AddDelegation(pls2[newP][newV], tokens)
           dels2  == [delegations[newP][newV] EXCEPT
                        ![d] = @ + DelegationShares(pls2[newP][newV], tokens)]
<1>1. /\ delegationRequests' = waiting2
      /\ UNCHANGED <<provisionVars, legacyLocked, configVars, now>>
      /\ balance' = balance /\ wallet' = wallet
      /\ IsValidPool(pools[p][v])
      /\ n <= Len(delegationRequests[p][v][d])
  BY DEF Redelegate, tokenVars, CanFulfillThawRequests
<1>2. \/ tokens = 0 /\ pools' = pls2 /\ delegations' = delegations
      \/ /\ tokens # 0
         /\ DelegationShares(pls2[newP][newV], tokens) # 0
         /\ pools' = [pls2 EXCEPT ![newP][newV] = pool2]
         /\ delegations' = [delegations EXCEPT ![newP][newV] = dels2]
  BY DEF Redelegate, CanDelegate
<1>3. /\ PoolInv(pool, delegations[p][v], waiting)
      /\ tokens \in Nat
      /\ tokens <= pools[p][v].tokens
      /\ pool.tokens = pools[p][v].tokens - tokens
  <2>1. PICK old, ds, ls : /\ old = pools[p][v]
                           /\ ds = delegations[p][v]
                           /\ ls = delegationRequests[p][v]
    OBVIOUS
  <2>2. /\ old \in DelegationPoolType /\ PoolInv(old, ds, ls)
        /\ IsValidPool(old) /\ n <= Len(ls[d]) /\ now \in Nat
    BY <1>1, <2>1, PoolFacts, StakeFacts
  <2> DEFINE r == FulfillThawRequests(old, ls[d], n, now)
  <2>3. /\ PoolInv(ReleaseThawed(old, r), ds,
                   [ls EXCEPT ![d] = RemainingRequests(@, n, now)])
        /\ r.tokensThawed \in Nat
        /\ r.tokensThawed <= old.tokens
        /\ ReleaseThawed(old, r).tokens = old.tokens - r.tokensThawed
    BY ONLY d \in Delegators, n \in Nat, <2>2, PoolReleases
  <2> QED BY <2>1, <2>3
<1> HIDE DEF tokens, pool, waiting
<1>4. /\ balance' \in Nat /\ wallet' \in Nat
      /\ pools[p][v].tokens \in Nat
  BY <1>1, PoolFacts, StakeFacts
<1>5. CASE tokens = 0
  <2>1. pools' = pls2 /\ delegations' = delegations
    BY <1>2, <1>5
  <2>2. delegations' = [delegations EXCEPT ![p][v] = delegations[p][v]]
    BY <2>1, Unchanged
  <2>3. pool.tokens + balance = pools[p][v].tokens + balance'
    BY <1>1, <1>3, <1>4, <1>5
  <2> QED BY <1>1, <1>3, <1>4, <2>1, <2>2, <2>3, PoolChange
<1>6. CASE tokens # 0
  <2>1. /\ DelegationShares(pls2[newP][newV], tokens) # 0
        /\ pools' = [pls2 EXCEPT ![newP][newV] = pool2]
        /\ delegations' = [delegations EXCEPT ![newP][newV] = dels2]
    BY <1>2, <1>6
  <2>2. DelegationSideInv(pls2, delegations, waiting2)
    <3>1. DelegationSideInv([pools EXCEPT ![p][v] = pool],
                            [delegations EXCEPT ![p][v] = delegations[p][v]],
                            [delegationRequests EXCEPT ![p][v] = waiting])
      BY <1>3, PoolFacts, UpdatePool
    <3> QED BY <3>1, Unchanged
  <2>3. /\ pools \in [Providers -> [Verifiers -> DelegationPoolType]]
        /\ pool \in DelegationPoolType /\ pool.tokens \in Nat
    BY <1>3, PoolFacts DEF PoolInv, DelegationPoolType
  <2>4. /\ TokensDelegated(pools) \in Nat
        /\ TokensDelegated(pls2) = TokensDelegated(pools) + pool.tokens - pools[p][v].tokens
    BY <2>3, DelegatedUpdate
  <2> HIDE DEF pls2, waiting2
  <2>5. /\ pls2 \in [Providers -> [Verifiers -> DelegationPoolType]]
        /\ waiting2 \in [Providers -> [Verifiers -> [Delegators -> Seq(ThawRequestType)]]]
        /\ pls2[newP][newV] \in DelegationPoolType
        /\ PoolInv(pls2[newP][newV], delegations[newP][newV], waiting2[newP][newV])
    BY <2>2 DEF DelegationSideInv
  <2>6. /\ PoolInv(pool2, dels2, waiting2[newP][newV])
        /\ pool2.tokens = pls2[newP][newV].tokens + tokens
    <3>1. PICK old, ds, ls : /\ old = pls2[newP][newV]
                             /\ ds = delegations[newP][newV]
                             /\ ls = waiting2[newP][newV]
      OBVIOUS
    <3>2. /\ old \in DelegationPoolType /\ PoolInv(old, ds, ls)
          /\ DelegationShares(old, tokens) # 0
          /\ tokens \in Nat \ {0}
      BY <1>3, <1>6, <2>1, <2>5, <3>1
    <3>3. /\ PoolInv(AddDelegation(old, tokens),
                     [ds EXCEPT ![d] = @ + DelegationShares(old, tokens)], ls)
          /\ AddDelegation(old, tokens).tokens = old.tokens + tokens
      BY ONLY d \in Delegators, <3>2, PoolDelegates
    <3> QED BY <3>1, <3>3
  <2> HIDE DEF pool2, dels2
  <2>7. DelegationSideInv(pools', delegations', delegationRequests')
    <3>1. DelegationSideInv([pls2 EXCEPT ![newP][newV] = pool2],
                            [delegations EXCEPT ![newP][newV] = dels2],
                            [waiting2 EXCEPT ![newP][newV] = waiting2[newP][newV]])
      BY <2>2, <2>6, UpdatePool
    <3>2. [waiting2 EXCEPT ![newP][newV] = waiting2[newP][newV]] = waiting2
      BY <2>5, KeepTwice
    <3> QED BY <1>1, <2>1, <3>1, <3>2
  <2>8. pool2 \in DelegationPoolType /\ pls2[newP][newV].tokens \in Nat
    BY <2>5, <2>6 DEF PoolInv, DelegationPoolType
  <2>9. TokensDelegated(pools') = TokensDelegated(pls2) + pool2.tokens - pls2[newP][newV].tokens
    BY <2>1, <2>5, <2>8, DelegatedUpdate
  <2>10. TokensDelegated(pools') = TokensDelegated(pools)
    BY <1>3, <1>4, <2>3, <2>4, <2>6, <2>8, <2>9
  <2> QED BY <1>1, <1>4, <2>4, <2>7, <2>10, DelegationSideStep
<1> QED
  BY <1>5, <1>6

-----------------------------------------------------------------------------
(* The invariant is kept: the other calls.                                 *)

LEMMA WithdrawDelegatedLegacyPreserves ==
  ASSUME IInv, NEW p \in Providers, NEW d \in Delegators, WithdrawDelegatedLegacy(p, d)
  PROVE  IInv'
<1> DEFINE tokens == legacyLocked[p][d]
<1>1. /\ legacyLocked' = [legacyLocked EXCEPT ![p][d] = 0]
      /\ UNCHANGED <<provisionVars, delegationVars, configVars, now>>
      /\ balance' = balance - tokens /\ wallet' = wallet + tokens /\ tokens <= balance
  BY DEF WithdrawDelegatedLegacy, PushTokens
<1>2. /\ legacyLocked \in [Providers -> [Delegators -> Nat]]
      /\ tokens \in Nat /\ balance \in Nat /\ wallet \in Nat
  BY DEF IInv, OtherTypes
<1>3. /\ TokensLocked(legacyLocked) \in Nat
      /\ TokensLocked(legacyLocked') = TokensLocked(legacyLocked) - tokens
  BY <1>1, <1>2, LockedUpdate
<1> HIDE DEF tokens
<1>4. /\ StakeSideInv(serviceProviders', provisions', provisionRequests')
      /\ DelegationSideInv(pools', delegations', delegationRequests')
  BY <1>1 DEF IInv, provisionVars, delegationVars
<1>5. OtherTypes'
  <2>1. legacyLocked' \in [Providers -> [Delegators -> Nat]]
    BY <1>1, <1>2
  <2>2. balance' \in Nat /\ wallet' \in Nat
    BY <1>1, <1>2
  <2> QED BY <1>1, <2>1, <2>2 DEF IInv, OtherTypes, configVars
<1>6. Solvent'
  <2>1. /\ TokensStaked(serviceProviders') = TokensStaked(serviceProviders)
        /\ TokensDelegated(pools') = TokensDelegated(pools)
    BY <1>1 DEF provisionVars, delegationVars
  <2>2. balance = TokensStaked(serviceProviders) + TokensDelegated(pools)
                    + TokensLocked(legacyLocked)
    BY DEF IInv, Solvent, TokensOwed
  <2>3. TokensStaked(serviceProviders) \in Nat /\ TokensDelegated(pools) \in Nat
    BY OwedTypes DEF IInv, OtherTypes
  <2>4. balance' = TokensStaked(serviceProviders) + TokensDelegated(pools)
                     + (TokensLocked(legacyLocked) - tokens)
    BY <1>1, <1>2, <1>3, <2>2, <2>3
  <2> QED BY <1>3, <2>1, <2>4 DEF Solvent, TokensOwed
<1> QED
  BY <1>4, <1>5, <1>6 DEF IInv

(* Operators, parameters, the clock: no account changes.                   *)
LEMMA ConfigChange ==
  ASSUME IInv, UNCHANGED accountVars, OtherTypes'
  PROVE  IInv'
<1>1. /\ StakeSideInv(serviceProviders', provisions', provisionRequests')
      /\ DelegationSideInv(pools', delegations', delegationRequests')
  BY DEF IInv, accountVars, provisionVars, delegationVars
<1>2. Solvent'
  BY DEF IInv, Solvent, TokensOwed, accountVars, provisionVars, delegationVars, tokenVars
<1> QED
  BY <1>1, <1>2 DEF IInv

(* Operators and governance.                                               *)
LEMMA ConfigPreserves ==
  ASSUME IInv, ConfigStep
  PROVE  IInv'
<1> USE DEF accountVars, tokenVars
<1>1. CASE \E p \in Providers, v \in Verifiers, operator \in Operators, allowed \in BOOLEAN :
             \/ SetOperator(p, v, operator, allowed)
             \/ SetOperatorLocked(p, v, operator, allowed)
  <2>1. PICK p \in Providers, v \in Verifiers, operator \in Operators, allowed \in BOOLEAN :
          SetOperator(p, v, operator, allowed)
    BY <1>1 DEF SetOperatorLocked
  <2>2. PICK set \in SUBSET Operators :
          operatorAuth' = [operatorAuth EXCEPT ![p][v] = set]
    <3>1. operatorAuth[p][v] \in SUBSET Operators
      BY DEF IInv, OtherTypes
    <3> QED BY <2>1, <3>1 DEF SetOperator
  <2>3. operatorAuth' \in [Providers -> [Verifiers -> SUBSET Operators]]
    BY <2>2 DEF IInv, OtherTypes
  <2>4. UNCHANGED accountVars /\ OtherTypes'
    BY <2>1, <2>3 DEF SetOperator, IInv, OtherTypes
  <2> QED BY <2>4, ConfigChange
<1>2. CASE \E v \in LockedVerifiers, allowed \in BOOLEAN : SetAllowedLockedVerifier(v, allowed)
  <2>1. UNCHANGED accountVars /\ OtherTypes'
    BY <1>2 DEF SetAllowedLockedVerifier, IInv, OtherTypes
  <2> QED BY <2>1, ConfigChange
<1>3. CASE SetDelegationSlashingEnabled
  <2>1. UNCHANGED accountVars /\ OtherTypes'
    BY <1>3 DEF SetDelegationSlashingEnabled, IInv, OtherTypes
  <2> QED BY <2>1, ConfigChange
<1>4. CASE \E period \in Periods : SetMaxThawingPeriod(period)
  <2>1. UNCHANGED accountVars /\ OtherTypes'
    BY <1>4, ArgumentsNatural DEF SetMaxThawingPeriod, IInv, OtherTypes
  <2> QED BY <2>1, ConfigChange
<1>5. CASE \E value \in PauseInputs : SetPaused(value)
  <2>1. UNCHANGED accountVars /\ OtherTypes'
    BY <1>5, ArgumentsNatural DEF SetPaused, IInv, OtherTypes
  <2> QED BY <2>1, ConfigChange
<1> QED
  BY <1>1, <1>2, <1>3, <1>4, <1>5 DEF ConfigStep

(* setDelegationFeeCut.                                                    *)
LEMMA SetDelegationFeeCutPreserves ==
  ASSUME IInv, NEW caller, NEW p \in Providers, NEW v \in Verifiers, NEW cut \in Nat,
         SetDelegationFeeCut(caller, p, v, cut)
  PROVE  IInv'
<1>1. delegationFeeCut' \in [Providers -> [Verifiers -> Nat]]
  BY DEF SetDelegationFeeCut, IInv, OtherTypes
<1>2. UNCHANGED accountVars /\ OtherTypes'
  BY <1>1 DEF SetDelegationFeeCut, IInv, OtherTypes, accountVars, tokenVars
<1> QED
  BY <1>2, ConfigChange

(* Time passes.                                                            *)
LEMMA TickPreserves ==
  ASSUME IInv, Tick
  PROVE  IInv'
<1>1. UNCHANGED accountVars /\ OtherTypes'
  BY DEF Tick, IInv, OtherTypes, configVars, accountVars, tokenVars
<1> QED
  BY <1>1, ConfigChange
(* A slash changes both sides: the provision and the stake behind it, and  *)
(* the delegation pool.                                                    *)
LEMMA SlashPreserves ==
  ASSUME IInv, NEW p \in Providers, NEW v \in Verifiers, NEW tokens \in Nat,
         NEW tokensVerifier \in Nat, Slash(p, v, tokens, tokensVerifier)
  PROVE  IInv'
<1> DEFINE old  == provisions[p][v]
           total == old.tokens + pools[p][v].tokens
           toSlash == LesserOf(tokens, total)
           a == LesserOf(old.tokens, toSlash)
           b == IF delegationSlashingEnabled THEN toSlash - a ELSE 0
           reward == IF a > 0 THEN tokensVerifier ELSE 0
           sp   == [serviceProviders[p] EXCEPT !.tokensProvisioned = @ - a,
                                               !.tokensStaked = @ - a]
           prov == SlashAccount(old, a)
           pool == SlashAccount(pools[p][v], b)
<1>1. /\ provisions' = [provisions EXCEPT ![p][v] = prov]
      /\ pools' = [pools EXCEPT ![p][v] = pool]
      /\ UNCHANGED <<provisionRequests, delegations, delegationRequests,
                     legacyLocked, configVars, now>>
      /\ balance' = balance - (a + b) /\ wallet' = wallet + reward
      /\ a + b <= balance
  BY DEF Slash
<1>2. serviceProviders' = [serviceProviders EXCEPT ![p] = sp]
  BY StakeFacts DEF Slash, ServiceProviderType
<1>3. old.tokens \in Nat /\ pools[p][v].tokens \in Nat
  BY ProvisionFacts, PoolFacts
<1>4. a \in Nat /\ a <= old.tokens /\ b \in Nat /\ b <= pools[p][v].tokens /\ reward \in Nat
  BY <1>3 DEF LesserOf
<1> HIDE DEF a, b, reward
<1>5. /\ ProvisionInv(prov, provisionRequests[p][v])
      /\ prov.tokens = old.tokens - a
  BY <1>4, ProvisionFacts, ProvisionSlashed
<1>6. /\ PoolInv(pool, delegations[p][v], delegationRequests[p][v])
      /\ pool.tokens = pools[p][v].tokens - b
  BY <1>4, PoolFacts, PoolSlashed
<1> HIDE DEF prov, pool
<1>7. /\ serviceProviders[p].tokensProvisioned - a \in Nat
      /\ serviceProviders[p].tokensStaked - a \in Nat
  <2>1. /\ serviceProviders[p].tokensProvisioned \in Nat
        /\ serviceProviders[p].tokensStaked \in Nat
        /\ serviceProviders[p].tokensProvisioned <= serviceProviders[p].tokensStaked
        /\ old.tokens <= serviceProviders[p].tokensProvisioned
    BY StakeFacts, ProvisionFacts
  <2> QED BY <1>3, <1>4, <2>1
<1>8. /\ sp \in ServiceProviderType
      /\ sp.tokensStaked = serviceProviders[p].tokensStaked - a
      /\ sp.tokensProvisioned = serviceProviders[p].tokensProvisioned - a
      /\ sp.tokensLocked = serviceProviders[p].tokensLocked
  BY <1>7, StakeFacts DEF ServiceProviderType
<1> HIDE DEF sp
<1>9. StakeSideInv(serviceProviders', provisions', provisionRequests')
  <2>1. sp.tokensProvisioned + sp.tokensLocked <= sp.tokensStaked
    BY <1>4, <1>8, StakeFacts
  <2>2. sp.tokensProvisioned + old.tokens = serviceProviders[p].tokensProvisioned + prov.tokens
    <3>1. serviceProviders[p].tokensProvisioned \in Nat
      BY StakeFacts
    <3> QED BY <1>3, <1>4, <1>5, <1>8, <3>1
  <2>3. StakeSideInv([serviceProviders EXCEPT ![p] = sp], [provisions EXCEPT ![p][v] = prov],
                     [provisionRequests EXCEPT ![p][v] = provisionRequests[p][v]])
    <3>1. StakeSideInv(serviceProviders, provisions, provisionRequests)
      BY DEF IInv
    <3> QED BY <1>5, <1>8, <2>1, <2>2, <3>1, UpdateProvision
  <2> QED BY <1>1, <1>2, <2>3, Unchanged
<1>10. DelegationSideInv(pools', delegations', delegationRequests')
  <2>1. DelegationSideInv([pools EXCEPT ![p][v] = pool],
                          [delegations EXCEPT ![p][v] = delegations[p][v]],
                          [delegationRequests EXCEPT ![p][v] = delegationRequests[p][v]])
    BY <1>6, PoolFacts, UpdatePool
  <2> QED BY <1>1, <2>1, Unchanged
<1>11. balance \in Nat /\ wallet \in Nat /\ balance' \in Nat /\ wallet' \in Nat
  BY <1>1, <1>4, StakeFacts
<1>12. OtherTypes'
  BY <1>1, <1>11 DEF IInv, OtherTypes, configVars
<1>13. Solvent'
  <2>1. PICK s \in Nat, g \in Nat, l \in Nat :
          /\ s = TokensStaked(serviceProviders)
          /\ g = TokensDelegated(pools)
          /\ l = TokensLocked(legacyLocked)
    BY OwedTypes DEF IInv, OtherTypes
  <2>2. balance = s + g + l
    BY <2>1 DEF IInv, Solvent, TokensOwed
  <2>3. TokensStaked(serviceProviders') = s - a
    <3>1. TokensStaked(serviceProviders')
            = s + sp.tokensStaked - serviceProviders[p].tokensStaked
      BY <1>2, <1>8, <2>1, StakeFacts, StakedUpdate
    <3>2. serviceProviders[p].tokensStaked \in Nat
      BY StakeFacts
    <3> QED BY <1>4, <1>8, <3>1, <3>2
  <2>4. TokensDelegated(pools') = g - b
    <3>1. pool \in DelegationPoolType
      BY <1>6 DEF PoolInv
    <3>2. TokensDelegated(pools') = g + pool.tokens - pools[p][v].tokens
      BY <1>1, <2>1, <3>1, PoolFacts, DelegatedUpdate
    <3> QED BY <1>3, <1>4, <1>6, <3>2
  <2>5. TokensLocked(legacyLocked') = l
    BY <1>1, <2>1
  <2>6. balance' = (s - a) + (g - b) + l
    BY <1>1, <1>4, <2>2
  <2> QED BY <2>3, <2>4, <2>5, <2>6 DEF Solvent, TokensOwed
<1> QED
  BY <1>9, <1>10, <1>12, <1>13 DEF IInv

-----------------------------------------------------------------------------
(* The invariant holds initially.                                          *)

LEMMA InitInvariant ==
  ASSUME Init
  PROVE  IInv
<1>1. StakeSideInv(serviceProviders, provisions, provisionRequests)
  <2>1. PICK locked \in [Providers -> LegacyAmounts] :
          serviceProviders = [p \in Providers |->
            [tokensStaked |-> locked[p], tokensProvisioned |-> 0, tokensLocked |-> locked[p]]]
    BY DEF Init
  <2>2. \A p \in Providers : locked[p] \in Nat
    BY ArgumentsNatural
  <2>3. /\ serviceProviders \in [Providers -> ServiceProviderType]
        /\ \A p \in Providers :
             /\ serviceProviders[p].tokensProvisioned = 0
             /\ serviceProviders[p].tokensLocked = serviceProviders[p].tokensStaked
             /\ serviceProviders[p].tokensStaked \in Nat
    BY <2>1, <2>2 DEF ServiceProviderType
  <2>4. /\ NoProvision \in ProvisionType
        /\ NoProvision.tokens = 0 /\ NoProvision.tokensThawing = 0
        /\ NoProvision.sharesThawing = 0 /\ NoProvision.thawingNonce = 0
    BY DEF NoProvision, ProvisionType
  <2>5. ProvisionInv(NoProvision, <<>>)
    <3>1. ValidShares(<<>>, 0) = 0
      BY ValidSharesEmpty
    <3>2. NoncesUpTo(<<>>, 0)
      BY DEF NoncesUpTo
    <3>3. SoundAccount(NoProvision)
      BY <2>4 DEF SoundAccount
    <3>4. <<>> \in Seq(ThawRequestType)
      OBVIOUS
    <3> QED BY <2>4, <3>1, <3>2, <3>3, <3>4 DEF ProvisionInv
  <2>6. /\ provisions \in [Providers -> [Verifiers -> ProvisionType]]
        /\ provisionRequests \in [Providers -> [Verifiers -> Seq(ThawRequestType)]]
        /\ \A p \in Providers, v \in Verifiers :
             provisions[p][v] = NoProvision /\ provisionRequests[p][v] = <<>>
    BY <2>4 DEF Init
  <2>7. ASSUME NEW p \in Providers PROVE StakeInv(serviceProviders[p], provisions[p])
    <3> DEFINE f == [v \in Verifiers |-> provisions[p][v].tokens]
    <3>1. \A v \in Verifiers : f[v] = 0
      BY <2>4, <2>6
    <3> HIDE DEF f
    <3>2. SumFunctionOnSet(f, Verifiers) = 0
      BY <3>1, SumZero, AddressesFinite
    <3>3. ProvisionTokens(provisions[p]) = 0
      BY <3>2 DEF ProvisionTokens, f
    <3> QED BY <2>3, <3>3 DEF StakeInv
  <2> QED BY <2>3, <2>5, <2>6, <2>7 DEF StakeSideInv
<1>2. DelegationSideInv(pools, delegations, delegationRequests)
  <2> DEFINE none  == [d \in Delegators |-> 0]
             empty == [d \in Delegators |-> <<>>]
  <2>1. /\ EmptyPool \in DelegationPoolType
        /\ EmptyPool.tokens = 0 /\ EmptyPool.tokensThawing = 0 /\ EmptyPool.shares = 0
        /\ EmptyPool.sharesThawing = 0 /\ EmptyPool.thawingNonce = 0
    BY DEF EmptyPool, DelegationPoolType
  <2>2. none \in [Delegators -> Nat] /\ empty \in [Delegators -> Seq(ThawRequestType)]
    OBVIOUS
  <2>3. SumFunctionOnSet(none, Delegators) = 0
    <3>1. \A d \in Delegators : none[d] = 0
      OBVIOUS
    <3> HIDE DEF none
    <3> QED BY <3>1, SumZero, AddressesFinite
  <2>4. HeldShares(empty, 0) = 0
    <3> DEFINE f == [d \in Delegators |-> ValidShares(empty[d], 0)]
    <3>1. \A d \in Delegators : f[d] = 0
      BY ValidSharesEmpty
    <3> HIDE DEF f
    <3>2. SumFunctionOnSet(f, Delegators) = 0
      BY <3>1, SumZero, AddressesFinite
    <3> QED BY <3>2 DEF HeldShares, f
  <2>5. \A d \in Delegators : NoncesUpTo(empty[d], 0)
    BY DEF NoncesUpTo
  <2>6. /\ \A p \in Providers, v \in Verifiers :
             /\ pools[p][v] = EmptyPool
             /\ delegations[p][v] = none
             /\ delegationRequests[p][v] = empty
        /\ pools \in [Providers -> [Verifiers -> DelegationPoolType]]
        /\ delegations \in [Providers -> [Verifiers -> [Delegators -> Nat]]]
        /\ delegationRequests \in
             [Providers -> [Verifiers -> [Delegators -> Seq(ThawRequestType)]]]
    BY <2>1, <2>2 DEF Init
  <2> HIDE DEF none, empty
  <2>7. PoolInv(EmptyPool, none, empty)
    BY <2>1, <2>2, <2>3, <2>4, <2>5 DEF PoolInv, SoundAccount, IsValidPool
  <2> QED BY <2>6, <2>7 DEF DelegationSideInv
<1>3. legacyLocked \in [Providers -> [Delegators -> Nat]]
  BY ArgumentsNatural DEF Init
<1>4. balance = TokensOwed /\ TokensOwed \in Nat
  BY <1>1, <1>2, <1>3, OwedTypes DEF Init, TokensOwed
<1>5. OtherTypes
  <2>1. /\ operatorAuth \in [Providers -> [Verifiers -> SUBSET Operators]]
        /\ delegationFeeCut \in [Providers -> [Verifiers -> Nat]]
        /\ allowedLockedVerifiers \in SUBSET LockedVerifiers
        /\ delegationSlashingEnabled \in BOOLEAN
        /\ maxThawingPeriod \in Nat /\ paused \in BOOLEAN /\ now \in Nat
        /\ wallet \in Nat
    BY ArgumentsNatural DEF Init
  <2> QED BY <1>3, <1>4, <2>1 DEF OtherTypes
<1> QED
  BY <1>1, <1>2, <1>4, <1>5 DEF IInv, Solvent
-----------------------------------------------------------------------------
(* Every step keeps the invariant.                                         *)

LEMMA StakeStepPreserves ==
  ASSUME IInv, NEW p \in Providers, StakeStep(p)
  PROVE  IInv'
<1>1. CASE \E tokens \in TokenAmounts : Stake(p, tokens)
  BY <1>1, ArgumentsNatural, StakePreserves
<1>2. CASE \E tokens \in TokenAmounts : Unstake(p, tokens)
  BY <1>2, ArgumentsNatural, UnstakePreserves
<1>3. CASE Withdraw(p)
  BY <1>3, WithdrawPreserves
<1> QED
  BY <1>1, <1>2, <1>3 DEF StakeStep

(* The calls of providers and operators on a provision.                    *)
LEMMA ProvisionStepPreserves ==
  ASSUME IInv, NEW p \in Providers, NEW v \in Verifiers, ProvisionStep(p, v)
  PROVE  IInv'
<1>1. PICK caller \in Callers :
        \/ \E tokens \in TokenAmounts :
             \/ \E cut \in Cuts, period \in Periods :
                  \/ Provision(caller, p, v, tokens, cut, period)
                  \/ ProvisionLocked(caller, p, v, tokens, cut, period)
             \/ AddToProvision(caller, p, v, tokens)
             \/ StakeToProvision(caller, p, v, tokens)
             \/ Thaw(caller, p, v, tokens)
        \/ \E n \in 0 .. MaxThawRequests :
             \/ Deprovision(caller, p, v, n)
             \/ \E new \in Verifiers : Reprovision(caller, p, v, new, n)
        \/ \E cut \in Cuts, period \in Periods :
             SetProvisionParameters(caller, p, v, cut, period)
        \/ \E cut \in FeeCuts : SetDelegationFeeCut(caller, p, v, cut)
  BY Zenon DEF ProvisionStep
<1>2. ASSUME NEW tokens \in TokenAmounts, NEW cut \in Cuts, NEW period \in Periods,
             \/ Provision(caller, p, v, tokens, cut, period)
             \/ ProvisionLocked(caller, p, v, tokens, cut, period)
      PROVE  IInv'
  <2>1. CreateProvision(p, v, tokens, cut, period)
    BY <1>2 DEF Provision, ProvisionLocked
  <2>2. tokens \in Nat /\ cut \in Nat /\ period \in Nat
    BY ArgumentsNatural
  <2> QED BY <2>1, <2>2, CreateProvisionPreserves
<1>3. ASSUME NEW tokens \in TokenAmounts,
             \/ AddToProvision(caller, p, v, tokens)
             \/ StakeToProvision(caller, p, v, tokens)
             \/ Thaw(caller, p, v, tokens)
      PROVE  IInv'
  <2>1. tokens \in Nat
    BY ArgumentsNatural
  <2> QED
    BY <1>3, <2>1, AddToProvisionPreserves, StakeToProvisionPreserves, ThawPreserves
<1>4. ASSUME NEW n \in 0 .. MaxThawRequests,
             \/ Deprovision(caller, p, v, n)
             \/ \E new \in Verifiers : Reprovision(caller, p, v, new, n)
      PROVE  IInv'
  <2>1. n \in Nat
    BY ParametersPositive
  <2> QED
    BY <1>4, <2>1, DeprovisionPreserves, ReprovisionPreserves
<1>5. ASSUME NEW cut \in Cuts, NEW period \in Periods,
             SetProvisionParameters(caller, p, v, cut, period)
      PROVE  IInv'
  <2>1. cut \in Nat /\ period \in Nat
    BY ArgumentsNatural
  <2> QED BY <1>5, <2>1, ParametersPreserve
<1>6. ASSUME NEW cut \in FeeCuts, SetDelegationFeeCut(caller, p, v, cut)
      PROVE  IInv'
  <2>1. cut \in Nat
    BY ArgumentsNatural
  <2> QED BY <1>6, <2>1, SetDelegationFeeCutPreserves
<1> QED
  BY <1>1, <1>2, <1>3, <1>4, <1>5, <1>6

(* The calls of the verifier.                                              *)
LEMMA VerifierStepPreserves ==
  ASSUME IInv, NEW p \in Providers, NEW v \in Verifiers, VerifierStep(p, v)
  PROVE  IInv'
<1>1. CASE AcceptProvisionParameters(p, v)
  <2>1. 0 \in Nat
    OBVIOUS
  <2> QED BY <1>1, <2>1, ParametersPreserve
<1>2. ASSUME NEW tokens \in TokenAmounts, NEW reward \in TokenAmounts \cup {0},
             Slash(p, v, tokens, reward)
      PROVE  IInv'
  <2>1. tokens \in Nat /\ reward \in Nat
    BY ArgumentsNatural
  <2> QED BY <1>2, <2>1, SlashPreserves
<1> QED
  BY <1>1, <1>2 DEF VerifierStep, SlashStep

(* The calls of delegators.                                                *)
LEMMA DelegatorStepPreserves ==
  ASSUME IInv, NEW d \in Delegators, NEW p \in Providers, NEW v \in Verifiers,
         DelegatorStep(d, p, v)
  PROVE  IInv'
<1>1. ASSUME NEW tokens \in TokenAmounts, NEW minShares \in SlippageBounds,
             Delegate(d, p, v, tokens, minShares)
      PROVE  IInv'
  <2>1. tokens \in Nat
    BY ArgumentsNatural
  <2> QED BY <1>1, <2>1, DelegatePreserves
<1>2. ASSUME NEW shares \in ShareAmounts, Undelegate(d, p, v, shares)
      PROVE  IInv'
  <2>1. shares \in Nat
    BY ArgumentsNatural
  <2> QED BY <1>2, <2>1, UndelegatePreserves
<1>3. ASSUME NEW n \in 0 .. MaxThawRequests, WithdrawDelegated(d, p, v, n)
      PROVE  IInv'
  <2>1. n \in Nat
    BY ParametersPositive
  <2> QED BY <1>3, <2>1, WithdrawDelegatedPreserves
<1>4. ASSUME NEW n \in 0 .. MaxThawRequests, NEW newP \in Providers, NEW newV \in Verifiers,
             NEW minShares \in SlippageBounds, Redelegate(d, p, v, newP, newV, minShares, n)
      PROVE  IInv'
  <2>1. n \in Nat
    BY ParametersPositive
  <2> QED BY <1>4, <2>1, RedelegatePreserves
<1> QED
  BY <1>1, <1>2, <1>3, <1>4 DEF DelegatorStep

(* Any step.                                                               *)
LEMMA NextInvariant ==
  ASSUME IInv, [Next]_vars
  PROVE  IInv'
<1>1. CASE \E p \in Providers : StakeStep(p)
  BY <1>1, StakeStepPreserves
<1>2. CASE \E p \in Providers, v \in Verifiers : ProvisionStep(p, v)
  BY <1>2, ProvisionStepPreserves
<1>3. CASE \E p \in Providers, v \in Verifiers : VerifierStep(p, v)
  BY <1>3, VerifierStepPreserves
<1>4. CASE \E p \in Providers, v \in Verifiers, tokens \in TokenAmounts :
             AddToDelegationPool(p, v, tokens)
  BY <1>4, ArgumentsNatural, AddToDelegationPoolPreserves
<1>5. CASE \E p \in Providers, v \in Verifiers, d \in Delegators : DelegatorStep(d, p, v)
  BY <1>5, DelegatorStepPreserves
<1>6. CASE \E p \in Providers, d \in Delegators : WithdrawDelegatedLegacy(p, d)
  BY <1>6, WithdrawDelegatedLegacyPreserves
<1>7. CASE ConfigStep
  BY <1>7, ConfigPreserves
<1>8. CASE Tick
  BY <1>8, TickPreserves
<1>9. CASE UNCHANGED vars
  <2>1. UNCHANGED accountVars /\ OtherTypes'
    BY <1>9 DEF vars, accountVars, IInv, OtherTypes, configVars, tokenVars
  <2> QED BY <2>1, ConfigChange
<1> QED
  BY <1>1, <1>2, <1>3, <1>4, <1>5, <1>6, <1>7, <1>8, <1>9 DEF Next

(* The inductive invariant holds in every state of every behaviour.        *)
THEOREM Invariance == Spec => []IInv
<1>1. Init => IInv
  BY InitInvariant
<1>2. IInv /\ [Next]_vars => IInv'
  BY NextInvariant
<1> QED
  BY <1>1, <1>2, PTL DEF Spec

-----------------------------------------------------------------------------
(* The theorems: each state invariant that the runs check, for every choice*)
(* of addresses, amounts and parameters.                                   *)

(* Every variable keeps its type: in particular no subtraction of the code *)
(* underflows, for a balance below zero is not in Nat.                     *)
THEOREM TypeCorrect == Spec => []TypeOK
<1>1. IInv => TypeOK
  BY DEF IInv, TypeOK, OtherTypes, StakeSideInv, DelegationSideInv
<1> QED
  BY <1>1, Invariance, PTL

(* A provision's thawing account is sound, and its thawing shares are      *)
(* exactly those of the valid requests of its list.                        *)
THEOREM ProvisionsConsistentAlways == Spec => []ProvisionsConsistent
<1>1. IInv => ProvisionsConsistent
  BY DEF IInv, ProvisionsConsistent, StakeSideInv, ProvisionInv
<1> QED
  BY <1>1, Invariance, PTL

(* The same of a delegation pool and the lists of all its delegators.      *)
THEOREM PoolsConsistentAlways == Spec => []PoolsConsistent
<1>1. IInv => PoolsConsistent
  BY DEF IInv, PoolsConsistent, DelegationSideInv, PoolInv, HeldShares
<1> QED
  BY <1>1, Invariance, PTL

(* The shares of a pool are those of its delegators.                       *)
THEOREM PoolSharesAreDelegationsAlways == Spec => []PoolSharesAreDelegations
<1>1. IInv => PoolSharesAreDelegations
  BY DEF IInv, PoolSharesAreDelegations, DelegationSideInv, PoolInv
<1> QED
  BY <1>1, Invariance, PTL

(* A pool starts over at one token per share only when nobody has a share. *)
THEOREM StartingOverDilutesNobodyAlways == Spec => []StartingOverDilutesNobody
<1>1. IInv => StartingOverDilutesNobody
  BY DEF IInv, StartingOverDilutesNobody, DelegationSideInv, PoolInv
<1> QED
  BY <1>1, Invariance, PTL

(* All thawing accounts are consistent, for every instance.                *)
THEOREM AccountsConsistentAlways == Spec => []AccountsConsistent
<1>1. ProvisionsConsistent /\ PoolsConsistent /\ StartingOverDilutesNobody
        => AccountsConsistent
  BY DEF AccountsConsistent
<1> QED
  BY <1>1, ProvisionsConsistentAlways, PoolsConsistentAlways, StartingOverDilutesNobodyAlways,
     PTL

(* No token of stake is provisioned twice, or provisioned while locked.    *)
THEOREM StakeCoversProvisionsAlways == Spec => []StakeCoversProvisions
<1>1. IInv => StakeCoversProvisions
  BY DEF IInv, StakeCoversProvisions, StakeSideInv, StakeInv, ProvisionTokens
<1> QED
  BY <1>1, Invariance, PTL

(* The contract holds exactly what it owes to providers and delegators.    *)
THEOREM SolventAlways == Spec => []Solvent
<1>1. IInv => Solvent
  BY DEF IInv
<1> QED
  BY <1>1, Invariance, PTL

(* PausedFreezes for every instance: each call of a user reads paused.     *)
THEOREM PausedFreezesTheorem == Spec => PausedFreezes
<1>1. ASSUME Next, paused
      PROVE  UNCHANGED <<accountVars, operatorAuth, delegationFeeCut>>
  <2> USE <1>1 DEF accountVars, provisionVars, delegationVars, tokenVars
  <2>1. CASE \E p \in Providers : StakeStep(p)
    BY <2>1 DEF StakeStep, Stake, Unstake, Withdraw
  <2>2. CASE \E p \in Providers, v \in Verifiers : ProvisionStep(p, v)
    BY <2>2 DEF ProvisionStep, Provision, ProvisionLocked, CreateProvision,
                AddToProvision, StakeToProvision, Thaw, Deprovision, Reprovision,
                SetProvisionParameters, SetDelegationFeeCut
  <2>3. CASE \E p \in Providers, v \in Verifiers : VerifierStep(p, v)
    BY <2>3 DEF VerifierStep, AcceptProvisionParameters, SlashStep, Slash
  <2>4. CASE \E p \in Providers, v \in Verifiers, tokens \in TokenAmounts :
               AddToDelegationPool(p, v, tokens)
    BY <2>4 DEF AddToDelegationPool
  <2>5. CASE \E p \in Providers, v \in Verifiers, d \in Delegators :
               DelegatorStep(d, p, v)
    BY <2>5 DEF DelegatorStep, Delegate, Undelegate, WithdrawDelegated, Redelegate
  <2>6. CASE \E p \in Providers, d \in Delegators : WithdrawDelegatedLegacy(p, d)
    BY <2>6 DEF WithdrawDelegatedLegacy
  <2>7. CASE ConfigStep
    BY ZenonT(40), <2>7 DEF ConfigStep, SetOperator, SetOperatorLocked,
                SetAllowedLockedVerifier, SetDelegationSlashingEnabled,
                SetMaxThawingPeriod, SetPaused
  <2>8. CASE Tick
    BY <2>8 DEF Tick, configVars
  <2>9. QED
    BY <2>1, <2>2, <2>3, <2>4, <2>5, <2>6, <2>7, <2>8 DEF Next
<1>2. QED
  BY <1>1, PTL DEF Spec, PausedFreezes

-----------------------------------------------------------------------------
(* What a call may take from an account.  ProvisionKept and PoolKept say of*)
(* one provision and one pool what the action properties say of all; every *)
(* call but slash keeps them.  The types of the new values are known from  *)
(* the invariant of the next state.                                        *)

ProvisionKept(p, v) ==
  LeavesAtPrice(provisions[p][v], provisions'[p][v], ExpiredOfProvision(p, v))

PoolKept(p, v) ==
  /\ SharesKeepValue(pools[p][v], pools'[p][v])
  /\ LeavesAtPrice(pools[p][v], pools'[p][v], ExpiredOfPool(p, v))

AllKept == \A p \in Providers, v \in Verifiers : ProvisionKept(p, v) /\ PoolKept(p, v)

(* The expired shares are numbers.                                         *)
LEMMA ExpiredFacts ==
  ASSUME IInv, NEW p \in Providers, NEW v \in Verifiers
  PROVE  /\ ExpiredOfProvision(p, v) \in Nat
         /\ ExpiredOfPool(p, v) \in Nat
         /\ ExpiredOfPool(p, v) =
              HeldExpired(delegationRequests[p][v], pools[p][v].thawingNonce, now)
<1>1. ExpiredOfProvision(p, v) \in Nat
  BY ProvisionFacts, ExpiredTypes DEF ExpiredOfProvision
<1>2. ExpiredOfPool(p, v) =
        HeldExpired(delegationRequests[p][v], pools[p][v].thawingNonce, now)
  BY DEF ExpiredOfPool, HeldExpired
<1>3. HeldExpired(delegationRequests[p][v], pools[p][v].thawingNonce, now) \in Nat
  BY PoolFacts, ExpiredTypes
<1> QED
  BY <1>1, <1>2, <1>3

(* A provision that loses no token.                                        *)
LEMMA ProvisionGainsKept ==
  ASSUME IInv, IInv', NEW p \in Providers, NEW v \in Verifiers,
         provisions[p][v].tokens <= provisions'[p][v].tokens
  PROVE  ProvisionKept(p, v)
<1>1. provisions[p][v] \in ProvisionType /\ provisions'[p][v] \in ProvisionType
  BY DEF IInv, StakeSideInv
<1> QED
  BY <1>1, ExpiredFacts, NothingLeaves DEF ProvisionKept

(* A provision, or a pool, that a call leaves alone.                       *)
LEMMA ProvisionUntouched ==
  ASSUME IInv, NEW p \in Providers, NEW v \in Verifiers,
         provisions'[p][v] = provisions[p][v]
  PROVE  ProvisionKept(p, v)
<1>1. provisions[p][v] \in ProvisionType /\ provisions[p][v].tokens \in Nat
  BY ProvisionFacts
<1>2. provisions[p][v].tokens <= provisions[p][v].tokens
  BY <1>1
<1> QED
  BY <1>1, <1>2, ExpiredFacts, NothingLeaves DEF ProvisionKept

LEMMA PoolUntouched ==
  ASSUME IInv, NEW p \in Providers, NEW v \in Verifiers, pools'[p][v] = pools[p][v]
  PROVE  PoolKept(p, v)
<1>1. pools[p][v] \in DelegationPoolType /\ pools[p][v].tokens \in Nat
  BY PoolFacts
<1>2. pools[p][v].tokens <= pools[p][v].tokens
  BY <1>1
<1>3. LeavesAtPrice(pools[p][v], pools[p][v], ExpiredOfPool(p, v))
  BY <1>1, <1>2, ExpiredFacts, NothingLeaves
<1>4. SharesKeepValue(pools[p][v], pools[p][v])
  BY <1>1, ValueUnchanged
<1> QED
  BY <1>3, <1>4 DEF PoolKept

(* Calls that leave all of them alone.                                     *)
LEMMA AllUntouched ==
  ASSUME IInv, provisions' = provisions, pools' = pools
  PROVE  AllKept
BY ProvisionUntouched, PoolUntouched DEF AllKept

(* A call that changes one provision, or one pool.                         *)
LEMMA OneProvisionKept ==
  ASSUME IInv, NEW p \in Providers, NEW v \in Verifiers, NEW prov,
         provisions' = [provisions EXCEPT ![p][v] = prov],
         ProvisionKept(p, v), pools' = pools
  PROVE  AllKept
<1>1. provisions \in [Providers -> [Verifiers -> ProvisionType]]
  BY DEF IInv, StakeSideInv
<1>2. ASSUME NEW q \in Providers, NEW w \in Verifiers  PROVE ProvisionKept(q, w)
  <2>1. CASE q = p /\ w = v
    BY <2>1
  <2>2. CASE ~(q = p /\ w = v)
    <3>1. provisions'[q][w] = provisions[q][w]
      BY <1>1, <2>2
    <3> QED BY <3>1, ProvisionUntouched
  <2> QED BY <2>1, <2>2
<1> QED
  BY <1>2, PoolUntouched DEF AllKept

LEMMA OnePoolKept ==
  ASSUME IInv, NEW p \in Providers, NEW v \in Verifiers, NEW pool,
         pools' = [pools EXCEPT ![p][v] = pool],
         PoolKept(p, v), provisions' = provisions
  PROVE  AllKept
<1>1. pools \in [Providers -> [Verifiers -> DelegationPoolType]]
  BY DEF IInv, DelegationSideInv
<1>2. ASSUME NEW q \in Providers, NEW w \in Verifiers  PROVE PoolKept(q, w)
  <2>1. CASE q = p /\ w = v
    BY <2>1
  <2>2. CASE ~(q = p /\ w = v)
    <3>1. pools'[q][w] = pools[q][w]
      BY <1>1, <2>2
    <3> QED BY <3>1, PoolUntouched
  <2> QED BY <2>1, <2>2
<1> QED
  BY <1>2, ProvisionUntouched DEF AllKept

(* provision, addToProvision, stakeToProvision, thaw and the parameters:   *)
(* no token leaves the provision.                                          *)
LEMMA ProvisionGrows ==
  ASSUME IInv, IInv', NEW caller, NEW p \in Providers, NEW v \in Verifiers,
         NEW tokens \in Nat, NEW cut, NEW period,
         \/ CreateProvision(p, v, tokens, cut, period)
         \/ AddToProvision(caller, p, v, tokens)
         \/ StakeToProvision(caller, p, v, tokens)
         \/ Thaw(caller, p, v, tokens)
         \/ SetProvisionParameters(caller, p, v, cut, period)
         \/ AcceptProvisionParameters(p, v)
  PROVE  AllKept
<1> DEFINE old == provisions[p][v]
<1>1. /\ provisions \in [Providers -> [Verifiers -> ProvisionType]]
      /\ old \in ProvisionType /\ old.tokens \in Nat
  BY ProvisionFacts DEF IInv, StakeSideInv
<1>2. pools' = pools
  BY DEF CreateProvision, AddToProvision, StakeToProvision, Thaw, SetProvisionParameters,
         AcceptProvisionParameters, delegationVars
<1> DEFINE Grown(prov) == /\ provisions' = [provisions EXCEPT ![p][v] = prov]
                          /\ old.tokens <= prov.tokens
<1>3. PICK prov : Grown(prov)
  <2>1. CASE CreateProvision(p, v, tokens, cut, period)
    <3>1. old.tokens = 0
      BY <2>1, ProvisionFacts DEF CreateProvision, ProvisionInv
    <3>2. NewProvision(tokens, cut, period).tokens = tokens
      BY DEF NewProvision
    <3>3. Grown(NewProvision(tokens, cut, period))
      BY <2>1, <3>1, <3>2 DEF CreateProvision
    <3> HIDE DEF Grown
    <3> QED BY <3>3
  <2>2. CASE AddToProvision(caller, p, v, tokens) \/ StakeToProvision(caller, p, v, tokens)
    <3> DEFINE new == [old EXCEPT !.tokens = @ + tokens]
    <3>1. provisions' = [provisions EXCEPT ![p][v] = new]
      BY <2>2 DEF AddToProvision, StakeToProvision
    <3>2. new.tokens = old.tokens + tokens
      BY <1>1 DEF ProvisionType
    <3>3. Grown(new)
      BY <1>1, <3>1, <3>2
    <3> HIDE DEF Grown, new
    <3> QED BY <3>3
  <2>3. CASE Thaw(caller, p, v, tokens)
    <3> DEFINE new == StartThawing(old, tokens, ThawingSharesRoundUp(old, tokens))
    <3>1. provisions' = [provisions EXCEPT ![p][v] = new]
      BY <2>3 DEF Thaw
    <3>2. new.tokens = old.tokens
      BY <1>1 DEF ProvisionType, StartThawing
    <3>3. Grown(new)
      BY <1>1, <3>1, <3>2
    <3> HIDE DEF Grown, new
    <3> QED BY <3>3
  <2>4. CASE SetProvisionParameters(caller, p, v, cut, period)
    <3> DEFINE new == [old EXCEPT !.maxVerifierCutPending = cut,
                                  !.thawingPeriodPending = period]
    <3>1. provisions' = [provisions EXCEPT ![p][v] = new]
      BY <2>4 DEF SetProvisionParameters
    <3>2. new.tokens = old.tokens
      BY <1>1 DEF ProvisionType
    <3>3. Grown(new)
      BY <1>1, <3>1, <3>2
    <3> HIDE DEF Grown, new
    <3> QED BY <3>3
  <2>5. CASE AcceptProvisionParameters(p, v)
    <3> DEFINE new == [old EXCEPT !.maxVerifierCut = old.maxVerifierCutPending,
                                  !.thawingPeriod = old.thawingPeriodPending]
    <3>1. provisions' = [provisions EXCEPT ![p][v] = new]
      BY <2>5 DEF AcceptProvisionParameters
    <3>2. new.tokens = old.tokens
      BY <1>1 DEF ProvisionType
    <3>3. Grown(new)
      BY <1>1, <3>1, <3>2
    <3> HIDE DEF Grown, new
    <3> QED BY <3>3
  <2> QED BY <2>1, <2>2, <2>3, <2>4, <2>5
<1>4. provisions'[p][v] = prov
  BY <1>1, <1>3
<1>5. ProvisionKept(p, v)
  BY <1>3, <1>4, ProvisionGainsKept
<1> QED
  BY <1>2, <1>3, <1>5, OneProvisionKept

(* deprovision.                                                            *)
LEMMA DeprovisionKeeps ==
  ASSUME IInv, NEW caller, NEW p \in Providers, NEW v \in Verifiers, NEW n \in Nat,
         Deprovision(caller, p, v, n)
  PROVE  AllKept
<1> DEFINE reqs == provisionRequests[p][v]
           prov == ReleaseThawed(provisions[p][v],
                                 FulfillThawRequests(provisions[p][v], reqs, n, now))
<1>1. /\ provisions' = [provisions EXCEPT ![p][v] = prov]
      /\ pools' = pools
      /\ reqs # <<>> /\ n <= Len(reqs)
  BY DEF Deprovision, CanFulfillThawRequests, delegationVars
<1>2. provisions[p][v].created
  BY <1>1, ProvisionFacts DEF ProvisionInv
<1>3. LeavesAtPrice(provisions[p][v], prov, ExpiredOfProvision(p, v))
  BY <1>1, <1>2, StakeFacts, ProvisionFacts, ProvisionReleasesAtPrice DEF ExpiredOfProvision
<1> HIDE DEF prov
<1>4. provisions'[p][v] = prov
  BY <1>1 DEF IInv, StakeSideInv
<1>5. ProvisionKept(p, v)
  BY <1>3, <1>4 DEF ProvisionKept
<1> QED
  BY <1>1, <1>5, OneProvisionKept

(* reprovision: the same, and the other provision gains what was released; *)
(* if it is the same one, nothing leaves it.                               *)
LEMMA ReprovisionKeeps ==
  ASSUME IInv, IInv', NEW caller, NEW p \in Providers, NEW old \in Verifiers,
         NEW new \in Verifiers, NEW n \in Nat, Reprovision(caller, p, old, new, n)
  PROVE  AllKept
<1> DEFINE reqs   == provisionRequests[p][old]
           result == FulfillThawRequests(provisions[p][old], reqs, n, now)
           tokens == result.tokensThawed
           prov   == ReleaseThawed(provisions[p][old], result)
           provs2 == [provisions EXCEPT ![p][old] = prov]
<1>1. /\ provisions' = [provs2 EXCEPT ![p][new].tokens = @ + tokens]
      /\ pools' = pools
      /\ reqs # <<>> /\ n <= Len(reqs)
  BY DEF Reprovision, CanFulfillThawRequests, delegationVars
<1>2. provisions[p][old].created
  BY <1>1, ProvisionFacts DEF ProvisionInv
<1>3. LeavesAtPrice(provisions[p][old], prov, ExpiredOfProvision(p, old))
  BY <1>1, <1>2, StakeFacts, ProvisionFacts, ProvisionReleasesAtPrice DEF ExpiredOfProvision
<1>4. /\ tokens \in Nat /\ prov \in ProvisionType
      /\ prov.tokens = provisions[p][old].tokens - tokens
  BY <1>1, <1>2, StakeFacts, ProvisionFacts, ProvisionReleases DEF ProvisionInv
<1> HIDE DEF tokens, prov
<1>5. provisions \in [Providers -> [Verifiers -> ProvisionType]]
  BY DEF IInv, StakeSideInv
<1>6. provs2 \in [Providers -> [Verifiers -> ProvisionType]] /\ provs2[p][old] = prov
      /\ \A q \in Providers, w \in Verifiers :
           ~(q = p /\ w = old) => provs2[q][w] = provisions[q][w]
  BY <1>4, <1>5
<1> HIDE DEF provs2
<1>7. /\ provisions'[p][new].tokens = provs2[p][new].tokens + tokens
      /\ \A q \in Providers, w \in Verifiers :
           ~(q = p /\ w = new) => provisions'[q][w] = provs2[q][w]
  BY <1>1, <1>6 DEF ProvisionType
<1>8. ASSUME NEW q \in Providers, NEW w \in Verifiers  PROVE ProvisionKept(q, w)
  <2>1. CASE q = p /\ w = new
    <3>1. provisions[p][new].tokens <= provisions'[p][new].tokens
      <4>1. provisions[p][new].tokens \in Nat /\ provs2[p][new].tokens \in Nat
        BY <1>5, <1>6 DEF ProvisionType
      <4>2. CASE new = old
        BY <1>4, <1>6, <1>7, <4>1, <4>2
      <4>3. CASE new # old
        BY <1>4, <1>6, <1>7, <4>1, <4>3
      <4> QED BY <4>2, <4>3
    <3> QED BY <2>1, <3>1, ProvisionGainsKept
  <2>2. CASE q = p /\ w = old /\ new # old
    <3>1. provisions'[p][old] = prov
      BY <1>6, <1>7, <2>2
    <3> QED BY <1>3, <2>2, <3>1 DEF ProvisionKept
  <2>3. CASE ~(q = p /\ w = new) /\ ~(q = p /\ w = old)
    <3>1. provisions'[q][w] = provisions[q][w]
      BY <1>6, <1>7, <2>3
    <3> QED BY <3>1, ProvisionUntouched
  <2> QED BY <2>1, <2>2, <2>3
<1> QED
  BY <1>1, <1>8, PoolUntouched DEF AllKept

(* A pool that loses no token and whose shares keep their value.           *)
LEMMA PoolGainsKept ==
  ASSUME IInv, IInv', NEW p \in Providers, NEW v \in Verifiers, NEW pool,
         pools' = [pools EXCEPT ![p][v] = pool], provisions' = provisions,
         SharesKeepValue(pools[p][v], pool), pools[p][v].tokens <= pool.tokens
  PROVE  AllKept
<1>1. pools'[p][v] = pool
  BY PoolFacts
<1>2. pool \in DelegationPoolType
  BY <1>1 DEF IInv, DelegationSideInv
<1>3. PoolKept(p, v)
  BY <1>1, <1>2, PoolFacts, ExpiredFacts, NothingLeaves DEF PoolKept
<1> QED
  BY <1>3, OnePoolKept

(* delegate, addToDelegationPool and undelegate.                           *)
LEMMA DelegateKeeps ==
  ASSUME IInv, IInv', NEW d \in Delegators, NEW p \in Providers, NEW v \in Verifiers,
         NEW tokens \in Nat, NEW minShares, Delegate(d, p, v, tokens, minShares)
  PROVE  AllKept
<1> DEFINE pool == AddDelegation(pools[p][v], tokens)
<1>1. /\ pools' = [pools EXCEPT ![p][v] = pool] /\ provisions' = provisions
      /\ tokens # 0 /\ IsValidPool(pools[p][v])
  BY DEF Delegate, CanDelegate, provisionVars
<1>2. SharesKeepValue(pools[p][v], pool)
  BY <1>1, PoolFacts, PoolDelegatesAtPrice
<1>3. pools[p][v].tokens <= pool.tokens
  <2>1. pool.tokens = pools[p][v].tokens + tokens
    BY PoolFacts DEF AddDelegation, DelegationPoolType
  <2> QED BY <2>1, PoolFacts
<1> HIDE DEF pool
<1> QED
  BY <1>1, <1>2, <1>3, PoolGainsKept

LEMMA AddToDelegationPoolKeeps ==
  ASSUME IInv, IInv', NEW p \in Providers, NEW v \in Verifiers, NEW tokens \in Nat,
         AddToDelegationPool(p, v, tokens)
  PROVE  AllKept
<1> DEFINE pool == [pools[p][v] EXCEPT !.tokens = @ + tokens]
<1>1. pools' = [pools EXCEPT ![p][v] = pool] /\ provisions' = provisions
  BY DEF AddToDelegationPool, provisionVars
<1>2. SharesKeepValue(pools[p][v], pool)
  BY PoolFacts, PoolGainsValue
<1>3. pools[p][v].tokens <= pool.tokens
  <2>1. pool.tokens = pools[p][v].tokens + tokens
    BY PoolFacts DEF DelegationPoolType
  <2> QED BY <2>1, PoolFacts
<1> HIDE DEF pool
<1> QED
  BY <1>1, <1>2, <1>3, PoolGainsKept

LEMMA UndelegateKeeps ==
  ASSUME IInv, IInv', NEW d \in Delegators, NEW p \in Providers, NEW v \in Verifiers,
         NEW shares \in Nat, Undelegate(d, p, v, shares)
  PROVE  AllKept
<1> DEFINE tokens == (shares * TokensAvailable(pools[p][v])) \div pools[p][v].shares
           pool   == UndelegatedPool(pools[p][v], shares, tokens)
<1>1. /\ pools' = [pools EXCEPT ![p][v] = pool] /\ provisions' = provisions
      /\ shares > 0 /\ delegations[p][v][d] >= shares
  BY DEF Undelegate, provisionVars
<1>2. SharesKeepValue(pools[p][v], pool)
  <2>1. shares \in Nat \ {0} /\ shares <= delegations[p][v][d]
    BY <1>1, PoolFacts
  <2> QED BY <2>1, PoolFacts, PoolUndelegatesAtPrice
<1>3. pools[p][v].tokens <= pool.tokens
  <2>1. pool.tokens = pools[p][v].tokens
    BY PoolFacts DEF UndelegatedPool, StartThawing, DelegationPoolType
  <2> QED BY <2>1, PoolFacts
<1> HIDE DEF pool
<1> QED
  BY <1>1, <1>2, <1>3, PoolGainsKept

(* What thaw requests release from a pool.                                 *)
LEMMA ReleasedPool ==
  ASSUME IInv, NEW d \in Delegators, NEW p \in Providers, NEW v \in Verifiers, NEW n \in Nat,
         IsValidPool(pools[p][v]), n <= Len(delegationRequests[p][v][d])
  PROVE  LET old    == pools[p][v]
             result == FulfillThawRequests(old, delegationRequests[p][v][d], n, now)
             pool   == ReleaseThawed(old, result)
         IN  /\ pool \in DelegationPoolType
             /\ \E dels, waiting : PoolInv(pool, dels, waiting)
             /\ result.tokensThawed \in Nat
             /\ pool.tokens = old.tokens - result.tokensThawed
             /\ TokensAvailable(pool) = TokensAvailable(old)
             /\ pool.shares = old.shares
             /\ SharesKeepValue(old, pool)
             /\ LeavesAtPrice(old, pool, ExpiredOfPool(p, v))
<1>1. PICK old, ds, ls : /\ old = pools[p][v]
                         /\ ds = delegations[p][v]
                         /\ ls = delegationRequests[p][v]
  OBVIOUS
<1>2. /\ old \in DelegationPoolType /\ PoolInv(old, ds, ls)
      /\ IsValidPool(old) /\ n <= Len(ls[d]) /\ now \in Nat
  BY <1>1, PoolFacts, StakeFacts
<1> DEFINE result == FulfillThawRequests(old, ls[d], n, now)
           pool   == ReleaseThawed(old, result)
           rest   == [ls EXCEPT ![d] = RemainingRequests(@, n, now)]
<1>3. /\ SharesKeepValue(old, pool)
      /\ TokensAvailable(pool) = TokensAvailable(old)
      /\ pool.shares = old.shares
      /\ LeavesAtPrice(old, pool, HeldExpired(ls, old.thawingNonce, now))
  BY ONLY d \in Delegators, n \in Nat, <1>2, PoolReleasesAtPrice
<1>4. /\ PoolInv(pool, ds, rest)
      /\ result.tokensThawed \in Nat
      /\ pool.tokens = old.tokens - result.tokensThawed
  BY ONLY d \in Delegators, n \in Nat, <1>2, PoolReleases
<1>5. /\ result = FulfillThawRequests(pools[p][v], delegationRequests[p][v][d], n, now)
      /\ pool = ReleaseThawed(pools[p][v], result)
  BY <1>1
<1> HIDE DEF result, pool, rest
<1>6. pool \in DelegationPoolType
  BY <1>4 DEF PoolInv
<1>7. \E dels, waiting : PoolInv(pool, dels, waiting)
  BY <1>4
<1>8. ExpiredOfPool(p, v) = HeldExpired(ls, old.thawingNonce, now)
  BY <1>1, ExpiredFacts
<1> QED
  BY <1>1, <1>3, <1>4, <1>5, <1>6, <1>7, <1>8

(* withdrawDelegated.                                                      *)
LEMMA WithdrawDelegatedKeeps ==
  ASSUME IInv, NEW d \in Delegators, NEW p \in Providers, NEW v \in Verifiers,
         NEW n \in Nat, WithdrawDelegated(d, p, v, n)
  PROVE  AllKept
<1> DEFINE result == FulfillThawRequests(pools[p][v], delegationRequests[p][v][d], n, now)
           pool   == ReleaseThawed(pools[p][v], result)
<1>1. /\ pools' = [pools EXCEPT ![p][v] = pool] /\ provisions' = provisions
      /\ IsValidPool(pools[p][v])
      /\ n <= Len(delegationRequests[p][v][d])
  BY DEF WithdrawDelegated, CanFulfillThawRequests, provisionVars
<1>2. /\ SharesKeepValue(pools[p][v], pool)
      /\ LeavesAtPrice(pools[p][v], pool, ExpiredOfPool(p, v))
  BY <1>1, ReleasedPool
<1> HIDE DEF pool
<1>3. pools'[p][v] = pool
  BY <1>1, PoolFacts
<1>4. PoolKept(p, v)
  BY <1>2, <1>3 DEF PoolKept
<1> QED
  BY <1>1, <1>4, OnePoolKept

(* A pool from which tokens were released, and to which they are delegated *)
(* again, is worth to everybody what it was worth before.                  *)
LEMMA ReleasedThenDelegated ==
  ASSUME NEW old \in DelegationPoolType, NEW pool \in DelegationPoolType,
         NEW dels, NEW waiting, PoolInv(pool, dels, waiting),
         NEW tokens \in Nat \ {0}, IsValidPool(pool),
         SharesKeepValue(old, pool),
         TokensAvailable(pool) = TokensAvailable(old), pool.shares = old.shares
  PROVE  SharesKeepValue(old, AddDelegation(pool, tokens))
<1> DEFINE new == AddDelegation(pool, tokens)
<1>1. SharesKeepValue(pool, new)
  BY PoolDelegatesAtPrice
<1>2. new.tokensThawing = pool.tokensThawing /\ new.sharesThawing = pool.sharesThawing
  BY DEF AddDelegation, DelegationPoolType
<1> HIDE DEF new
<1> QED
  BY <1>1, <1>2 DEF SharesKeepValue, new

(* redelegate: tokens leave one pool as in a withdrawal, and enter another *)
(* one, or the same, as in a delegation.                                   *)
LEMMA RedelegateKeeps ==
  ASSUME IInv, IInv', NEW d \in Delegators, NEW p \in Providers, NEW v \in Verifiers,
         NEW newP \in Providers, NEW newV \in Verifiers, NEW minShares,
         NEW n \in Nat, Redelegate(d, p, v, newP, newV, minShares, n)
  PROVE  AllKept
<1> DEFINE result == FulfillThawRequests(pools[p][v], delegationRequests[p][v][d], n, now)
           tokens == result.tokensThawed
           pool   == ReleaseThawed(pools[p][v], result)
           pls2   == [pools EXCEPT ![p][v] = pool]
           pool2  == AddDelegation(pls2[newP][newV], tokens)
<1>1. /\ provisions' = provisions
      /\ IsValidPool(pools[p][v])
      /\ n <= Len(delegationRequests[p][v][d])
  BY DEF Redelegate, CanFulfillThawRequests, provisionVars
<1>2. \/ pools' = pls2
      \/ /\ tokens # 0
         /\ IsValidPool(pls2[newP][newV])
         /\ pools' = [pls2 EXCEPT ![newP][newV] = pool2]
  BY DEF Redelegate, CanDelegate
<1>3. /\ pool \in DelegationPoolType
      /\ \E dels, waiting : PoolInv(pool, dels, waiting)
      /\ tokens \in Nat
      /\ pool.tokens = pools[p][v].tokens - tokens
      /\ TokensAvailable(pool) = TokensAvailable(pools[p][v])
      /\ pool.shares = pools[p][v].shares
      /\ SharesKeepValue(pools[p][v], pool)
      /\ LeavesAtPrice(pools[p][v], pool, ExpiredOfPool(p, v))
  BY <1>1, ReleasedPool
<1> HIDE DEF tokens, pool
<1>4. pools \in [Providers -> [Verifiers -> DelegationPoolType]]
  BY DEF IInv, DelegationSideInv
<1>5. CASE pools' = pls2
  <2>1. pools'[p][v] = pool
    BY <1>4, <1>5
  <2>2. PoolKept(p, v)
    BY <1>3, <2>1 DEF PoolKept
  <2> QED BY <1>1, <1>5, <2>2, OnePoolKept
<1>6. CASE /\ tokens # 0
           /\ IsValidPool(pls2[newP][newV])
           /\ pools' = [pls2 EXCEPT ![newP][newV] = pool2]
  <2>1. /\ pls2 \in [Providers -> [Verifiers -> DelegationPoolType]]
        /\ pls2[p][v] = pool
        /\ \A q \in Providers, w \in Verifiers :
             ~(q = p /\ w = v) => pls2[q][w] = pools[q][w]
    BY <1>3, <1>4
  <2>2. pool2.tokens = pls2[newP][newV].tokens + tokens
    BY <2>1 DEF AddDelegation, DelegationPoolType
  <2> HIDE DEF pls2
  <2>3. /\ pools'[newP][newV] = pool2
        /\ \A q \in Providers, w \in Verifiers :
             ~(q = newP /\ w = newV) => pools'[q][w] = pls2[q][w]
    BY <1>6, <2>1
  <2>4. tokens \in Nat \ {0}
    BY <1>3, <1>6
  <2>5. SharesKeepValue(pools[newP][newV], pool2)
        /\ pools[newP][newV].tokens <= pool2.tokens
    <3>1. CASE newP = p /\ newV = v
      <4>1. PICK dels, waiting : PoolInv(pool, dels, waiting)
        BY <1>3
      <4>2. IsValidPool(pool) /\ pools[p][v] \in DelegationPoolType
        BY <1>6, <2>1, <3>1, PoolFacts
      <4>3. SharesKeepValue(pools[p][v], AddDelegation(pool, tokens))
        BY <1>3, <2>4, <4>1, <4>2, ReleasedThenDelegated
      <4>4. pool2 = AddDelegation(pool, tokens) /\ pool2.tokens = pool.tokens + tokens
        BY <2>1, <2>2, <3>1
      <4>5. pools[p][v].tokens <= pool2.tokens
        BY <1>3, <2>4, <4>4, PoolFacts
      <4> QED BY <3>1, <4>3, <4>4, <4>5
    <3>2. CASE ~(newP = p /\ newV = v)
      <4>1. pls2[newP][newV] = pools[newP][newV]
        BY <2>1, <3>2
      <4>2. SharesKeepValue(pools[newP][newV], pool2)
        BY <1>6, <2>4, <4>1, PoolFacts, PoolDelegatesAtPrice
      <4>3. pools[newP][newV].tokens <= pool2.tokens
        BY <2>2, <2>4, <4>1, PoolFacts
      <4> QED BY <4>2, <4>3
    <3> QED BY <3>1, <3>2
  <2> HIDE DEF pool2
  <2>6. pool2 \in DelegationPoolType
    BY <2>3 DEF IInv, DelegationSideInv
  <2>7. ASSUME NEW q \in Providers, NEW w \in Verifiers  PROVE PoolKept(q, w)
    <3>1. CASE q = newP /\ w = newV
      <4>1. LeavesAtPrice(pools[newP][newV], pool2, ExpiredOfPool(newP, newV))
        BY <2>5, <2>6, PoolFacts, ExpiredFacts, NothingLeaves
      <4> QED BY <2>3, <2>5, <3>1, <4>1 DEF PoolKept
    <3>2. CASE q = p /\ w = v /\ ~(q = newP /\ w = newV)
      <4>1. pools'[p][v] = pool
        BY <2>1, <2>3, <3>2
      <4> QED BY <1>3, <3>2, <4>1 DEF PoolKept
    <3>3. CASE ~(q = p /\ w = v) /\ ~(q = newP /\ w = newV)
      <4>1. pools'[q][w] = pools[q][w]
        BY <2>1, <2>3, <3>3
      <4> QED BY <4>1, PoolUntouched
    <3> QED BY <3>1, <3>2, <3>3
  <2> QED BY <1>1, <2>7, ProvisionUntouched DEF AllKept
<1> QED
  BY <1>2, <1>5, <1>6

(* slash: it changes one provision, and its pool only if delegations are   *)
(* slashed.                                                                *)
LEMMA SlashKeeps ==
  ASSUME IInv, NEW p \in Providers, NEW v \in Verifiers, SlashStep(p, v)
  PROVE  \A q \in Providers, w \in Verifiers :
           /\ ProvisionKept(q, w) \/ SlashStep(q, w)
           /\ PoolKept(q, w) \/ DelegatorsSlashed(q, w)
<1>1. PICK tokens \in TokenAmounts, reward \in TokenAmounts \cup {0} :
        Slash(p, v, tokens, reward)
  BY DEF SlashStep
<1>2. PICK prov, x : /\ provisions' = [provisions EXCEPT ![p][v] = prov]
                     /\ pools' = [pools EXCEPT ![p][v] = SlashAccount(@, x)]
                     /\ ~delegationSlashingEnabled => x = 0
  BY <1>1 DEF Slash
<1>3. /\ provisions \in [Providers -> [Verifiers -> ProvisionType]]
      /\ pools \in [Providers -> [Verifiers -> DelegationPoolType]]
  BY DEF IInv, StakeSideInv, DelegationSideInv
<1> SUFFICES ASSUME NEW q \in Providers, NEW w \in Verifiers
             PROVE  /\ ProvisionKept(q, w) \/ SlashStep(q, w)
                    /\ PoolKept(q, w) \/ DelegatorsSlashed(q, w)
  OBVIOUS
<1>4. CASE q = p /\ w = v
  <2>1. CASE delegationSlashingEnabled
    BY <1>4, <2>1 DEF DelegatorsSlashed
  <2>2. CASE ~delegationSlashingEnabled
    <3>1. pools'[p][v] = pools[p][v]
      BY <1>2, <1>3, <2>2 DEF SlashAccount
    <3> QED BY <1>4, <3>1, PoolUntouched
  <2> QED BY <2>1, <2>2
<1>5. CASE ~(q = p /\ w = v)
  <2>1. provisions'[q][w] = provisions[q][w] /\ pools'[q][w] = pools[q][w]
    BY <1>2, <1>3, <1>5
  <2> QED BY <2>1, ProvisionUntouched, PoolUntouched
<1> QED
  BY <1>4, <1>5

(* Any step.                                                               *)
LEMMA NextKeeps ==
  ASSUME IInv, IInv', [Next]_vars
  PROVE  \A q \in Providers, w \in Verifiers :
           /\ ProvisionKept(q, w) \/ SlashStep(q, w)
           /\ PoolKept(q, w) \/ DelegatorsSlashed(q, w)
<1>0. SUFFICES AllKept \/ \E p \in Providers, v \in Verifiers : SlashStep(p, v)
  BY SlashKeeps DEF AllKept
<1>1. CASE \E p \in Providers : StakeStep(p)
  <2>1. provisions' = provisions /\ pools' = pools
    BY <1>1 DEF StakeStep, Stake, Unstake, Withdraw, delegationVars
  <2> QED BY <2>1, AllUntouched
<1>2. ASSUME NEW p \in Providers, NEW v \in Verifiers, ProvisionStep(p, v)
      PROVE  AllKept
  <2>1. PICK caller \in Callers :
          \/ \E tokens \in TokenAmounts :
               \/ \E cut \in Cuts, period \in Periods :
                    \/ Provision(caller, p, v, tokens, cut, period)
                    \/ ProvisionLocked(caller, p, v, tokens, cut, period)
               \/ AddToProvision(caller, p, v, tokens)
               \/ StakeToProvision(caller, p, v, tokens)
               \/ Thaw(caller, p, v, tokens)
          \/ \E n \in 0 .. MaxThawRequests :
               \/ Deprovision(caller, p, v, n)
               \/ \E new \in Verifiers : Reprovision(caller, p, v, new, n)
          \/ \E cut \in Cuts, period \in Periods :
               SetProvisionParameters(caller, p, v, cut, period)
          \/ \E cut \in FeeCuts : SetDelegationFeeCut(caller, p, v, cut)
    BY <1>2, Zenon DEF ProvisionStep
  <2>2. ASSUME NEW tokens \in TokenAmounts, NEW cut \in Cuts, NEW period \in Periods,
               \/ Provision(caller, p, v, tokens, cut, period)
               \/ ProvisionLocked(caller, p, v, tokens, cut, period)
        PROVE  AllKept
    <3>1. CreateProvision(p, v, tokens, cut, period)
      BY <2>2 DEF Provision, ProvisionLocked
    <3> QED BY <3>1, ArgumentsNatural, ProvisionGrows
  <2>3. ASSUME NEW tokens \in TokenAmounts,
               \/ AddToProvision(caller, p, v, tokens)
               \/ StakeToProvision(caller, p, v, tokens)
               \/ Thaw(caller, p, v, tokens)
        PROVE  AllKept
    BY <2>3, ArgumentsNatural, ProvisionGrows
  <2>4. ASSUME NEW n \in 0 .. MaxThawRequests,
               \/ Deprovision(caller, p, v, n)
               \/ \E new \in Verifiers : Reprovision(caller, p, v, new, n)
        PROVE  AllKept
    <3>1. n \in Nat
      BY ParametersPositive
    <3> QED BY <2>4, <3>1, DeprovisionKeeps, ReprovisionKeeps
  <2>5. ASSUME NEW cut \in Cuts, NEW period \in Periods,
               SetProvisionParameters(caller, p, v, cut, period)
        PROVE  AllKept
    <3>1. 0 \in Nat
      OBVIOUS
    <3> QED BY <2>5, <3>1, ProvisionGrows
  <2>6. ASSUME NEW cut \in FeeCuts, SetDelegationFeeCut(caller, p, v, cut)
        PROVE  AllKept
    <3>1. provisions' = provisions /\ pools' = pools
      BY <2>6 DEF SetDelegationFeeCut, provisionVars, delegationVars
    <3> QED BY <3>1, AllUntouched
  <2> QED BY <2>1, <2>2, <2>3, <2>4, <2>5, <2>6
<1>3. ASSUME NEW p \in Providers, NEW v \in Verifiers, AcceptProvisionParameters(p, v)
      PROVE  AllKept
  <2>1. 0 \in Nat
    OBVIOUS
  <2> QED BY <1>3, <2>1, ProvisionGrows
<1>4. CASE \E p \in Providers, v \in Verifiers, tokens \in TokenAmounts :
             AddToDelegationPool(p, v, tokens)
  BY <1>4, ArgumentsNatural, AddToDelegationPoolKeeps
<1>5. ASSUME NEW d \in Delegators, NEW p \in Providers, NEW v \in Verifiers,
             DelegatorStep(d, p, v)
      PROVE  AllKept
  <2>1. ASSUME NEW tokens \in TokenAmounts, NEW minShares \in SlippageBounds,
               Delegate(d, p, v, tokens, minShares)
        PROVE  AllKept
    BY <2>1, ArgumentsNatural, DelegateKeeps
  <2>2. ASSUME NEW shares \in ShareAmounts, Undelegate(d, p, v, shares)
        PROVE  AllKept
    BY <2>2, ArgumentsNatural, UndelegateKeeps
  <2>3. ASSUME NEW n \in 0 .. MaxThawRequests, WithdrawDelegated(d, p, v, n)
        PROVE  AllKept
    <3>1. n \in Nat
      BY ParametersPositive
    <3> QED BY <2>3, <3>1, WithdrawDelegatedKeeps
  <2>4. ASSUME NEW n \in 0 .. MaxThawRequests, NEW newP \in Providers,
               NEW newV \in Verifiers, NEW minShares \in SlippageBounds,
               Redelegate(d, p, v, newP, newV, minShares, n)
        PROVE  AllKept
    <3>1. n \in Nat
      BY ParametersPositive
    <3> QED BY <2>4, <3>1, RedelegateKeeps
  <2> QED BY <1>5, <2>1, <2>2, <2>3, <2>4 DEF DelegatorStep
<1>6. CASE \/ \E p \in Providers, d \in Delegators : WithdrawDelegatedLegacy(p, d)
           \/ ConfigStep \/ Tick \/ UNCHANGED vars
  <2>1. CASE \E p \in Providers, d \in Delegators : WithdrawDelegatedLegacy(p, d)
    BY <2>1, AllUntouched DEF WithdrawDelegatedLegacy, provisionVars, delegationVars
  <2>2. CASE ConfigStep
    <3>1. UNCHANGED accountVars
      BY ZenonT(40), <2>2 DEF ConfigStep, SetOperator, SetOperatorLocked,
                  SetAllowedLockedVerifier, SetDelegationSlashingEnabled,
                  SetMaxThawingPeriod, SetPaused
    <3> QED BY <3>1, AllUntouched DEF accountVars, provisionVars, delegationVars
  <2>3. CASE Tick \/ UNCHANGED vars
    BY <2>3, AllUntouched DEF Tick, vars, accountVars, provisionVars, delegationVars
  <2> QED BY <1>6, <2>1, <2>2, <2>3
<1> QED
  BY <1>1, <1>2, <1>3, <1>4, <1>5, <1>6 DEF Next, VerifierStep

(* Nothing leaves a provision or a pool but by a slash of it, or redeemed  *)
(* from expired requests at no more than their price.                      *)
THEOREM SlashableUntilThawedTheorem == Spec => SlashableUntilThawed
<1>1. IInv /\ IInv' /\ [Next]_vars =>
        \A p \in Providers, v \in Verifiers :
          /\ \/ LeavesAtPrice(provisions[p][v], provisions'[p][v], ExpiredOfProvision(p, v))
             \/ SlashStep(p, v)
          /\ \/ LeavesAtPrice(pools[p][v], pools'[p][v], ExpiredOfPool(p, v))
             \/ DelegatorsSlashed(p, v)
  BY NextKeeps DEF ProvisionKept, PoolKept
<1> QED
  BY <1>1, Invariance, PTL DEF Spec, SlashableUntilThawed

(* No call but a slash of the pool takes value from those who hold shares  *)
(* of it, thawing or not: every rounding favours those who stay.           *)
THEOREM DelegatorsNeverDilutedTheorem == Spec => DelegatorsNeverDiluted
<1>1. IInv /\ IInv' /\ [Next]_vars =>
        \A p \in Providers, v \in Verifiers :
          SharesKeepValue(pools[p][v], pools'[p][v]) \/ DelegatorsSlashed(p, v)
  BY NextKeeps DEF PoolKept
<1> QED
  BY <1>1, Invariance, PTL DEF Spec, DelegatorsNeverDiluted

-----------------------------------------------------------------------------
(* The thawing period.                                                     *)

PeriodAccepted(old, new) ==
  new.thawingPeriod # old.thawingPeriod => new.thawingPeriod <= maxThawingPeriod

(* The operators on accounts leave the period of a provision alone.        *)
LEMMA PeriodOfAccount ==
  ASSUME NEW prov \in ProvisionType
  PROVE  /\ \A tokens, shares :
              StartThawing(prov, tokens, shares).thawingPeriod = prov.thawingPeriod
         /\ \A result : ReleaseThawed(prov, result).thawingPeriod = prov.thawingPeriod
         /\ \A x : SlashAccount(prov, x).thawingPeriod = prov.thawingPeriod
         /\ \A x : [prov EXCEPT !.tokens = x].thawingPeriod = prov.thawingPeriod
BY DEF StartThawing, ReleaseThawed, SlashAccount, ProvisionType

(* One provision changes.                                                  *)
LEMMA OnePeriod ==
  ASSUME IInv, NEW p \in Providers, NEW v \in Verifiers, NEW prov,
         provisions' = [provisions EXCEPT ![p][v] = prov],
         PeriodAccepted(provisions[p][v], prov)
  PROVE  \A q \in Providers, w \in Verifiers :
           PeriodAccepted(provisions[q][w], provisions'[q][w])
<1>1. provisions \in [Providers -> [Verifiers -> ProvisionType]]
  BY DEF IInv, StakeSideInv
<1>2. ASSUME NEW q \in Providers, NEW w \in Verifiers
      PROVE  PeriodAccepted(provisions[q][w], provisions'[q][w])
  <2>1. CASE q = p /\ w = v
    <3>1. provisions'[q][w] = prov
      BY <1>1, <2>1
    <3> QED BY <2>1, <3>1
  <2>2. CASE ~(q = p /\ w = v)
    <3>1. provisions'[q][w] = provisions[q][w]
      BY <1>1, <2>2
    <3> QED BY <3>1 DEF PeriodAccepted
  <2> QED BY <2>1, <2>2
<1> QED
  BY <1>2

(* A provision gets its period when it is made, or when the verifier       *)
(* accepts the staged one; both are compared with the maximum then.        *)
LEMMA PeriodStep ==
  ASSUME IInv, NEW p \in Providers, NEW v \in Verifiers,
         ProvisionStep(p, v) \/ VerifierStep(p, v)
  PROVE  \A q \in Providers, w \in Verifiers :
           PeriodAccepted(provisions[q][w], provisions'[q][w])
<1> DEFINE Goal == \A q \in Providers, w \in Verifiers :
                     PeriodAccepted(provisions[q][w], provisions'[q][w])
           old  == provisions[p][v]
<1>1. /\ provisions \in [Providers -> [Verifiers -> ProvisionType]]
      /\ old \in ProvisionType
  BY ProvisionFacts DEF IInv, StakeSideInv
<1>2. ASSUME NEW prov, provisions' = [provisions EXCEPT ![p][v] = prov],
             \/ prov.thawingPeriod = old.thawingPeriod
             \/ prov.thawingPeriod <= maxThawingPeriod
      PROVE  Goal
  BY <1>2, OnePeriod DEF PeriodAccepted
<1>3. ASSUME provisions' = provisions  PROVE Goal
  BY <1>3 DEF PeriodAccepted
<1> HIDE DEF Goal
<1>4. ASSUME NEW caller, NEW tokens, NEW cut, NEW period,
             \/ CreateProvision(p, v, tokens, cut, period)
             \/ SetProvisionParameters(caller, p, v, cut, period)
      PROVE  Goal
  <2>1. CASE CreateProvision(p, v, tokens, cut, period)
    <3> DEFINE prov == NewProvision(tokens, cut, period)
    <3>1. provisions' = [provisions EXCEPT ![p][v] = prov] /\ period <= maxThawingPeriod
      BY <2>1 DEF CreateProvision
    <3>2. prov.thawingPeriod = period
      BY DEF NewProvision
    <3> HIDE DEF prov
    <3> QED BY <1>2, <3>1, <3>2
  <2>2. CASE SetProvisionParameters(caller, p, v, cut, period)
    <3> DEFINE prov == [old EXCEPT !.maxVerifierCutPending = cut,
                                   !.thawingPeriodPending = period]
    <3>1. provisions' = [provisions EXCEPT ![p][v] = prov]
      BY <2>2 DEF SetProvisionParameters
    <3>2. prov.thawingPeriod = old.thawingPeriod
      BY <1>1 DEF ProvisionType
    <3> HIDE DEF prov
    <3> QED BY <1>2, <3>1, <3>2
  <2> QED BY <1>4, <2>1, <2>2
<1>5. ASSUME NEW caller, NEW tokens, NEW n,
             \/ AddToProvision(caller, p, v, tokens)
             \/ StakeToProvision(caller, p, v, tokens)
             \/ Thaw(caller, p, v, tokens)
             \/ Deprovision(caller, p, v, n)
      PROVE  Goal
  <2>1. CASE AddToProvision(caller, p, v, tokens) \/ StakeToProvision(caller, p, v, tokens)
    <3> DEFINE prov == [old EXCEPT !.tokens = @ + tokens]
    <3>1. provisions' = [provisions EXCEPT ![p][v] = prov]
      BY <2>1 DEF AddToProvision, StakeToProvision
    <3>2. prov.thawingPeriod = old.thawingPeriod
      BY <1>1 DEF ProvisionType
    <3> HIDE DEF prov
    <3> QED BY <1>2, <3>1, <3>2
  <2>2. CASE Thaw(caller, p, v, tokens)
    <3> DEFINE prov == StartThawing(old, tokens, ThawingSharesRoundUp(old, tokens))
    <3>1. provisions' = [provisions EXCEPT ![p][v] = prov]
      BY <2>2 DEF Thaw
    <3>2. prov.thawingPeriod = old.thawingPeriod
      BY <1>1, PeriodOfAccount
    <3> HIDE DEF prov
    <3> QED BY <1>2, <3>1, <3>2
  <2>3. CASE Deprovision(caller, p, v, n)
    <3> DEFINE prov == ReleaseThawed(old, FulfillThawRequests(old, provisionRequests[p][v],
                                                              n, now))
    <3>1. provisions' = [provisions EXCEPT ![p][v] = prov]
      BY <2>3 DEF Deprovision
    <3>2. prov.thawingPeriod = old.thawingPeriod
      BY <1>1, PeriodOfAccount
    <3> HIDE DEF prov
    <3> QED BY <1>2, <3>1, <3>2
  <2> QED BY <1>5, <2>1, <2>2, <2>3
<1>6. ASSUME NEW caller, NEW new \in Verifiers, NEW n, Reprovision(caller, p, v, new, n)
      PROVE  Goal
  <2> DEFINE result == FulfillThawRequests(old, provisionRequests[p][v], n, now)
             tokens == result.tokensThawed
             prov   == ReleaseThawed(old, result)
             provs2 == [provisions EXCEPT ![p][v] = prov]
  <2>1. provisions' = [provs2 EXCEPT ![p][new].tokens = @ + tokens]
    BY <1>6 DEF Reprovision
  <2>2. prov.thawingPeriod = old.thawingPeriod
    BY <1>1, PeriodOfAccount
  <2>3. DOMAIN prov = DOMAIN old /\ "thawingPeriod" \in DOMAIN old
    BY <1>1 DEF ReleaseThawed, ProvisionType
  <2> HIDE DEF tokens, prov
  <2>4. ASSUME NEW q \in Providers, NEW w \in Verifiers
        PROVE  /\ provs2[q][w].thawingPeriod = provisions[q][w].thawingPeriod
               /\ "thawingPeriod" \in DOMAIN provs2[q][w]
    BY <1>1, <2>2, <2>3 DEF ProvisionType
  <2>5. ASSUME NEW q \in Providers, NEW w \in Verifiers
        PROVE  provisions'[q][w].thawingPeriod = provs2[q][w].thawingPeriod
    <3> HIDE DEF provs2
    <3>1. DOMAIN provs2 = Providers /\ DOMAIN provs2[p] = Verifiers
      BY <1>1 DEF provs2
    <3> QED BY <2>1, <2>4, <3>1
  <2> HIDE DEF provs2
  <2> QED BY <2>4, <2>5 DEF Goal, PeriodAccepted
<1>7. ASSUME NEW tokens, NEW reward, Slash(p, v, tokens, reward)  PROVE Goal
  <2>1. PICK x : provisions' = [provisions EXCEPT ![p][v] = SlashAccount(@, x)]
    BY <1>7 DEF Slash
  <2> DEFINE prov == SlashAccount(old, x)
  <2>2. provisions' = [provisions EXCEPT ![p][v] = prov]
    BY <2>1
  <2>3. prov.thawingPeriod = old.thawingPeriod
    BY <1>1, PeriodOfAccount
  <2> HIDE DEF prov
  <2> QED BY <1>2, <2>2, <2>3
<1>8. ASSUME NEW caller, NEW cut, SetDelegationFeeCut(caller, p, v, cut)  PROVE Goal
  BY <1>3, <1>8 DEF SetDelegationFeeCut, provisionVars
<1>9. ASSUME AcceptProvisionParameters(p, v)  PROVE Goal
  <2> DEFINE prov == [old EXCEPT !.maxVerifierCut = old.maxVerifierCutPending,
                                 !.thawingPeriod = old.thawingPeriodPending]
  <2>1. /\ provisions' = [provisions EXCEPT ![p][v] = prov]
        /\ old.thawingPeriodPending # old.thawingPeriod
             => old.thawingPeriodPending <= maxThawingPeriod
    BY <1>9 DEF AcceptProvisionParameters
  <2>2. prov.thawingPeriod = old.thawingPeriodPending
    BY <1>1 DEF ProvisionType
  <2> HIDE DEF prov
  <2> QED BY <1>2, <2>1, <2>2
<1>10. ASSUME ProvisionStep(p, v)  PROVE Goal
  <2>1. PICK caller \in Callers :
          \/ \E tokens \in TokenAmounts :
               \/ \E cut \in Cuts, period \in Periods :
                    \/ Provision(caller, p, v, tokens, cut, period)
                    \/ ProvisionLocked(caller, p, v, tokens, cut, period)
               \/ AddToProvision(caller, p, v, tokens)
               \/ StakeToProvision(caller, p, v, tokens)
               \/ Thaw(caller, p, v, tokens)
          \/ \E n \in 0 .. MaxThawRequests :
               \/ Deprovision(caller, p, v, n)
               \/ \E new \in Verifiers : Reprovision(caller, p, v, new, n)
          \/ \E cut \in Cuts, period \in Periods :
               SetProvisionParameters(caller, p, v, cut, period)
          \/ \E cut \in FeeCuts : SetDelegationFeeCut(caller, p, v, cut)
    BY <1>10, Zenon DEF ProvisionStep
  <2>2. ASSUME NEW tokens, NEW cut, NEW period,
               \/ Provision(caller, p, v, tokens, cut, period)
               \/ ProvisionLocked(caller, p, v, tokens, cut, period)
        PROVE  Goal
    <3>1. CreateProvision(p, v, tokens, cut, period)
      BY <2>2 DEF Provision, ProvisionLocked
    <3> QED BY <3>1, <1>4
  <2>3. ASSUME NEW tokens,
               \/ AddToProvision(caller, p, v, tokens)
               \/ StakeToProvision(caller, p, v, tokens)
               \/ Thaw(caller, p, v, tokens)
        PROVE  Goal
    BY <2>3, <1>5
  <2>4. ASSUME NEW n,
               \/ Deprovision(caller, p, v, n)
               \/ \E new \in Verifiers : Reprovision(caller, p, v, new, n)
        PROVE  Goal
    BY <2>4, <1>5, <1>6
  <2>5. ASSUME NEW cut, NEW period, SetProvisionParameters(caller, p, v, cut, period)
        PROVE  Goal
    BY <2>5, <1>4
  <2> QED BY <2>1, <2>2, <2>3, <2>4, <2>5, <1>8
<1>11. ASSUME VerifierStep(p, v)  PROVE Goal
  BY <1>7, <1>9, <1>11 DEF VerifierStep, SlashStep
<1> QED
  BY <1>10, <1>11 DEF Goal

(* A period in use was within the maximum when it came into use, however   *)
(* long ago it had been staged.                                            *)
THEOREM AcceptedPeriodTheorem == Spec => AcceptedPeriodWithinMaximum
<1> DEFINE Goal == \A p \in Providers, v \in Verifiers :
                     PeriodAccepted(provisions[p][v], provisions'[p][v])
<1>1. ASSUME IInv, [Next]_vars  PROVE Goal
  <2>1. CASE \E p \in Providers, v \in Verifiers : ProvisionStep(p, v) \/ VerifierStep(p, v)
    BY <1>1, <2>1, PeriodStep
  <2>2. CASE ~ \E p \in Providers, v \in Verifiers : ProvisionStep(p, v) \/ VerifierStep(p, v)
    <3>1. provisions' = provisions
      <4>1. CASE \E p \in Providers : StakeStep(p)
        BY <4>1 DEF StakeStep, Stake, Unstake, Withdraw
      <4>2. CASE \E p \in Providers, v \in Verifiers, tokens \in TokenAmounts :
                   AddToDelegationPool(p, v, tokens)
        BY <4>2 DEF AddToDelegationPool, provisionVars
      <4>3. CASE \E p \in Providers, v \in Verifiers, d \in Delegators :
                   DelegatorStep(d, p, v)
        <5>1. ASSUME NEW d \in Delegators, NEW p \in Providers, NEW v \in Verifiers,
                     DelegatorStep(d, p, v)
              PROVE  provisions' = provisions
          <6>1. ASSUME NEW tokens, NEW minShares, Delegate(d, p, v, tokens, minShares)
                PROVE  provisions' = provisions
            BY <6>1 DEF Delegate, provisionVars
          <6>2. ASSUME NEW shares, Undelegate(d, p, v, shares)
                PROVE  provisions' = provisions
            BY <6>2 DEF Undelegate, provisionVars
          <6>3. ASSUME NEW n, WithdrawDelegated(d, p, v, n)
                PROVE  provisions' = provisions
            BY <6>3 DEF WithdrawDelegated, provisionVars
          <6>4. ASSUME NEW newP, NEW newV, NEW minShares, NEW n,
                       Redelegate(d, p, v, newP, newV, minShares, n)
                PROVE  provisions' = provisions
            BY <6>4 DEF Redelegate, provisionVars
          <6> QED BY <5>1, <6>1, <6>2, <6>3, <6>4 DEF DelegatorStep
        <5> QED BY <4>3, <5>1
      <4>4. CASE \E p \in Providers, d \in Delegators : WithdrawDelegatedLegacy(p, d)
        BY <4>4 DEF WithdrawDelegatedLegacy, provisionVars
      <4>5. CASE ConfigStep
        BY ZenonT(40), <4>5 DEF ConfigStep, SetOperator, SetOperatorLocked,
                    SetAllowedLockedVerifier, SetDelegationSlashingEnabled,
                    SetMaxThawingPeriod, SetPaused, accountVars, provisionVars
      <4>6. CASE Tick \/ UNCHANGED vars
        BY <4>6 DEF Tick, vars, accountVars, provisionVars
      <4> QED BY <1>1, <2>2, <4>1, <4>2, <4>3, <4>4, <4>5, <4>6 DEF Next
    <3> QED BY <3>1 DEF PeriodAccepted
  <2> QED BY <2>1, <2>2
<1>2. Goal => \A p \in Providers, v \in Verifiers :
        provisions'[p][v].thawingPeriod # provisions[p][v].thawingPeriod
          => provisions'[p][v].thawingPeriod <= maxThawingPeriod
  BY DEF PeriodAccepted
<1> HIDE DEF Goal
<1> QED
  BY <1>1, <1>2, Invariance, PTL DEF Spec, AcceptedPeriodWithinMaximum

-----------------------------------------------------------------------------
(* What the contract can pay.                                              *)

(* The tokens that a call may take out of the contract, which a transfer   *)
(* of tokens checks the balance for: idle stake, what was locked before    *)
(* Horizon, what a slash takes, and what thaw requests release.            *)
TokensAtHand ==
  \A p \in Providers :
    /\ IdleStake(serviceProviders[p]) <= balance
    /\ serviceProviders[p].tokensLocked <= balance
    /\ \A d \in Delegators : legacyLocked[p][d] <= balance
    /\ \A v \in Verifiers :
         /\ provisions[p][v].tokens + pools[p][v].tokens <= balance
         /\ \A d \in Delegators, n \in 0 .. MaxThawRequests :
              LET reqs == delegationRequests[p][v][d]
              IN  CanFulfillThawRequests(reqs, n) =>
                    FulfillThawRequests(pools[p][v], reqs, n, now).tokensThawed <= balance

(* A summand of the sums of a sum.                                         *)
LEMMA SumOfSumsAtLeast ==
  ASSUME NEW S, NEW T, IsFiniteSet(S), IsFiniteSet(T), NEW f,
         \A x \in S, y \in T : f[x][y] \in Nat, NEW x \in S, NEW y \in T
  PROVE  SumFunctionOnSet([a \in S |-> SumFunctionOnSet(f[a], T)], S) >= f[x][y]
<1> DEFINE g == [a \in S |-> SumFunctionOnSet(f[a], T)]
<1>1. \A a \in S : SumFunctionOnSet(f[a], T) \in Nat
  BY SumType
<1>2. SumFunctionOnSet(f[x], T) >= f[x][y]
  BY SumAtLeast
<1>3. g[x] = SumFunctionOnSet(f[x], T) /\ \A a \in S : g[a] \in Nat
  BY <1>1
<1> HIDE DEF g
<1>4. SumFunctionOnSet(g, S) >= g[x]
  BY <1>3, SumAtLeast
<1>5. SumFunctionOnSet(g, S) \in Nat
  BY <1>3, SumType
<1> QED
  BY <1>1, <1>2, <1>3, <1>4, <1>5 DEF g

(* Each of the parts of what is owed.                                      *)
LEMMA PartsOwed ==
  ASSUME IInv, NEW p \in Providers
  PROVE  /\ \A v \in Verifiers :
              serviceProviders[p].tokensStaked + pools[p][v].tokens <= balance
         /\ \A d \in Delegators : legacyLocked[p][d] <= balance
         /\ serviceProviders[p].tokensStaked <= balance
<1>1. /\ TokensStaked(serviceProviders) \in Nat /\ TokensDelegated(pools) \in Nat
      /\ TokensLocked(legacyLocked) \in Nat
  BY OwedTypes DEF IInv, OtherTypes
<1>2. balance = TokensStaked(serviceProviders) + TokensDelegated(pools) + TokensLocked(legacyLocked)
  BY DEF IInv, Solvent, TokensOwed
<1>3. TokensStaked(serviceProviders) >= serviceProviders[p].tokensStaked
        /\ serviceProviders[p].tokensStaked \in Nat
  <2> DEFINE f == [q \in Providers |-> serviceProviders[q].tokensStaked]
  <2>1. f[p] = serviceProviders[p].tokensStaked /\ \A q \in Providers : f[q] \in Nat
    BY DEF IInv, StakeSideInv, ServiceProviderType
  <2>2. TokensStaked(serviceProviders) = SumFunctionOnSet(f, Providers)
    BY DEF TokensStaked
  <2> HIDE DEF f
  <2> QED BY <2>1, <2>2, SumAtLeast, AddressesFinite
<1>4. ASSUME NEW v \in Verifiers
      PROVE  TokensDelegated(pools) >= pools[p][v].tokens /\ pools[p][v].tokens \in Nat
  <2> DEFINE f == [q \in Providers |-> [w \in Verifiers |-> pools[q][w].tokens]]
             g == [q \in Providers |-> SumFunctionOnSet(f[q], Verifiers)]
  <2>1. f[p][v] = pools[p][v].tokens /\ \A q \in Providers, w \in Verifiers : f[q][w] \in Nat
    BY DEF IInv, DelegationSideInv, DelegationPoolType
  <2>2. \A q \in Providers : f[q] = [w \in Verifiers |-> pools[q][w].tokens]
    OBVIOUS
  <2> HIDE DEF f
  <2>3. g = [q \in Providers |-> SumFunctionOnSet([w \in Verifiers |-> pools[q][w].tokens], Verifiers)]
    BY <2>2
  <2>4. SumFunctionOnSet(g, Providers) >= f[p][v]
    BY <2>1, SumOfSumsAtLeast, AddressesFinite
  <2>5. TokensDelegated(pools) = SumFunctionOnSet(g, Providers)
    BY <2>3, Zenon DEF TokensDelegated
  <2> HIDE DEF g
  <2> QED BY <2>1, <2>4, <2>5
<1>5. ASSUME NEW d \in Delegators
      PROVE  TokensLocked(legacyLocked) >= legacyLocked[p][d] /\ legacyLocked[p][d] \in Nat
  <2>1. \A q \in Providers, e \in Delegators : legacyLocked[q][e] \in Nat
    BY DEF IInv, OtherTypes
  <2> QED BY <2>1, SumOfSumsAtLeast, AddressesFinite DEF TokensLocked
<1> QED
  BY <1>1, <1>2, <1>3, <1>4, <1>5

LEMMA InvHasTokens == IInv => TokensAtHand
<1> SUFFICES ASSUME IInv, NEW p \in Providers
             PROVE  /\ IdleStake(serviceProviders[p]) <= balance
                    /\ serviceProviders[p].tokensLocked <= balance
                    /\ \A d \in Delegators : legacyLocked[p][d] <= balance
                    /\ \A v \in Verifiers :
                         /\ provisions[p][v].tokens + pools[p][v].tokens <= balance
                         /\ \A d \in Delegators, n \in 0 .. MaxThawRequests :
                              CanFulfillThawRequests(delegationRequests[p][v][d], n) =>
                                FulfillThawRequests(pools[p][v], delegationRequests[p][v][d], n, now)
                                  .tokensThawed <= balance
  BY DEF TokensAtHand
<1>1. /\ serviceProviders[p] \in ServiceProviderType
      /\ serviceProviders[p].tokensProvisioned = ProvisionTokens(provisions[p])
      /\ serviceProviders[p].tokensProvisioned + serviceProviders[p].tokensLocked
           <= serviceProviders[p].tokensStaked
      /\ balance \in Nat /\ now \in Nat
  BY DEF IInv, StakeSideInv, StakeInv, OtherTypes
<1>2. serviceProviders[p].tokensStaked <= balance
  BY PartsOwed
<1>3. IdleStake(serviceProviders[p]) <= balance /\ serviceProviders[p].tokensLocked <= balance
  BY <1>1, <1>2 DEF IdleStake, ServiceProviderType
<1>4. ASSUME NEW v \in Verifiers
      PROVE  provisions[p][v].tokens + pools[p][v].tokens <= balance
  <2> DEFINE f == [w \in Verifiers |-> provisions[p][w].tokens]
  <2>1. f[v] = provisions[p][v].tokens /\ \A w \in Verifiers : f[w] \in Nat
    BY DEF IInv, StakeSideInv, ProvisionType
  <2>2. ProvisionTokens(provisions[p]) = SumFunctionOnSet(f, Verifiers)
    BY DEF ProvisionTokens
  <2> HIDE DEF f
  <2>3. ProvisionTokens(provisions[p]) >= provisions[p][v].tokens
    BY <2>1, <2>2, SumAtLeast, AddressesFinite
  <2>4. serviceProviders[p].tokensStaked + pools[p][v].tokens <= balance
    BY PartsOwed
  <2>5. pools[p][v].tokens \in Nat
    BY DEF IInv, DelegationSideInv, DelegationPoolType
  <2> QED BY <1>1, <2>1, <2>3, <2>4, <2>5 DEF ServiceProviderType
<1>5. ASSUME NEW v \in Verifiers, NEW d \in Delegators, NEW n \in 0 .. MaxThawRequests,
             CanFulfillThawRequests(delegationRequests[p][v][d], n)
      PROVE  FulfillThawRequests(pools[p][v], delegationRequests[p][v][d], n, now).tokensThawed
               <= balance
  <2> DEFINE pool   == pools[p][v]
             reqs   == delegationRequests[p][v][d]
             result == FulfillThawRequests(pool, reqs, n, now)
  <2>1. PoolInv(pool, delegations[p][v], delegationRequests[p][v])
    BY DEF IInv, DelegationSideInv
  <2>2. /\ pool \in DelegationPoolType /\ reqs \in Seq(ThawRequestType)
        /\ SoundAccount(pool)
        /\ pool.sharesThawing = HeldShares(delegationRequests[p][v], pool.thawingNonce)
        /\ delegationRequests[p][v] \in [Delegators -> Seq(ThawRequestType)]
    BY <2>1 DEF PoolInv
  <2>3. n \in Nat /\ n <= Len(reqs)
    BY <1>5, ParametersPositive DEF CanFulfillThawRequests
  <2>4. ValidShares(reqs, pool.thawingNonce) <= pool.sharesThawing
    BY <2>2, HeldSharesUpdate
  <2>5. SoundThawing(pool.tokensThawing, pool.sharesThawing)
    BY <2>2 DEF SoundAccount, SoundThawing, DelegationPoolType
  <2> HIDE DEF pool, reqs
  <2>6. /\ result.tokensThawed \in Nat /\ SoundThawing(result.tokensThawing, result.sharesThawing)
        /\ result.tokensThawed + result.tokensThawing = pool.tokensThawing
    BY <1>1, <2>2, <2>3, <2>4, <2>5, FulfillSound
  <2> HIDE DEF result
  <2>7. result.tokensThawed <= pool.tokens
    BY <2>2, <2>6 DEF SoundAccount, SoundThawing, DelegationPoolType
  <2>8. pool.tokens <= balance
    <3>1. provisions[p][v].tokens \in Nat
      BY DEF IInv, StakeSideInv, ProvisionType
    <3> QED BY <1>1, <1>4, <2>2, <3>1 DEF pool, DelegationPoolType
  <2>9. result.tokensThawed <= balance
    BY <1>1, <2>2, <2>6, <2>7, <2>8 DEF DelegationPoolType
  <2> QED BY <2>9 DEF result, pool, reqs
<1> QED
  BY <1>3, <1>4, <1>5, PartsOwed

(* No call is ever refused because the contract lacks the tokens: a        *)
(* provider gets the idle stake, a verifier can slash all of a provision   *)
(* and of its pool, and a delegator whose requests have expired is paid,   *)
(* whatever was slashed, delegated and rounded before.                     *)
THEOREM TokensAlwaysAtHand == Spec => []TokensAtHand
BY InvHasTokens, Invariance, PTL

-----------------------------------------------------------------------------
(* Linked lists: the inductive invariant.                                  *)

Id(l, k) == <<l, k>>

ListType == [head : Ids \cup {NoItem}, tail : Ids \cup {NoItem},
             nonce : 0 .. MaxNonce, count : 0 .. MaxItems]

Links == [Ids -> Ids \cup {NoItem}]

(* The number of the item at the head.                                     *)
First(list) == list.nonce - list.count

(* The list is a chain of the last items that were added to it.            *)
Chained(l, list, next) ==
  /\ list \in ListType
  /\ list.count <= list.nonce
  /\ list.count = 0 => list.head = NoItem /\ list.tail = NoItem
  /\ list.count # 0 =>
       /\ list.head = Id(l, First(list))
       /\ list.tail = Id(l, list.nonce - 1)
       /\ \A k \in First(list) .. list.nonce - 1 :
            next[Id(l, k)] = IF k = list.nonce - 1 THEN NoItem ELSE Id(l, k + 1)

(* An item that a list holds, by its number.                               *)
InList(list, k) == First(list) <= k /\ k < list.nonce

ListInv ==
  /\ lists \in [Lists -> ListType]
  /\ nextItem \in Links
  /\ \A l \in Lists : Chained(l, lists[l], nextItem)
  /\ stored = {id \in Ids : InList(lists[id[1]], id[2])}

-----------------------------------------------------------------------------
(* Items.                                                                  *)

(* An item is told by its list and its number.                             *)
LEMMA IdFacts ==
  /\ \A id \in Ids : /\ id[1] \in Lists /\ id[2] \in 0 .. MaxNonce - 1
                     /\ id = Id(id[1], id[2])
  /\ \A l, m, k, j : /\ Id(l, k)[1] = l /\ Id(l, k)[2] = k
                     /\ Id(l, k) = Id(m, j) => l = m /\ k = j
  /\ \A l \in Lists, k \in 0 .. MaxNonce - 1 : Id(l, k) \in Ids /\ Id(l, k) # NoItem
BY ListAssumption DEF Ids, Id

(* The numbers of a chain are numbers of items.                            *)
LEMMA ListFacts ==
  ASSUME NEW l \in Lists, NEW list, NEW next, Chained(l, list, next)
  PROVE  /\ list.nonce \in 0 .. MaxNonce /\ list.count \in 0 .. MaxItems
         /\ First(list) \in Nat /\ First(list) <= list.nonce
         /\ list.nonce \in Nat /\ list.count \in Nat
         /\ list.count = list.nonce - First(list)
         /\ \A k \in First(list) .. list.nonce - 1 :
              /\ k \in 0 .. MaxNonce - 1
              /\ Id(l, k) \in Ids /\ Id(l, k) # NoItem
<1>1. /\ list.nonce \in 0 .. MaxNonce /\ list.count \in 0 .. MaxItems
      /\ list.count <= list.nonce
  BY DEF Chained, ListType
<1>2. MaxNonce \in Nat /\ MaxItems \in Nat
  BY ListAssumption
<1> QED
  BY <1>1, <1>2, IdFacts DEF First

(* The items in the order of the links.                                    *)
Window(l, list) == [i \in 1 .. list.count |-> Id(l, First(list) + i - 1)]

LinkedItems(item, list, next) ==
  item = [i \in 1 .. list.count |-> IF i = 1 THEN list.head ELSE next[item[i - 1]]]

(* Following the links of a chain gives its items in order.                *)
LEMMA ItemsOfChain ==
  ASSUME NEW l \in Lists, NEW list, NEW next, Chained(l, list, next)
  PROVE  (CHOOSE item : LinkedItems(item, list, next)) = Window(l, list)
<1> DEFINE n == list.count
           a == First(list)
           w == Window(l, list)
           item == CHOOSE item : LinkedItems(item, list, next)
<1>1. n \in Nat /\ a \in Nat /\ list.nonce = a + n
  BY ListFacts
<1>2. \A i \in 1 .. n : w[i] = IF i = 1 THEN list.head ELSE next[w[i - 1]]
  <2> SUFFICES ASSUME NEW i \in 1 .. n
               PROVE  w[i] = IF i = 1 THEN list.head ELSE next[w[i - 1]]
    OBVIOUS
  <2>1. w[i] = Id(l, a + i - 1)
    BY DEF Window
  <2>2. CASE i = 1
    <3>1. list.head = Id(l, a)
      BY <1>1 DEF Chained
    <3>2. a + i - 1 = a
      BY <2>2, <1>1
    <3> QED BY <2>1, <2>2, <3>1, <3>2
  <2>3. CASE i # 1
    <3> DEFINE k == a + (i - 1) - 1
    <3>1. /\ i - 1 \in 1 .. n /\ n # 0 /\ k \in a .. list.nonce - 1
          /\ k # list.nonce - 1 /\ k + 1 = a + i - 1
      BY <2>3, <1>1
    <3>2. w[i - 1] = Id(l, k)
      BY <3>1 DEF Window
    <3> HIDE DEF k
    <3>3. next[Id(l, k)] = Id(l, k + 1)
      BY <3>1 DEF Chained
    <3> QED BY <2>1, <2>3, <3>1, <3>2, <3>3
  <2> QED BY <2>2, <2>3
<1>3. LinkedItems(w, list, next)
  <2>1. w = [i \in 1 .. n |-> w[i]]
    BY DEF Window
  <2> HIDE DEF w
  <2> QED BY <1>2, <2>1 DEF LinkedItems
<1>4. LinkedItems(item, list, next)
  BY <1>3
<1> HIDE DEF item, w
<1>5. \A i \in 1 .. n : item[i] = IF i = 1 THEN list.head ELSE next[item[i - 1]]
  BY <1>4 DEF LinkedItems
<1> DEFINE Bad == {i \in 1 .. n : item[i] # w[i]}
<1>6. Bad = {}
  <2> SUFFICES ASSUME Bad # {} PROVE FALSE
    OBVIOUS
  <2>1. PICK m \in Bad : \A i \in Bad : m <= i
    <3>1. Bad \in SUBSET (0 .. n)
      BY <1>1
    <3> HIDE DEF Bad
    <3> QED BY <1>1, <3>1, LeastElement
  <2>2. m # 1
    BY <2>1, <1>2, <1>5
  <2>3. m - 1 \in 1 .. n /\ m - 1 \notin Bad
    BY <2>1, <2>2, <1>1
  <2> QED BY <2>1, <2>3, <1>2, <1>5
<1>7. /\ item = [i \in 1 .. n |-> item[i]]
      /\ w = [i \in 1 .. n |-> w[i]]
  BY <1>4 DEF LinkedItems, w, Window
<1> QED
  BY <1>6, <1>7 DEF item, w

-----------------------------------------------------------------------------
(* A new item.                                                             *)

LEMMA AddItemKeeps ==
  ASSUME ListInv, NEW l \in Lists, AddItem(l)
  PROVE  ListInv' /\ Window(l, lists'[l]) = Append(Window(l, lists[l]), Id(l, lists[l].nonce))
<1> DEFINE list == lists[l]
           n    == list.nonce
           id   == Id(l, n)
           new  == AddTail(list, id)
<1>1. /\ n < MaxNonce /\ list.count < MaxItems
      /\ stored' = stored \cup {id}
      /\ nextItem' = [i \in Ids |-> IF i = id THEN NoItem
                                    ELSE IF i = list.tail /\ list.count # 0 THEN id
                                    ELSE nextItem[i]]
      /\ lists' = [lists EXCEPT ![l] = new]
  BY DEF AddItem, Id
<1>2. /\ lists \in [Lists -> ListType] /\ nextItem \in Links
      /\ \A m \in Lists : Chained(m, lists[m], nextItem)
      /\ stored = {i \in Ids : InList(lists[i[1]], i[2])}
  BY DEF ListInv
<1>3. /\ n \in Nat /\ list.count \in Nat /\ list.count <= n /\ First(list) \in Nat
      /\ n \in 0 .. MaxNonce - 1 /\ MaxNonce \in Nat /\ MaxItems \in Nat
      /\ list \in ListType /\ id \in Ids /\ list.count = n - First(list)
  BY <1>1, <1>2, ListFacts, IdFacts, ListAssumption DEF Chained
<1>4. /\ new.tail = id /\ new.nonce = n + 1 /\ new.count = list.count + 1
      /\ new.head = IF list.count = 0 THEN id ELSE list.head
      /\ new \in ListType
  <2>1. n + 1 \in 0 .. MaxNonce /\ list.count + 1 \in 0 .. MaxItems
    BY <1>1, <1>3
  <2> HIDE DEF id
  <2> QED BY <2>1, <1>3 DEF AddTail, ListType
<1>5. First(new) = First(list)
  BY <1>3, <1>4 DEF First
<1>6. nextItem' \in Links
  BY <1>1, <1>2, <1>3 DEF Links
<1> HIDE DEF new
<1>7. Chained(l, new, nextItem')
  <2>1. new.head = Id(l, First(new))
    <3>1. CASE list.count = 0
      BY <3>1, <1>3, <1>4, <1>5
    <3>2. CASE list.count # 0
      BY <3>2, <1>2, <1>4, <1>5 DEF Chained
    <3> QED BY <3>1, <3>2
  <2>2. ASSUME NEW k \in First(new) .. new.nonce - 1
        PROVE  nextItem'[Id(l, k)] = IF k = new.nonce - 1 THEN NoItem ELSE Id(l, k + 1)
    <3>1. k \in 0 .. MaxNonce - 1 /\ Id(l, k) \in Ids
      <4>1. k \in 0 .. MaxNonce - 1
        BY <1>3, <1>4, <1>5
      <4> QED BY <4>1, IdFacts
    <3>2. CASE k = n
      BY <3>1, <3>2, <1>1, <1>3, <1>4
    <3>3. CASE k = n - 1
      <4>1. list.count # 0 /\ k # n
        BY <3>3, <1>3, <1>4, <1>5
      <4>2. list.tail = Id(l, k)
        BY <3>3, <4>1, <1>2 DEF Chained
      <4>3. Id(l, k) # id
        BY <4>1, IdFacts
      <4> QED BY <3>1, <3>3, <4>1, <4>2, <4>3, <1>1, <1>3, <1>4
    <3>4. CASE k # n /\ k # n - 1
      <4>1. list.count # 0 /\ k \in First(list) .. n - 1 /\ k # new.nonce - 1
        BY <3>4, <1>3, <1>4, <1>5
      <4>2. list.tail = Id(l, n - 1)
        BY <4>1, <1>2 DEF Chained
      <4>3. Id(l, k) # id /\ Id(l, k) # list.tail
        BY <3>4, <4>2, IdFacts
      <4>4. nextItem[Id(l, k)] = Id(l, k + 1)
        BY <3>4, <4>1, <1>2 DEF Chained
      <4> QED BY <3>1, <4>1, <4>3, <4>4, <1>1
    <3> QED BY <3>2, <3>3, <3>4
  <2>3. new.count <= new.nonce /\ new.count # 0 /\ new.tail = Id(l, new.nonce - 1)
    BY <1>3, <1>4
  <2> QED BY <2>1, <2>2, <2>3, <1>4 DEF Chained
<1>8. ASSUME NEW m \in Lists, m # l
      PROVE  lists'[m] = lists[m] /\ Chained(m, lists[m], nextItem')
  <2>1. lists'[m] = lists[m] /\ Chained(m, lists[m], nextItem)
    BY <1>1, <1>2, <1>8
  <2>2. ASSUME NEW k \in First(lists[m]) .. lists[m].nonce - 1
        PROVE  nextItem'[Id(m, k)] = nextItem[Id(m, k)]
    <3>1. Id(m, k) \in Ids /\ Id(m, k) # id
      BY <2>1, <1>8, ListFacts, IdFacts
    <3>2. list.count # 0 => Id(m, k) # list.tail
      BY <1>2, <1>8, IdFacts DEF Chained
    <3> QED BY <3>1, <3>2, <1>1
  <2> QED BY <2>1, <2>2 DEF Chained
<1>9. lists'[l] = new /\ lists' \in [Lists -> ListType]
  BY <1>1, <1>2, <1>4
<1>10. stored' = {i \in Ids : InList(lists'[i[1]], i[2])}
  <2>1. ASSUME NEW i \in Ids
        PROVE  InList(lists'[i[1]], i[2]) <=> InList(lists[i[1]], i[2]) \/ i = id
    <3>1. i[1] \in Lists /\ i[2] \in Int /\ i = Id(i[1], i[2])
      BY IdFacts
    <3>2. CASE i[1] = l
      BY <3>1, <3>2, <1>3, <1>4, <1>5, <1>9, IdFacts DEF InList
    <3>3. CASE i[1] # l
      BY <3>1, <3>3, <1>8, IdFacts
    <3> QED BY <3>2, <3>3
  <2> QED BY <2>1, <1>1, <1>2, <1>3
<1>11. Window(l, new) = Append(Window(l, list), id)
  <2> DEFINE w == Window(l, list)
  <2>1. w \in Seq(Ids) /\ Len(w) = list.count
    <3>1. \A i \in 1 .. list.count : Id(l, First(list) + i - 1) \in Ids
      BY <1>3, IdFacts
    <3>2. w \in [1 .. list.count -> Ids]
      BY <3>1 DEF Window
    <3> QED BY <3>2, <1>3
  <2>2. Append(w, id) = [i \in 1 .. list.count + 1 |-> IF i <= list.count THEN w[i] ELSE id]
    <3> HIDE DEF w, id
    <3>1. /\ Append(w, id) \in Seq(Ids)
          /\ Len(Append(w, id)) = list.count + 1
          /\ \A i \in 1 .. list.count : Append(w, id)[i] = w[i]
          /\ Append(w, id)[list.count + 1] = id
      BY <2>1, <1>3, AppendProperties
    <3>2. Append(w, id) = [i \in 1 .. list.count + 1 |-> Append(w, id)[i]]
      BY <3>1, LenProperties
    <3> QED BY <3>1, <3>2, <1>3
  <2>3. ASSUME NEW i \in 1 .. list.count + 1
        PROVE  Id(l, First(new) + i - 1) = IF i <= list.count THEN w[i] ELSE id
    <3>1. CASE i <= list.count
      BY <3>1, <1>3, <1>5 DEF Window
    <3>2. CASE ~(i <= list.count)
      <4>1. First(new) + i - 1 = n
        BY <3>2, <1>3, <1>5
      <4> QED BY <3>2, <4>1
    <3> QED BY <3>1, <3>2
  <2> QED BY <2>2, <2>3, <1>4 DEF Window
<1> QED
  BY <1>6, <1>7, <1>8, <1>9, <1>10, <1>11 DEF ListInv

-----------------------------------------------------------------------------
(* A traversal.                                                            *)

(* What removing items from the front of a list has made of state s0.      *)
Shortened(l, s0, s, j) ==
  /\ j \in 0 .. s0.list.count
  /\ s.list.nonce = s0.list.nonce
  /\ s.list.count = s0.list.count - j
  /\ Chained(l, s.list, s.next)
  /\ s.next \in Links
  /\ \A id \in Ids : id[1] # l => s.next[id] = s0.next[id]
  /\ s.stored = {id \in s0.stored : id[1] = l => id[2] >= First(s.list)}

Before(l) == [list |-> lists[l], next |-> nextItem, stored |-> stored]

LEMMA RemoveHeadShortens ==
  ASSUME NEW l \in Lists, NEW s0, NEW s, NEW j \in Nat, Shortened(l, s0, s, j),
         s0.list.count \in Nat, s0.stored \subseteq Ids, s.list.head # NoItem
  PROVE  /\ Shortened(l, s0, RemoveHead(s), j + 1)
         /\ s.list.count # 0 /\ s.list.head = Id(l, First(s.list))
<1> DEFINE r == RemoveHead(s)
           list == s.list
           a == First(list)
<1>1. /\ list.count # 0 /\ list.head = Id(l, a) /\ list.tail = Id(l, list.nonce - 1)
      /\ \A k \in a .. list.nonce - 1 :
           s.next[Id(l, k)] = IF k = list.nonce - 1 THEN NoItem ELSE Id(l, k + 1)
      /\ list \in ListType /\ s.next \in Links
  BY DEF Chained, Shortened
<1>2. /\ list.nonce \in Nat /\ list.count \in Nat /\ list.count <= list.nonce
      /\ a \in Nat /\ list.count = list.nonce - a /\ a \in a .. list.nonce - 1
      /\ Id(l, a) \in Ids
      /\ list.count \in 1 .. MaxItems
  BY <1>1, ListFacts DEF Shortened, Chained
<1>3. /\ r.list.head = s.next[Id(l, a)]
      /\ r.list.tail = IF list.count = 1 THEN NoItem ELSE list.tail
      /\ r.list.nonce = list.nonce /\ r.list.count = list.count - 1
      /\ r.next = [s.next EXCEPT ![Id(l, a)] = NoItem]
      /\ r.stored = s.stored \ {Id(l, a)}
  BY <1>1 DEF RemoveHead, ListType
<1>4. r.list \in ListType
  <2>1. s.next[Id(l, a)] \in Ids \cup {NoItem} /\ list.count - 1 \in 0 .. MaxItems
    BY <1>1, <1>2, ListAssumption DEF Links
  <2>2. r.list = [list EXCEPT !.head = s.next[Id(l, a)], !.count = @ - 1,
                              !.tail = IF list.count = 1 THEN NoItem ELSE @]
    BY <1>1 DEF RemoveHead
  <2> QED BY <2>1, <2>2, <1>1 DEF ListType
<1> HIDE DEF r
<1>5. First(r.list) = a + 1
  BY <1>2, <1>3 DEF First
<1>6. r.next \in Links
  BY <1>1, <1>2, <1>3 DEF Links
<1>7. \A id \in Ids : id # Id(l, a) => r.next[id] = s.next[id]
  BY <1>1, <1>3 DEF Links
<1>8. Chained(l, r.list, r.next)
  <2>1. CASE list.count = 1
    BY <2>1, <1>1, <1>2, <1>3, <1>4 DEF Chained
  <2>2. CASE list.count # 1
    <3>1. r.list.head = Id(l, a + 1)
      BY <2>2, <1>1, <1>2, <1>3
    <3>2. ASSUME NEW k \in a + 1 .. list.nonce - 1
          PROVE  r.next[Id(l, k)] = IF k = list.nonce - 1 THEN NoItem ELSE Id(l, k + 1)
      <4>1. k \in a .. list.nonce - 1 /\ k # a
        BY <1>2
      <4>2. Id(l, k) \in Ids /\ Id(l, k) # Id(l, a)
        BY <4>1, ListFacts, IdFacts DEF Shortened
      <4> QED BY <4>1, <4>2, <1>1, <1>7
    <3> QED BY <2>2, <3>1, <3>2, <1>1, <1>2, <1>3, <1>4, <1>5 DEF Chained
  <2> QED BY <2>1, <2>2
<1>9. \A id \in Ids : id[1] # l => r.next[id] = s0.next[id]
  BY <1>7, IdFacts DEF Shortened
<1>10. r.stored = {id \in s0.stored : id[1] = l => id[2] >= First(r.list)}
  <2>1. s.stored = {id \in s0.stored : id[1] = l => id[2] >= a}
    BY DEF Shortened
  <2>2. ASSUME NEW id \in s0.stored
        PROVE  (id[1] = l => id[2] >= a) /\ id # Id(l, a)
                 <=> (id[1] = l => id[2] >= a + 1)
    <3>1. id[2] \in Int /\ id = Id(id[1], id[2])
      BY IdFacts
    <3>2. id = Id(l, a) <=> id[1] = l /\ id[2] = a
      BY <3>1, IdFacts
    <3> QED BY <3>1, <3>2, <1>2
  <2> QED BY <2>1, <2>2, <1>3, <1>5
<1>11. j + 1 \in 0 .. s0.list.count /\ r.list.count = s0.list.count - (j + 1)
  BY <1>2, <1>3 DEF Shortened
<1>12. r.list.nonce = s0.list.nonce
  BY <1>3 DEF Shortened
<1> QED
  BY <1>1, <1>6, <1>8, <1>9, <1>10, <1>11, <1>12 DEF Shortened, r
(* One turn of the loop, and all of its turns.                             *)
Turn(s, notReady) ==
  IF s.list.head \in notReady \cup {NoItem} THEN s ELSE RemoveHead(s)

Turns(after, s0, limit, notReady) ==
  after = [i \in 0 .. limit |-> IF i = 0 THEN s0 ELSE Turn(after[i - 1], notReady)]

LEMMA TurnsStep ==
  ASSUME NEW after, NEW s0, NEW limit \in Nat, NEW notReady,
         Turns(after, s0, limit, notReady)
  PROVE  /\ after[0] = s0
         /\ \A i \in 1 .. limit : after[i] = Turn(after[i - 1], notReady)
<1>1. \A i \in 0 .. limit : after[i] = IF i = 0 THEN s0 ELSE Turn(after[i - 1], notReady)
  BY DEF Turns
<1>2. 0 \in 0 .. limit /\ \A i \in 1 .. limit : i \in 0 .. limit /\ i # 0
  OBVIOUS
<1> QED
  BY <1>1, <1>2

(* The loop has a run of every length.                                     *)
LEMMA TurnsExist ==
  ASSUME NEW s0, NEW limit \in Nat, NEW notReady
  PROVE  \E after : Turns(after, s0, limit, notReady)
<1> DEFINE Bad == {n \in 0 .. limit : ~ \E after : Turns(after, s0, n, notReady)}
<1>1. SUFFICES ASSUME Bad # {} PROVE FALSE
  <2>1. limit \in 0 .. limit
    OBVIOUS
  <2> QED BY <1>1, <2>1
<1>2. PICK m \in Bad : \A n \in Bad : m <= n
  <2>1. Bad \in SUBSET (0 .. limit)
    OBVIOUS
  <2> HIDE DEF Bad
  <2> QED BY <1>1, <2>1, LeastElement
<1>3. m # 0
  <2> DEFINE after == [i \in 0 .. 0 |-> s0]
  <2>1. after = [i \in 0 .. 0 |-> IF i = 0 THEN s0 ELSE Turn(after[i - 1], notReady)]
    <3>1. \A i \in 0 .. 0 : i = 0
      OBVIOUS
    <3> QED BY <3>1
  <2>2. Turns(after, s0, 0, notReady)
    BY <2>1 DEF Turns
  <2> QED BY <1>2, <2>2
<1> DEFINE j == m - 1
<1>4. j \in 0 .. limit /\ j \in Nat /\ m = j + 1 /\ j \notin Bad
  BY <1>2, <1>3
<1>5. PICK f : Turns(f, s0, j, notReady)
  BY <1>4
<1> HIDE DEF j
<1> DEFINE last  == Turn(f[j], notReady)
           after == [i \in 0 .. m |-> IF i = m THEN last ELSE f[i]]
           Body(i) == IF i = 0 THEN s0 ELSE Turn(after[i - 1], notReady)
<1>6. f[0] = s0 /\ \A i \in 1 .. j : f[i] = Turn(f[i - 1], notReady)
  BY <1>4, <1>5, TurnsStep
<1>7. ASSUME NEW i \in 0 .. m  PROVE after[i] = Body(i)
  <2> HIDE DEF last
  <2>1. CASE i = 0
    BY <2>1, <1>4, <1>6
  <2>2. CASE i \in 1 .. j
    <3>1. after[i - 1] = f[i - 1] /\ after[i] = f[i] /\ i # 0
      BY <2>2, <1>4
    <3> HIDE DEF after
    <3> QED BY <2>2, <3>1, <1>6
  <2>3. CASE i = m
    <3>1. after[i - 1] = f[j] /\ after[i] = last /\ i # 0
      BY <2>3, <1>3, <1>4
    <3> HIDE DEF after
    <3> QED BY <3>1 DEF last
  <2> QED BY <2>1, <2>2, <2>3, <1>4
<1> HIDE DEF last
<1>8. after = [i \in 0 .. m |-> Body(i)]
  <2> HIDE DEF Body
  <2> QED BY <1>7
<1> HIDE DEF after
<1>9. Turns(after, s0, m, notReady)
  BY <1>8 DEF Turns
<1> QED
  BY <1>2, <1>9

(* After i turns the items before the first one that is not ready are gone,*)
(* but no more than i.                                                     *)
Processed(l, s0, s, i, notReady) ==
  \E j \in 0 .. i :
    /\ Shortened(l, s0, s, j)
    /\ \A k \in 0 .. j - 1 : Id(l, First(s0.list) + k) \notin notReady
    /\ j < i => Id(l, First(s0.list) + j) \in notReady

LEMMA TurnProcesses ==
  ASSUME NEW l \in Lists, NEW s0, NEW s, NEW notReady, NEW i \in Nat,
         s0.list.count \in Nat, s0.list.nonce \in Nat, s0.stored \subseteq Ids,
         i < s0.list.count, Processed(l, s0, s, i, notReady)
  PROVE  Processed(l, s0, Turn(s, notReady), i + 1, notReady)
<1> DEFINE a == First(s0.list)
           t == Turn(s, notReady)
<1>1. PICK j \in 0 .. i :
        /\ Shortened(l, s0, s, j)
        /\ \A k \in 0 .. j - 1 : Id(l, a + k) \notin notReady
        /\ j < i => Id(l, a + j) \in notReady
  BY DEF Processed
<1>2. /\ s.list.count # 0 /\ First(s.list) = a + j /\ a \in Int
      /\ s.list.head = Id(l, a + j) /\ s.list.head # NoItem
  <2>1. s.list.count # 0 /\ First(s.list) = a + j /\ a \in Int
    BY <1>1 DEF Shortened, First
  <2>2. Chained(l, s.list, s.next)
    BY <1>1 DEF Shortened
  <2>3. First(s.list) \in First(s.list) .. s.list.nonce - 1
    BY <2>1, <2>2, ListFacts
  <2> QED BY <2>1, <2>2, <2>3, ListFacts DEF Chained
<1> DEFINE After(n) == /\ Shortened(l, s0, t, n)
                       /\ \A k \in 0 .. n - 1 : Id(l, a + k) \notin notReady
                       /\ n < i + 1 => Id(l, a + n) \in notReady
<1>3. ASSUME NEW n \in 0 .. i + 1, After(n)
      PROVE  Processed(l, s0, t, i + 1, notReady)
  BY <1>3, Zenon DEF Processed
<1> HIDE DEF After
<1>4. CASE s.list.head \in notReady
  <2>1. t = s
    BY <1>4 DEF Turn
  <2> HIDE DEF t, a
  <2>2. After(j) /\ j \in 0 .. i + 1
    BY <2>1, <1>1, <1>2, <1>4 DEF After
  <2> QED BY <2>2, <1>3 DEF t
<1>5. CASE s.list.head \notin notReady
  <2>1. t = RemoveHead(s)
    BY <1>2, <1>5 DEF Turn
  <2>2. Shortened(l, s0, t, j + 1)
    BY <2>1, <1>1, <1>2, RemoveHeadShortens
  <2> HIDE DEF t
  <2>3. j = i
    BY <1>1, <1>2, <1>5
  <2>4. \A k \in 0 .. (j + 1) - 1 : Id(l, a + k) \notin notReady
    <3>1. \A k \in 0 .. (j + 1) - 1 : k \in 0 .. j - 1 \/ k = j
      OBVIOUS
    <3> QED BY <3>1, <1>1, <1>2, <1>5
  <2>5. j + 1 \in 0 .. i + 1 /\ ~(j + 1 < i + 1)
    BY <2>3
  <2>6. After(j + 1)
    BY <2>2, <2>4, <2>5 DEF After
  <2> QED BY <2>5, <2>6, <1>3 DEF t
<1> QED
  BY <1>4, <1>5

(* The state that the loop leaves.                                         *)
LEMMA TraversedProcesses ==
  ASSUME ListInv, NEW l \in Lists, NEW limit \in Nat, limit <= lists[l].count, NEW notReady
  PROVE  Processed(l, Before(l), Traversed(l, limit, notReady), limit, notReady)
<1> DEFINE s0 == Before(l)
           after == CHOOSE f : Turns(f, s0, limit, notReady)
<1>1. Traversed(l, limit, notReady) = after[limit]
  BY Zenon DEF Traversed, Turns, Turn, Before
<1>2. Turns(after, s0, limit, notReady)
  BY TurnsExist
<1> HIDE DEF after
<1>3. /\ s0.list.count \in Nat /\ s0.list.nonce \in Nat /\ s0.stored \subseteq Ids
      /\ s0.list = lists[l] /\ s0.next = nextItem /\ s0.stored = stored
      /\ Chained(l, lists[l], nextItem)
  BY ListFacts DEF ListInv, Before
<1>4. Processed(l, s0, s0, 0, notReady)
  <2>1. \A id \in stored : id[1] = l => id[2] >= First(lists[l])
    BY <1>3, ListFacts, IdFacts DEF ListInv, InList
  <2>2. Shortened(l, s0, s0, 0)
    <3> HIDE DEF s0
    <3> QED BY <2>1, <1>3 DEF Shortened, ListInv
  <2> QED BY <2>2 DEF Processed
<1>5. after[0] = s0 /\ \A i \in 1 .. limit : after[i] = Turn(after[i - 1], notReady)
  BY <1>2, TurnsStep
<1> HIDE DEF s0
<1> DEFINE Bad == {i \in 0 .. limit : ~Processed(l, s0, after[i], i, notReady)}
<1>6. Bad = {}
  <2> SUFFICES ASSUME Bad # {} PROVE FALSE
    OBVIOUS
  <2>1. PICK m \in Bad : \A i \in Bad : m <= i
    <3>1. Bad \in SUBSET (0 .. limit)
      OBVIOUS
    <3> HIDE DEF Bad
    <3> QED BY <3>1, LeastElement
  <2>2. m # 0
    BY <2>1, <1>4, <1>5
  <2> DEFINE i == m - 1
  <2>3. i \in 0 .. limit /\ i \notin Bad /\ i \in Nat /\ m = i + 1 /\ i < s0.list.count
    BY <2>1, <2>2, <1>3
  <2>4. Processed(l, s0, after[i], i, notReady)
    BY <2>3
  <2>5. after[m] = Turn(after[i], notReady)
    BY <2>1, <2>2, <1>5
  <2> HIDE DEF i
  <2>6. Processed(l, s0, after[m], i + 1, notReady)
    BY <2>3, <2>4, <2>5, <1>3, TurnProcesses
  <2> QED BY <2>1, <2>3, <2>6
<1> QED
  BY <1>1, <1>6 DEF s0
(* The items at the front that are ready, up to the limit, have gone.      *)
Limit(l, iterations) == IF iterations = 0 THEN lists[l].count ELSE iterations

FrontTaken(l, limit, notReady) ==
  LET w == Window(l, lists[l])
  IN  \E j \in 0 .. limit :
        /\ \A i \in 1 .. j : w[i] \notin notReady
        /\ j < limit => w[j + 1] \in notReady
        /\ Window(l, lists'[l]) = SubSeq(w, j + 1, lists[l].count)

(* A traversal takes them, and leaves chains.                              *)
LEMMA TraverseKeeps ==
  ASSUME ListInv, NEW l \in Lists, NEW iterations \in Nat, NEW notReady,
         Traverse(l, iterations, notReady)
  PROVE  /\ ListInv'
         /\ Limit(l, iterations) \in Nat /\ Limit(l, iterations) <= lists[l].count
         /\ \A m \in Lists : m # l => lists'[m] = lists[m]
         /\ FrontTaken(l, Limit(l, iterations), notReady)
<1> DEFINE w      == Window(l, lists[l])
           limit  == Limit(l, iterations)
           result == Traversed(l, limit, notReady)
           s0     == Before(l)
           a      == First(lists[l])
           n      == lists[l].count
<1>1. /\ lists' = [lists EXCEPT ![l] = result.list]
      /\ nextItem' = result.next /\ stored' = result.stored
      /\ iterations <= n
  BY DEF Traverse, Limit
<1>2. /\ lists \in [Lists -> ListType] /\ nextItem \in Links
      /\ \A m \in Lists : Chained(m, lists[m], nextItem)
      /\ stored = {i \in Ids : InList(lists[i[1]], i[2])}
  BY DEF ListInv
<1>3. n \in Nat /\ a \in Nat /\ lists[l].nonce = a + n
  BY <1>2, ListFacts
<1>4. limit \in Nat /\ limit <= n
  BY <1>1, <1>3 DEF Limit
<1>5. s0.list = lists[l] /\ s0.next = nextItem /\ s0.stored = stored
  BY DEF Before
<1>6. Processed(l, s0, result, limit, notReady)
  BY <1>4, TraversedProcesses
<1> HIDE DEF limit, result, s0
<1>7. PICK j \in 0 .. limit :
        /\ Shortened(l, s0, result, j)
        /\ \A k \in 0 .. j - 1 : Id(l, a + k) \notin notReady
        /\ j < limit => Id(l, a + j) \in notReady
  BY <1>5, <1>6 DEF Processed
<1>8. /\ result.list.nonce = lists[l].nonce /\ result.list.count = n - j
      /\ Chained(l, result.list, result.next) /\ result.next \in Links
      /\ \A id \in Ids : id[1] # l => result.next[id] = nextItem[id]
      /\ result.stored = {id \in stored : id[1] = l => id[2] >= First(result.list)}
  BY <1>5, <1>7 DEF Shortened
<1>9. First(result.list) = a + j
  BY <1>3, <1>4, <1>8 DEF First
<1>10. /\ lists'[l] = result.list /\ lists' \in [Lists -> ListType]
       /\ \A m \in Lists : m # l => lists'[m] = lists[m]
  BY <1>1, <1>2, <1>8 DEF Chained
<1>11. ASSUME NEW m \in Lists, m # l  PROVE Chained(m, lists'[m], nextItem')
  <2>1. lists'[m] = lists[m] /\ Chained(m, lists[m], nextItem)
    BY <1>2, <1>10, <1>11
  <2>2. ASSUME NEW k \in First(lists[m]) .. lists[m].nonce - 1
        PROVE  nextItem'[Id(m, k)] = nextItem[Id(m, k)]
    <3>1. Id(m, k) \in Ids /\ Id(m, k)[1] # l
      BY <2>1, <1>11, ListFacts, IdFacts
    <3> QED BY <3>1, <1>1, <1>8
  <2> QED BY <2>1, <2>2 DEF Chained
<1>12. stored' = {i \in Ids : InList(lists'[i[1]], i[2])}
  <2>1. ASSUME NEW i \in Ids
        PROVE  InList(lists'[i[1]], i[2])
                 <=> InList(lists[i[1]], i[2]) /\ (i[1] = l => i[2] >= First(result.list))
    <3>1. i[1] \in Lists /\ i[2] \in Int
      BY IdFacts
    <3>2. CASE i[1] = l
      BY <3>1, <3>2, <1>3, <1>7, <1>8, <1>9, <1>10, <1>4 DEF InList
    <3>3. CASE i[1] # l
      BY <3>1, <3>3, <1>10
    <3> QED BY <3>2, <3>3
  <2> QED BY <2>1, <1>1, <1>2, <1>8
<1>13. ListInv'
  BY <1>1, <1>8, <1>10, <1>11, <1>12 DEF ListInv
<1>14. Window(l, lists'[l]) = SubSeq(w, j + 1, n)
  <2>1. SubSeq(w, j + 1, n) = [i \in 1 .. n - j |-> w[i + j]]
    <3> DEFINE x == SubSeq(w, j + 1, n)
               S == {w[i] : i \in 1 .. n}
    <3>1. \A i \in j + 1 .. n : w[i] \in S
      BY <1>3, <1>4, <1>7
    <3> HIDE DEF w, n, S
    <3>2. /\ x \in Seq(S)
          /\ Len(x) = IF j + 1 <= n THEN n - (j + 1) + 1 ELSE 0
          /\ \A i \in 1 .. n - (j + 1) + 1 : x[i] = w[j + 1 + i - 1]
      BY <3>1, <1>3, <1>4, <1>7, SubSeqProperties
    <3> HIDE DEF x
    <3>3. Len(x) = n - j
      <4>1. j \in Nat /\ n \in Nat /\ j <= n
        BY <1>3, <1>4, <1>7
      <4>2. (IF j + 1 <= n THEN n - (j + 1) + 1 ELSE 0) = n - j
        BY <4>1
      <4> QED BY <3>2, <4>2
    <3>4. ASSUME NEW i \in 1 .. n - j  PROVE x[i] = w[i + j]
      <4>1. i \in 1 .. n - (j + 1) + 1 /\ j + 1 + i - 1 = i + j
        BY <1>3, <1>4, <1>7
      <4> QED BY <3>2, <4>1
    <3>5. x = [i \in 1 .. Len(x) |-> x[i]]
      BY <3>2, LenProperties
    <3> QED BY <3>3, <3>4, <3>5 DEF x
  <2>2. ASSUME NEW i \in 1 .. n - j
        PROVE  w[i + j] = Id(l, a + j + i - 1)
    <3>1. i + j \in 1 .. n /\ a + (i + j) - 1 = a + j + i - 1
      BY <1>3, <1>4, <1>7
    <3> QED BY <3>1 DEF Window
  <2> HIDE DEF w
  <2> QED BY <2>1, <2>2, <1>8, <1>9, <1>10 DEF Window
<1>15. \A i \in 1 .. j : w[i] \notin notReady
  <2> SUFFICES ASSUME NEW i \in 1 .. j  PROVE w[i] \notin notReady
    OBVIOUS
  <2> DEFINE k == i - 1
  <2>1. k \in 0 .. j - 1 /\ i \in 1 .. n /\ a + i - 1 = a + k
    BY <1>3, <1>4, <1>7
  <2>2. w[i] = Id(l, a + k)
    BY <2>1 DEF Window
  <2> HIDE DEF k, w
  <2> QED BY <2>1, <2>2, <1>7
<1>16. j < limit => w[j + 1] \in notReady
  <2> SUFFICES ASSUME j < limit  PROVE w[j + 1] \in notReady
    OBVIOUS
  <2>1. j + 1 \in 1 .. n /\ a + (j + 1) - 1 = a + j
    BY <1>3, <1>4, <1>7
  <2>2. w[j + 1] = Id(l, a + j)
    BY <2>1 DEF Window
  <2> QED BY <2>2, <1>7
<1> HIDE DEF w, n
<1> QED
  BY <1>4, <1>7, <1>10, <1>13, <1>14, <1>15, <1>16 DEF limit, n, w, FrontTaken

-----------------------------------------------------------------------------
(* The theorems.                                                           *)

LEMMA InitHolds == ListInit => ListInv
<1> SUFFICES ASSUME ListInit PROVE ListInv
  OBVIOUS
<1>1. \A l \in Lists : /\ lists[l] \in ListType /\ lists[l].count = 0 /\ lists[l].nonce = 0
                       /\ lists[l].head = NoItem /\ lists[l].tail = NoItem
  BY ListAssumption DEF ListInit, ListType
<1>2. \A l \in Lists : Chained(l, lists[l], nextItem)
  BY <1>1 DEF Chained
<1>3. \A id \in Ids : ~InList(lists[id[1]], id[2])
  BY <1>1, IdFacts DEF InList, First
<1> QED
  BY <1>1, <1>2, <1>3 DEF ListInit, ListInv, Links

LEMMA ListNextKeeps == ListInv /\ [ListNext]_listVars => ListInv'
<1>1. ASSUME ListInv, ListNext  PROVE ListInv'
  <2>1. PICK l \in Lists :
          \/ AddItem(l)
          \/ \E iterations \in 0 .. MaxItems, notReady \in SUBSET stored :
               Traverse(l, iterations, notReady)
    BY <1>1 DEF ListNext
  <2>2. ASSUME NEW iterations \in 0 .. MaxItems, NEW notReady \in SUBSET stored,
               Traverse(l, iterations, notReady)
        PROVE  ListInv'
    BY <1>1, <2>2, TraverseKeeps
  <2> QED BY <1>1, <2>1, <2>2, AddItemKeeps
<1>2. ASSUME ListInv, UNCHANGED listVars  PROVE ListInv'
  BY <1>2 DEF listVars, ListInv
<1> QED
  BY <1>1, <1>2

(* The items of every list are where the invariant says.                   *)
THEOREM LinksInvariance == ListSpec => []ListInv
BY InitHolds, ListNextKeeps, PTL DEF ListSpec

LEMMA ItemsAreWindows ==
  ASSUME ListInv, NEW l \in Lists
  PROVE  Items(l) = Window(l, lists[l])
<1>1. Items(l) = CHOOSE item : LinkedItems(item, lists[l], nextItem)
  BY Zenon DEF Items, LinkedItems
<1> QED
  BY <1>1, ItemsOfChain DEF ListInv

LEMMA WellLinkedHolds == ListInv => WellLinked
<1> SUFFICES ASSUME ListInv PROVE WellLinked
  OBVIOUS
<1>1. ASSUME NEW l \in Lists
      PROVE  /\ ItemsOf(l) = {id \in Ids : id[1] = l /\ InList(lists[l], id[2])}
             /\ ItemsOf(l) \subseteq {l} \X (0 .. lists[l].nonce - 1)
             /\ Cardinality(ItemsOf(l)) = lists[l].count
             /\ lists[l].count # 0 => /\ Items(l)[lists[l].count] = lists[l].tail
                                      /\ nextItem[lists[l].tail] = NoItem
  <2> DEFINE list == lists[l]
             a == First(list)
             n == list.count
             w == Window(l, list)
  <2>1. /\ Chained(l, list, nextItem) /\ Items(l) = w
        /\ n \in Nat /\ a \in Nat /\ list.nonce = a + n
        /\ \A k \in a .. list.nonce - 1 : Id(l, k) \in Ids
    BY ItemsAreWindows, ListFacts DEF ListInv
  <2>2. ItemsOf(l) = {w[i] : i \in 1 .. n}
    BY <2>1 DEF ItemsOf
  <2>3. /\ \A i \in 1 .. n : w[i] = Id(l, a + i - 1) /\ a + i - 1 \in a .. list.nonce - 1
        /\ w \in [1 .. n -> {w[i] : i \in 1 .. n}]
    BY <2>1 DEF Window
  <2> HIDE DEF w
  <2>4. ItemsOf(l) = {id \in Ids : id[1] = l /\ InList(list, id[2])}
    <3>1. ASSUME NEW id \in ItemsOf(l)  PROVE id \in Ids /\ id[1] = l /\ InList(list, id[2])
      <4>1. PICK i \in 1 .. n : id = Id(l, a + i - 1) /\ a + i - 1 \in a .. list.nonce - 1
        BY <2>2, <2>3
      <4> QED BY <4>1, <2>1, IdFacts DEF InList
    <3>2. ASSUME NEW id \in Ids, id[1] = l, InList(list, id[2])  PROVE id \in ItemsOf(l)
      <4> DEFINE i == id[2] - a + 1
      <4>1. i \in 1 .. n /\ a + i - 1 = id[2]
        BY <3>2, <2>1, IdFacts DEF InList
      <4>2. id = Id(l, a + i - 1)
        BY <4>1, <3>2, IdFacts
      <4> HIDE DEF i
      <4> QED BY <4>1, <4>2, <2>2, <2>3
    <3> QED BY <3>1, <3>2
  <2>5. Cardinality(ItemsOf(l)) = n
    <3>1. ASSUME NEW i \in 1 .. n, NEW j \in 1 .. n, w[i] = w[j]  PROVE i = j
      <4>1. a + i - 1 = a + j - 1
        BY <3>1, <2>3, IdFacts
      <4> QED BY <4>1, <2>1
    <3>2. w \in [1 .. n -> ItemsOf(l)] /\ \A id \in ItemsOf(l) : \E i \in 1 .. n : w[i] = id
      BY <2>2, <2>3
    <3>3. w \in Bijection(1 .. n, ItemsOf(l))
      BY <3>1, <3>2 DEF Bijection, Injection, Surjection, IsInjective
    <3> QED BY <3>3, <2>1, FS_CountingElements DEF ExistsBijection
  <2>6. ItemsOf(l) \subseteq {l} \X (0 .. list.nonce - 1)
    <3>1. \A k \in 0 .. list.nonce - 1 : Id(l, k) \in {l} \X (0 .. list.nonce - 1)
      BY DEF Id
    <3>2. ASSUME NEW i \in 1 .. n  PROVE w[i] \in {l} \X (0 .. list.nonce - 1)
      <4>1. a + i - 1 \in 0 .. list.nonce - 1
        BY <2>1
      <4> QED BY <4>1, <2>3, <3>1
    <3> QED BY <2>2, <3>2
  <2>7. ASSUME n # 0  PROVE Items(l)[n] = list.tail /\ nextItem[list.tail] = NoItem
    <3>1. n \in 1 .. n /\ a + n - 1 = list.nonce - 1
      BY <2>7, <2>1
    <3>2. list.nonce - 1 \in a .. list.nonce - 1
      BY <2>7, <2>1
    <3> QED BY <2>7, <3>1, <3>2, <2>1, <2>3 DEF Chained
  <2> QED BY <2>4, <2>5, <2>6, <2>7
<1>2. stored = UNION {ItemsOf(l) : l \in Lists}
  <2>1. \A id \in Ids : InList(lists[id[1]], id[2]) <=> \E l \in Lists : id \in ItemsOf(l)
    BY <1>1, IdFacts
  <2>2. \A l \in Lists : ItemsOf(l) \subseteq Ids
    BY <1>1
  <2> QED BY <2>1, <2>2 DEF ListInv
<1>3. \A l \in Lists : lists[l].count = 0 => lists[l].head = NoItem /\ lists[l].tail = NoItem
  BY DEF ListInv, Chained
<1> QED
  BY <1>1, <1>2, <1>3 DEF WellLinked

(* Head, tail, count and links of every list agree, and every stored item  *)
(* is in the one list it was added to.                                     *)
THEOREM WellLinkedAlways == ListSpec => []WellLinked
BY LinksInvariance, WellLinkedHolds, PTL
-----------------------------------------------------------------------------
(* The refinement of the queues.                                           *)

Queue == [l \in Lists |-> Items(l)]

Windows(ls) == [l \in Lists |-> Window(l, ls[l])]

(* At most one number of items is ready.                                   *)
LEMMA ReadyUnique ==
  ASSUME NEW q, NEW limit \in Nat, NEW notReady, NEW j \in 0 .. limit,
         \A i \in 1 .. j : q[i] \notin notReady,
         j < limit => q[j + 1] \in notReady
  PROVE  Queues!ItemsReady(q, limit, notReady) = j
<1> DEFINE P(k) == /\ \A i \in 1 .. k : q[i] \notin notReady
                   /\ k < limit => q[k + 1] \in notReady
           c == CHOOSE k \in 0 .. limit : P(k)
<1>1. c \in 0 .. limit /\ P(c)
  <2>1. P(j)
    OBVIOUS
  <2> HIDE DEF P
  <2> QED BY <2>1
<1>2. Queues!ItemsReady(q, limit, notReady) = c
  BY DEF Queues!ItemsReady
<1> HIDE DEF c
<1>3. ~(c < j)
  <2> SUFFICES ASSUME c < j  PROVE FALSE
    OBVIOUS
  <2>1. c < limit /\ c + 1 \in 1 .. j
    BY <1>1
  <2> QED BY <2>1, <1>1
<1>4. ~(j < c)
  <2> SUFFICES ASSUME j < c  PROVE FALSE
    OBVIOUS
  <2>1. j < limit /\ j + 1 \in 1 .. c
    BY <1>1
  <2> QED BY <2>1, <1>1
<1> QED
  BY <1>1, <1>2, <1>3, <1>4

(* The queues are the windows, before a step and after it.                 *)
LEMMA QueueIsWindows ==
  /\ ListInv => Queue = Windows(lists)
  /\ ListInv' => Queue' = Windows(lists')
<1>1. ASSUME ListInv  PROVE Queue = Windows(lists)
  BY <1>1, ItemsAreWindows DEF Queue, Windows
<1>2. ASSUME ListInv'  PROVE Queue' = Windows(lists')
  <2>1. ASSUME NEW l \in Lists  PROVE Items(l)' = Window(l, lists'[l])
    <3>1. Items(l)' = CHOOSE item : LinkedItems(item, lists'[l], nextItem')
      BY Zenon DEF Items, LinkedItems
    <3> QED BY <1>2, <3>1, ItemsOfChain DEF ListInv
  <2> QED BY <2>1 DEF Queue, Windows
<1> QED
  BY <1>1, <1>2

LEMMA WindowFacts ==
  ASSUME ListInv, NEW l \in Lists
  PROVE  /\ lists[l].count \in Nat /\ lists[l].nonce \in Nat
         /\ Windows(lists)[l] = Window(l, lists[l])
         /\ Window(l, lists[l]) \in Seq(Ids)
         /\ Len(Window(l, lists[l])) = lists[l].count
         /\ \A i \in 1 .. lists[l].count :
              \E k \in 0 .. lists[l].nonce - 1 : Window(l, lists[l])[i] = Id(l, k)
<1> DEFINE list == lists[l]
           n == list.count
           a == First(list)
           w == Window(l, list)
<1>1. /\ n \in Nat /\ a \in Nat /\ list.nonce = a + n
      /\ \A k \in a .. list.nonce - 1 : Id(l, k) \in Ids
  BY ListFacts DEF ListInv
<1>2. ASSUME NEW i \in 1 .. n
      PROVE  /\ w[i] = Id(l, a + i - 1) /\ a + i - 1 \in a .. list.nonce - 1
             /\ a + i - 1 \in 0 .. list.nonce - 1
  BY <1>1 DEF Window
<1>3. w = [i \in 1 .. n |-> w[i]]
  BY DEF Window
<1> HIDE DEF w
<1>4. w \in Seq(Ids) /\ Len(w) = n
  <2>1. w \in [1 .. n -> Ids]
    BY <1>1, <1>2, <1>3
  <2> QED BY <2>1, <1>1
<1>5. \A i \in 1 .. n : \E k \in 0 .. list.nonce - 1 : w[i] = Id(l, k)
  BY <1>2
<1> QED
  BY <1>1, <1>4, <1>5 DEF Windows, w

(* Adding an item adds it to the end of its queue.                         *)
LEMMA AddItemMaps ==
  ASSUME ListInv, NEW l \in Lists, AddItem(l)
  PROVE  Queues!Next
<1> DEFINE id == Id(l, lists[l].nonce)
<1>1. /\ ListInv'
      /\ Window(l, lists'[l]) = Append(Window(l, lists[l]), id)
  BY AddItemKeeps
<1>2. Queue = Windows(lists) /\ Queue' = Windows(lists')
  BY <1>1, QueueIsWindows
<1>3. \A m \in Lists : m # l => lists'[m] = lists[m]
  BY DEF AddItem, ListInv
<1>4. Queue' = [Queue EXCEPT ![l] = Append(@, id)]
  BY <1>1, <1>2, <1>3 DEF Windows
<1>5. Len(Queue[l]) < MaxItems
  BY <1>2, WindowFacts DEF AddItem
<1>6. ASSUME NEW m \in Lists, NEW i \in 1 .. Len(Queue[m])
      PROVE  Queue[m][i] # id
  <2>1. PICK k \in 0 .. lists[m].nonce - 1 : Queue[m][i] = Id(m, k)
    BY <1>2, <1>6, WindowFacts
  <2> QED BY <2>1, IdFacts, WindowFacts
<1>7. id \in {l} \X (0 .. MaxNonce - 1)
  BY WindowFacts, ListAssumption DEF AddItem, Id
<1>8. Queues!AddItem(l, id)
  <2> HIDE DEF id
  <2> QED BY <1>4, <1>5, <1>6 DEF Queues!AddItem, Queue
<1> QED
  BY <1>7, <1>8, Zenon DEF Queues!Next

(* A traversal takes the ready items off the front of its queue.           *)
LEMMA TraverseMaps ==
  ASSUME ListInv, NEW l \in Lists, NEW iterations \in 0 .. MaxItems, NEW notReady,
         Traverse(l, iterations, notReady)
  PROVE  Queues!Next
<1> DEFINE w     == Window(l, lists[l])
           n     == lists[l].count
           limit == Limit(l, iterations)
           nr    == notReady \cap {w[i] : i \in 1 .. n}
<1>1. /\ ListInv'
      /\ limit \in Nat /\ limit <= n
      /\ \A m \in Lists : m # l => lists'[m] = lists[m]
      /\ FrontTaken(l, limit, notReady)
  <2>1. iterations \in Nat
    BY ListAssumption
  <2> QED BY <2>1, TraverseKeeps
<1>2. n \in Nat /\ Len(w) = n /\ iterations <= n
  BY WindowFacts DEF Traverse
<1>3. PICK j \in 0 .. limit :
        /\ \A i \in 1 .. j : w[i] \notin notReady
        /\ j < limit => w[j + 1] \in notReady
        /\ Window(l, lists'[l]) = SubSeq(w, j + 1, n)
  BY <1>1 DEF FrontTaken
<1>4. Queue = Windows(lists) /\ Queue' = Windows(lists') /\ Queue[l] = w
  BY <1>1, QueueIsWindows, WindowFacts
<1> HIDE DEF w, n
<1>5. /\ \A i \in 1 .. j : w[i] \notin nr
      /\ j < limit => w[j + 1] \in nr
  <2>1. j < limit => j + 1 \in 1 .. n
    BY <1>1, <1>2
  <2> QED BY <2>1, <1>3
<1>6. Queue' = [Queue EXCEPT ![l] = SubSeq(@, j + 1, Len(@))]
  BY <1>1, <1>2, <1>3, <1>4 DEF Windows
<1> HIDE DEF nr
<1>7. Queues!ItemsReady(w, limit, nr) = j
  <2> HIDE DEF limit
  <2> QED BY <1>1, <1>5, ReadyUnique
<1>8. Queues!TraverseItems(l, iterations, nr)
  <2>1. /\ limit = IF iterations = 0 THEN Len(Queue[l]) ELSE iterations
        /\ iterations <= Len(Queue[l])
    BY <1>2, <1>4 DEF Limit, n
  <2>2. j = Queues!ItemsReady(Queue[l], limit, nr)
    BY <1>4, <1>7
  <2> HIDE DEF limit
  <2> QED BY <2>1, <2>2, <1>6 DEF Queues!TraverseItems, Queue
<1>9. nr \in SUBSET {Queue[l][i] : i \in 1 .. Len(Queue[l])}
  BY <1>2, <1>4 DEF nr
<1> QED
  BY <1>8, <1>9, Zenon DEF Queues!Next, Queue

(* The lists are queues: items leave each of them in the order in which    *)
(* they were added, and only from the front.                               *)
THEOREM ImplementsQueuesTheorem == ListSpec => ImplementsQueues
<1>1. ListInit => Queues!Init
  <2> SUFFICES ASSUME ListInit  PROVE Queues!Init
    OBVIOUS
  <2>1. ListInv
    BY InitHolds
  <2>2. Queue = Windows(lists)
    BY <2>1, QueueIsWindows
  <2>3. ASSUME NEW l \in Lists  PROVE Window(l, lists[l]) = <<>>
    BY DEF ListInit, Window
  <2> QED BY <2>2, <2>3 DEF Queues!Init, Queue, Windows
<1>2. ListInv /\ [ListNext]_listVars => [Queues!Next]_Queue
  <2>1. ASSUME ListInv, ListNext  PROVE Queues!Next
    <3>1. ASSUME NEW l \in Lists, NEW iterations \in 0 .. MaxItems,
                 NEW notReady \in SUBSET stored, Traverse(l, iterations, notReady)
          PROVE  Queues!Next
      BY <2>1, <3>1, TraverseMaps
    <3>2. ASSUME NEW l \in Lists, AddItem(l)  PROVE Queues!Next
      BY <2>1, <3>2, AddItemMaps
    <3> QED BY <2>1, <3>1, <3>2 DEF ListNext
  <2>2. ASSUME UNCHANGED listVars  PROVE Queue' = Queue
    BY <2>2 DEF listVars, Queue, Items
  <2> QED BY <2>1, <2>2
<1>3. [Queues!Next]_Queue => [Queues!Next]_[l \in Lists |-> Items(l)]
  BY DEF Queue
<1> QED
  BY <1>1, <1>2, <1>3, LinksInvariance, PTL DEF ListSpec, ImplementsQueues, Queues!Spec
=============================================================================
