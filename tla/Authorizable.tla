---------------------------- MODULE Authorizable ----------------------------
(***************************************************************************)
(* Authorizable: a payer (authorizer) lets signers sign on its behalf, and *)
(* can revoke a signer after a thawing period.  A signer belongs to one    *)
(* authorizer for ever: revoking does not free it.                         *)
(*                                                                         *)
(* The proof that a signer agreed, and its deadline, are left out: they    *)
(* change nothing but whether a call succeeds, which it need not.          *)
(***************************************************************************)
EXTENDS TokenLedger

CONSTANTS
  Signers,
  Authorizers,
  NoAuthorizer,           \* address(0)
  RevokeThawingPeriod     \* REVOKE_AUTHORIZATION_THAWING_PERIOD

ASSUME AuthorizableAssumption ==
  NoAuthorizer \notin Authorizers /\ RevokeThawingPeriod \in Nat

VARIABLES
  authorizations,         \* by signer
  noticeAt                \* history: when the signer's revocation was announced

AuthorizationType ==
  [authorizer : Authorizers \cup {NoAuthorizer}, thawEndTimestamp : Nat, revoked : BOOLEAN]

NoAuthorization ==
  [authorizer |-> NoAuthorizer, thawEndTimestamp |-> 0, revoked |-> FALSE]

InitAuthorizations ==
  /\ authorizations = [s \in Signers |-> NoAuthorization]
  /\ noticeAt = [s \in Signers |-> 0]

IsAuthorized(authorizer, signer) ==
  /\ authorizations[signer].authorizer = authorizer
  /\ ~authorizations[signer].revoked

(* Mutant: a revoked signer can be authorized again.                       *)
AuthorizeSigner_Again(caller, signer) ==
  /\ \/ authorizations[signer].authorizer = NoAuthorizer
     \/ authorizations[signer].revoked
  /\ authorizations' = [authorizations EXCEPT ![signer] =
                          [authorizer |-> caller, thawEndTimestamp |-> 0, revoked |-> FALSE]]
  /\ UNCHANGED noticeAt

AuthorizeSigner(caller, signer) ==
  /\ authorizations[signer].authorizer = NoAuthorizer
  /\ authorizations' = [authorizations EXCEPT ![signer].authorizer = caller]
  /\ UNCHANGED noticeAt

(* Mutant: the notice ends when it is given.                               *)
ThawSigner_EndsNow(caller, signer) ==
  /\ IsAuthorized(caller, signer)
  /\ authorizations' = [authorizations EXCEPT ![signer].thawEndTimestamp = now]
  /\ noticeAt' = [noticeAt EXCEPT ![signer] = now]

ThawSigner(caller, signer) ==
  /\ IsAuthorized(caller, signer)
  /\ authorizations' = [authorizations EXCEPT ![signer].thawEndTimestamp =
                          now + RevokeThawingPeriod]
  /\ noticeAt' = [noticeAt EXCEPT ![signer] = now]

CancelThawSigner(caller, signer) ==
  /\ IsAuthorized(caller, signer)
  /\ authorizations[signer].thawEndTimestamp > 0
  /\ authorizations' = [authorizations EXCEPT ![signer].thawEndTimestamp = 0]
  /\ noticeAt' = [noticeAt EXCEPT ![signer] = 0]

RevokeAuthorizedSigner(caller, signer) ==
  LET thawEnd == authorizations[signer].thawEndTimestamp
  IN  /\ IsAuthorized(caller, signer)
      /\ thawEnd > 0
      /\ thawEnd <= now
      /\ authorizations' = [authorizations EXCEPT ![signer].revoked = TRUE]
      /\ UNCHANGED noticeAt

AuthorizerCalls ==
  \E caller \in Authorizers, signer \in Signers :
    \/ AuthorizeSigner(caller, signer)
    \/ ThawSigner(caller, signer)
    \/ CancelThawSigner(caller, signer)
    \/ RevokeAuthorizedSigner(caller, signer)
=============================================================================
