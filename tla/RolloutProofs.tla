--------------------------- MODULE RolloutProofs ----------------------------
(***************************************************************************)
(* The rollout of GIP-0088 keeps every contract governed and the rewards   *)
(* flowing, and its end stays, for any networks and any bounds.            *)
(*                                                                         *)
(* A call is made long after a script decided on it: by the script itself, *)
(* from a bundle, or by the Safe, alone or among the calls of others.  The *)
(* invariant says of every call that waits anywhere what must be true when *)
(* it is made, and of the chain what every such call keeps.                *)
(***************************************************************************)
EXTENDS Gip0088Rollout, SumTheorems, SequenceTheorems

-----------------------------------------------------------------------------
(* The calls that are missing.                                             *)

(* The missing calls are collected one after the other.                    *)
Collects(m, calls) ==
  /\ m[0] = <<>>
  /\ \A i \in 1 .. Len(calls) :
       m[i] = IF Applied(calls[i]) THEN m[i - 1] ELSE Append(m[i - 1], calls[i])

LEMMA MissingTurns ==
  ASSUME NEW S, NEW calls \in Seq(S)
  PROVE  \E m \in [0 .. Len(calls) -> Seq(S)] : Collects(m, calls) /\ Missing(calls) = m[Len(calls)]
<1> DEFINE n == Len(calls)
           Body(f, i) == IF i = 0 THEN <<>>
                         ELSE IF Applied(calls[i]) THEN f[i-1] ELSE Append(f[i-1], calls[i])
           missing == CHOOSE f : f = [i \in 0 .. n |-> Body(f, i)]
           next == [p \in (1 .. n) \X Seq(S) |->
                      IF Applied(calls[p[1]]) THEN p[2] ELSE Append(p[2], calls[p[1]])]
<1>1. n \in Nat /\ \A i \in 1 .. n : calls[i] \in S
  OBVIOUS
<1>2. next \in [(1 .. n) \X Seq(S) -> Seq(S)]
  <2> SUFFICES ASSUME NEW p \in (1 .. n) \X Seq(S)
               PROVE  (IF Applied(calls[p[1]]) THEN p[2] ELSE Append(p[2], calls[p[1]])) \in Seq(S)
    OBVIOUS
  <2>1. p[2] \in Seq(S) /\ calls[p[1]] \in S
    BY <1>1
  <2> QED BY <2>1, AppendProperties
<1>3. PICK f \in [0 .. n -> Seq(S)] :
        f[0] = <<>> /\ \A i \in 1 .. n : f[i] = next[<<i, f[i - 1]>>]
  <2>1. <<>> \in Seq(S)
    OBVIOUS
  <2> HIDE DEF n, next
  <2> DEFINE T == Seq(S)
             empty == <<>>
  <2>2. n \in Nat /\ next \in Nexts(n, T) /\ empty \in T
    BY <1>1, <1>2, <2>1 DEF Nexts
  <2> HIDE DEF T, empty
  <2>3. PICK f \in [0 .. n -> T] : Follows(f, empty, next, n)
    BY <2>2, RecursionExists
  <2> QED BY <2>3 DEF Follows, T, empty
<1>4. f = [i \in 0 .. n |-> Body(f, i)]
  <2> SUFFICES ASSUME NEW i \in 0 .. n PROVE f[i] = Body(f, i)
    <3> HIDE DEF n, Body
    <3> QED BY <1>3
  <2>1. CASE i = 0
    BY <1>3, <2>1
  <2>2. CASE i # 0
    <3>1. i \in 1 .. n /\ i - 1 \in 0 .. n
      BY <2>2, <1>1
    <3>2. <<i, f[i - 1]>> \in (1 .. n) \X Seq(S)
      BY <3>1, <1>3
    <3> QED BY <1>3, <2>2, <3>1, <3>2
  <2> QED BY <2>1, <2>2
<1>5. missing = [i \in 0 .. n |-> Body(missing, i)]
  <2> HIDE DEF Body, n
  <2> QED BY <1>4
<1> DEFINE P == {i \in 0 .. n : missing[i] \in Seq(S)}
<1>6. \A i \in 0 .. n : i \in P
  <2>1. missing[0] = <<>>
    <3>1. 0 \in 0 .. n
      BY <1>1
    <3> HIDE DEF missing, n
    <3> QED BY <1>5, <3>1
  <2>2. 0 \in P
    <3>1. 0 \in 0 .. n /\ <<>> \in Seq(S)
      BY <1>1
    <3> HIDE DEF missing, n
    <3> QED BY <2>1, <3>1
  <2>3. ASSUME NEW i \in 1 .. n, i - 1 \in P  PROVE i \in P
    <3>1. i \in 0 .. n /\ i # 0 /\ missing[i - 1] \in Seq(S) /\ calls[i] \in S
      BY <2>3, <1>1
    <3>2. missing[i] = Body(missing, i)
      <4> HIDE DEF Body, missing
      <4> QED BY <1>5, <3>1
    <3>3. IF Applied(calls[i]) THEN missing[i] = missing[i - 1]
                               ELSE missing[i] = Append(missing[i - 1], calls[i])
      <4> HIDE DEF missing
      <4> QED BY <3>1, <3>2
    <3> HIDE DEF missing
    <3>4. missing[i] \in Seq(S)
      <4> DEFINE last == missing[i - 1]
      <4>1. Append(last, calls[i]) \in Seq(S)
        <5> HIDE DEF last
        <5> QED BY <3>1, AppendProperties DEF last
      <4> QED BY <3>1, <3>3, <4>1
    <3> QED BY <3>1, <3>4
  <2> HIDE DEF P
  <2> QED BY <1>1, <2>2, <2>3, UpToInduction
<1>7. Missing(calls) = missing[n]
  BY DEF Missing
<1>8. missing \in [0 .. n -> Seq(S)]
  <2> HIDE DEF missing, n, Body
  <2> QED BY <1>5, <1>6 DEF P
<1>9. Collects(missing, calls)
  <2>1. missing[0] = <<>>
    <3>1. 0 \in 0 .. n
      BY <1>1
    <3> HIDE DEF missing, n
    <3> QED BY <1>5, <3>1
  <2>2. ASSUME NEW i \in 1 .. n
        PROVE  missing[i] = IF Applied(calls[i]) THEN missing[i - 1] ELSE Append(missing[i - 1], calls[i])
    <3>1. i \in 0 .. n /\ i # 0
      OBVIOUS
    <3>2. missing[i] = Body(missing, i)
      <4> HIDE DEF missing, Body
      <4> QED BY <1>5, <3>1
    <3> HIDE DEF missing
    <3> QED BY <3>1, <3>2
  <2> HIDE DEF missing
  <2> QED BY <2>1, <2>2 DEF Collects
<1> HIDE DEF missing
<1> QED
  BY <1>7, <1>8, <1>9

(* The calls that are missing are some of the calls.                       *)
LEMMA MissingType ==
  ASSUME NEW S, NEW calls \in Seq(S)
  PROVE  Missing(calls) \in Seq(S)
<1>1. PICK m \in [0 .. Len(calls) -> Seq(S)] : Missing(calls) = m[Len(calls)]
  BY MissingTurns
<1>2. Len(calls) \in 0 .. Len(calls)
  OBVIOUS
<1> QED
  BY <1>1, <1>2

(* Where none is missing all of the calls are applied.                     *)
LEMMA MissingNone ==
  ASSUME NEW S, NEW calls \in Seq(S), Missing(calls) = <<>>
  PROVE  \A i \in 1 .. Len(calls) : Applied(calls[i])
<1> DEFINE n == Len(calls)
<1>1. n \in Nat
  OBVIOUS
<1>2. PICK m \in [0 .. n -> Seq(S)] : Collects(m, calls) /\ Missing(calls) = m[n]
  BY MissingTurns
<1> DEFINE P == {i \in 0 .. n : m[i] = <<>> => \A j \in 1 .. i : Applied(calls[j])}
<1>3. 0 \in P
  BY <1>1
<1>4. ASSUME NEW i \in 1 .. n, i - 1 \in P  PROVE i \in P
  <2>1. i - 1 \in 0 .. n /\ i \in 0 .. n /\ m[i - 1] \in Seq(S) /\ calls[i] \in S
    OBVIOUS
  <2>2. m[i] = IF Applied(calls[i]) THEN m[i - 1] ELSE Append(m[i - 1], calls[i])
    BY <1>2 DEF Collects
  <2>3. Append(m[i - 1], calls[i]) # <<>>
    BY <2>1, AppendProperties
  <2>4. m[i] = <<>> => m[i - 1] = <<>> /\ Applied(calls[i])
    BY <2>2, <2>3
  <2> QED BY <1>4, <2>1, <2>4
<1> HIDE DEF P
<1>5. n \in P
  <2>1. n \in 0 .. n
    BY <1>1
  <2> HIDE DEF n
  <2> QED BY <1>1, <1>3, <1>4, <2>1, UpToInduction
<1> QED
  BY <1>2, <1>5 DEF P

-----------------------------------------------------------------------------
(* Calls.                                                                  *)

Handover == {Revoke(c) : c \in NewContracts} \cup {TransferAdmin(c) : c \in NewContracts}

(* Calls that may be made at any time, but shares only where there is      *)
(* something to share, and oracles only where one is configured.           *)
Plain == {call \in Calls \ (Handover \cup {Integration}) :
            /\ call \in {RestToRM, ShareToRAM} => AllocationsValid
            /\ call \in {RMOracle, RAMOracle} => network.oracle}

LEMMA ConcatSingle ==
  ASSUME NEW a, NEW b, NEW c
  PROVE  <<a>> \o <<b, c>> = <<a, b, c>>
<1> DEFINE S == {a, b, c}
           s == <<a>>
           t == <<b, c>>
           u == <<a, b, c>>
<1>1. /\ s \in Seq(S) /\ Len(s) = 1 /\ s[1] = a
      /\ t \in Seq(S) /\ Len(t) = 2 /\ t[1] = b /\ t[2] = c
      /\ u \in Seq(S) /\ Len(u) = 3 /\ u[1] = a /\ u[2] = b /\ u[3] = c
  OBVIOUS
<1> HIDE DEF S, s, t, u
<1>2. /\ s \o t \in Seq(S) /\ Len(s \o t) = 3
      /\ \A i \in 1 .. 3 : (s \o t)[i] = IF i <= 1 THEN s[i] ELSE t[i - 1]
  <2>1. /\ s \o t \in Seq(S) /\ Len(s \o t) = Len(s) + Len(t)
        /\ \A i \in 1 .. Len(s) + Len(t) :
             (s \o t)[i] = IF i <= Len(s) THEN s[i] ELSE t[i - Len(s)]
    BY <1>1, ConcatProperties
  <2> QED BY <1>1, <2>1
<1>3. s \o t = u
  <2>1. \A i \in 1 .. 3 : (s \o t)[i] = u[i]
    <3>1. \A i \in 1 .. 3 : i = 1 \/ i = 2 \/ i = 3
      OBVIOUS
    <3>2. (s \o t)[1] = s[1] /\ (s \o t)[2] = t[1] /\ (s \o t)[3] = t[2]
      BY <1>2
    <3> QED BY <1>1, <3>1, <3>2
  <2>2. \A i \in 1 .. Len(s \o t) : (s \o t)[i] = u[i]
    BY <1>2, <2>1
  <2> QED BY <1>1, <1>2, <2>2, SeqEqual
<1> QED
  BY <1>3 DEF s, t, u

LEMMA ConcatThree ==
  ASSUME NEW a, NEW b, NEW c, NEW d, NEW e
  PROVE  (<<a, b>> \o <<c, d>>) \o <<e>> = <<a, b, c, d, e>>
<1> DEFINE S == {a, b, c, d, e}
           s == <<a, b>>
           t == <<c, d>>
           u == <<e>>
           v == <<a, b, c, d, e>>
           st == s \o t
<1>1. /\ s \in Seq(S) /\ Len(s) = 2 /\ s[1] = a /\ s[2] = b
      /\ t \in Seq(S) /\ Len(t) = 2 /\ t[1] = c /\ t[2] = d
      /\ u \in Seq(S) /\ Len(u) = 1 /\ u[1] = e
  OBVIOUS
<1>2. v \in Seq(S) /\ Len(v) = 5 /\ v[1] = a /\ v[2] = b /\ v[3] = c /\ v[4] = d /\ v[5] = e
  OBVIOUS
<1> HIDE DEF S, s, t, u, v
<1>3. /\ st \in Seq(S) /\ Len(st) = 4
      /\ \A i \in 1 .. 4 : st[i] = IF i <= 2 THEN s[i] ELSE t[i - 2]
  <2>1. /\ s \o t \in Seq(S) /\ Len(s \o t) = Len(s) + Len(t)
        /\ \A i \in 1 .. Len(s) + Len(t) :
             (s \o t)[i] = IF i <= Len(s) THEN s[i] ELSE t[i - Len(s)]
    BY <1>1, ConcatProperties
  <2> QED BY <1>1, <2>1
<1> HIDE DEF st
<1>4. /\ st \o u \in Seq(S) /\ Len(st \o u) = 5
      /\ \A i \in 1 .. 5 : (st \o u)[i] = IF i <= 4 THEN st[i] ELSE u[i - 4]
  <2>1. /\ st \o u \in Seq(S) /\ Len(st \o u) = Len(st) + Len(u)
        /\ \A i \in 1 .. Len(st) + Len(u) :
             (st \o u)[i] = IF i <= Len(st) THEN st[i] ELSE u[i - Len(st)]
    BY <1>1, <1>3, ConcatProperties
  <2> QED BY <1>1, <1>3, <2>1
<1>5. \A i \in 1 .. 5 : (st \o u)[i] = v[i]
  <2>1. \A i \in 1 .. 5 : i = 1 \/ i = 2 \/ i = 3 \/ i = 4 \/ i = 5
    OBVIOUS
  <2>2. st[1] = a /\ st[2] = b /\ st[3] = c /\ st[4] = d
    BY <1>1, <1>3
  <2>3. /\ (st \o u)[1] = st[1] /\ (st \o u)[2] = st[2] /\ (st \o u)[3] = st[3]
        /\ (st \o u)[4] = st[4] /\ (st \o u)[5] = u[1]
    BY <1>4
  <2> QED BY <1>1, <1>2, <2>1, <2>2, <2>3
<1>6. st \o u = v
  <2>1. \A i \in 1 .. Len(st \o u) : (st \o u)[i] = v[i]
    BY <1>4, <1>5
  <2> QED BY <1>2, <1>4, <2>1, SeqEqual
<1> QED
  BY <1>6 DEF st, s, t, u, v

(* The configurations, written out.                                        *)
LEMMA Configurations ==
  /\ Configuration["IA"] = <<<<"IA", "rate">>, <<"IA", "governor">>, <<"IA", "pause">>>>
  /\ Configuration["DA"] = <<<<"DA", "governor">>, <<"DA", "pause">>>>
  /\ Configuration["RAM"] = <<<<"RAM", "collector">>, <<"RAM", "dataService">>,
                              <<"RAM", "governor">>, <<"RAM", "pause">>, <<"RAM", "allocator">>>>
  /\ Configuration["Reclaim"] = <<<<"Reclaim", "governor">>, <<"Reclaim", "pause">>>>
  /\ Configuration["REO"] = <<<<"REO", "pause">>, <<"REO", "operator">>, <<"REO", "governor">>>>
<1>1. \A a, b, c : <<a>> \o <<b, c>> = <<a, b, c>>
  BY ConcatSingle
<1>2. \A a, b, c, d, e : (<<a, b>> \o <<c, d>>) \o <<e>> = <<a, b, c, d, e>>
  BY ConcatThree
<1>3. AllocatorConfiguration = <<<<"IA", "rate">>, <<"IA", "governor">>, <<"IA", "pause">>>>
  BY <1>1 DEF AllocatorConfiguration, RoleGrants
<1>4. ManagerConfiguration = <<<<"RAM", "collector">>, <<"RAM", "dataService">>,
                             <<"RAM", "governor">>, <<"RAM", "pause">>, <<"RAM", "allocator">>>>
  BY <1>2 DEF ManagerConfiguration, RoleGrants
<1> QED
  BY <1>3, <1>4 DEF Configuration, AllocationConfiguration, ReclaimConfiguration,
     OracleConfiguration, RoleGrants

(* The settings made by the configurations.                                *)
Settings == UNION {{Configuration[c][i] : i \in DOMAIN Configuration[c]} : c \in NewContracts}

LEMMA GovernorConfigured ==
  \A c \in NewContracts : \E i \in DOMAIN Configuration[c] : Configuration[c][i] = <<c, "governor">>
<1>1. 2 \in DOMAIN Configuration["IA"] /\ Configuration["IA"][2] = <<"IA", "governor">>
  BY Configurations
<1>2. 1 \in DOMAIN Configuration["DA"] /\ Configuration["DA"][1] = <<"DA", "governor">>
  BY Configurations
<1>3. 3 \in DOMAIN Configuration["RAM"] /\ Configuration["RAM"][3] = <<"RAM", "governor">>
  BY Configurations
<1>4. 1 \in DOMAIN Configuration["Reclaim"] /\ Configuration["Reclaim"][1] = <<"Reclaim", "governor">>
  BY Configurations
<1>5. 3 \in DOMAIN Configuration["REO"] /\ Configuration["REO"][3] = <<"REO", "governor">>
  BY Configurations
<1> QED BY <1>1, <1>2, <1>3, <1>4, <1>5 DEF NewContracts

LEMMA SettingsListed ==
  /\ \A call \in Settings :
       \E c \in NewContracts : \E what \in {"rate", "governor", "pause", "collector", "dataService",
                                        "allocator", "operator"} : call = <<c, what>>
  /\ \A c \in NewContracts : <<c, "governor">> \in Settings
<1> DEFINE Names == {"rate", "governor", "pause", "collector", "dataService", "allocator", "operator"}
<1>1. \A c \in NewContracts : \A i \in DOMAIN Configuration[c] :
        \E what \in Names : Configuration[c][i] = <<c, what>>
  <2>1. \A i \in DOMAIN Configuration["IA"] : \E what \in Names : Configuration["IA"][i] = <<"IA", what>>
    BY Configurations
  <2>2. \A i \in DOMAIN Configuration["DA"] : \E what \in Names : Configuration["DA"][i] = <<"DA", what>>
    BY Configurations
  <2>3. \A i \in DOMAIN Configuration["RAM"] : \E what \in Names : Configuration["RAM"][i] = <<"RAM", what>>
    BY Configurations
  <2>4. \A i \in DOMAIN Configuration["Reclaim"] :
          \E what \in Names : Configuration["Reclaim"][i] = <<"Reclaim", what>>
    BY Configurations
  <2>5. \A i \in DOMAIN Configuration["REO"] : \E what \in Names : Configuration["REO"][i] = <<"REO", what>>
    BY Configurations
  <2> HIDE DEF Names
  <2> QED BY <2>1, <2>2, <2>3, <2>4, <2>5 DEF NewContracts
<1>2. \A c \in NewContracts : \E i \in DOMAIN Configuration[c] : Configuration[c][i] = <<c, "governor">>
  BY GovernorConfigured
<1> QED
  BY <1>1, <1>2 DEF Settings

(* None of the settings is a call of another kind.                         *)
LEMMA SettingsPlain == Settings \subseteq Plain
<1> SUFFICES ASSUME NEW call \in Settings PROVE call \in Plain
  OBVIOUS
<1>1. PICK c \in NewContracts, what \in {"rate", "governor", "pause", "collector", "dataService",
                                        "allocator", "operator"} : call = <<c, what>>
  BY SettingsListed
<1>2. call \in Calls
  BY DEF Calls, Settings
<1>3. call \notin Handover
  BY <1>1 DEF Handover, Revoke, TransferAdmin
<1>4. call \notin {Integration, RestToRM, ShareToRAM, RMOracle, RAMOracle}
  BY <1>1 DEF Integration, RestToRM, ShareToRAM, RMOracle, RAMOracle, NewContracts
<1> QED
  BY <1>2, <1>3, <1>4 DEF Plain

OtherCalls == {Upgrade, PauseGuardian, ReclaimAddress, RevertSetting, RMOracle, RAMOracle,
               Integration, Minter, DefaultTarget, CloseGuard}

LEMMA CallKinds == Calls = Settings \cup Handover \cup Allocations \cup OtherCalls
<1>1. Calls = Settings \cup {Revoke(c) : c \in NewContracts} \cup {TransferAdmin(c) : c \in NewContracts}
                \cup Allocations \cup OtherCalls
  BY DEF Calls, Settings, OtherCalls
<1> QED
  BY <1>1 DEF Handover

(* No other call hands anything over.                                      *)
LEMMA CallNames ==
  ASSUME NEW call \in Calls \ Handover
  PROVE  call # Revoke(call[1]) /\ call # TransferAdmin(call[1])
<1>1. CASE call \in Settings
  BY <1>1, SettingsListed DEF Revoke, TransferAdmin
<1>2. CASE call \in Allocations \cup OtherCalls
  BY <1>2 DEF OtherCalls, Allocations, AllToRM, RestToRM, ShareToRAM, Upgrade, PauseGuardian, ReclaimAddress,
     RevertSetting, RMOracle, RAMOracle, Integration, Minter, DefaultTarget, CloseGuard, Revoke,
     TransferAdmin
<1> QED
  BY <1>1, <1>2, CallKinds

LEMMA OthersPlain ==
  /\ {Upgrade, PauseGuardian, ReclaimAddress, RevertSetting, Minter, DefaultTarget, CloseGuard,
      AllToRM} \subseteq Plain
  /\ AllocationsValid => {RestToRM, ShareToRAM} \subseteq Plain
  /\ network.oracle => {RMOracle, RAMOracle} \subseteq Plain
<1> DEFINE Always == {Upgrade, PauseGuardian, ReclaimAddress, RevertSetting, Minter, DefaultTarget,
                      CloseGuard, AllToRM}
           Others == Always \cup {RestToRM, ShareToRAM, RMOracle, RAMOracle}
<1>1. Others \subseteq Calls
  BY CallKinds DEF OtherCalls, Allocations
<1> USE DEF AllToRM, RestToRM, ShareToRAM, Upgrade, PauseGuardian, ReclaimAddress,
     RevertSetting, RMOracle, RAMOracle, Minter, DefaultTarget, CloseGuard
<1>2. ASSUME NEW call \in Others  PROVE call \notin Handover /\ call # Integration
  BY DEF Handover, Revoke, TransferAdmin, Integration
<1>3. ASSUME NEW call \in Always  PROVE call \notin {RestToRM, ShareToRAM, RMOracle, RAMOracle}
  OBVIOUS
<1>4. /\ RestToRM \notin {RMOracle, RAMOracle} /\ ShareToRAM \notin {RMOracle, RAMOracle}
      /\ RMOracle \notin {RestToRM, ShareToRAM} /\ RAMOracle \notin {RestToRM, ShareToRAM}
  OBVIOUS
<1> USE DEF Others
<1> HIDE DEF AllToRM, RestToRM, ShareToRAM, Upgrade, PauseGuardian, ReclaimAddress,
     RevertSetting, RMOracle, RAMOracle, Minter, DefaultTarget, CloseGuard
<1> QED
  BY <1>1, <1>2, <1>3, <1>4 DEF Plain

-----------------------------------------------------------------------------
(* The chain.                                                              *)

ChainType ==
  [applied : SUBSET Calls, deployerGoverns : SUBSET network.fresh,
   deployerOwns : SUBSET network.fresh, allocation : [{"RM", "RAM"} -> 0 .. network.rate]]

(* The RewardsManager has what the configuration leaves it.                *)
Fed(state) == state.allocation["RM"] >= network.rate - network.share

(* The issuance is shared as configured.                                   *)
Shared(state) ==
  state.allocation["RM"] = network.rate - network.share /\ state.allocation["RAM"] = network.share

(* The contracts that the status lets be handed over only when they are    *)
(* configured: the allocator waits for a rate.  The script of the oracle   *)
(* checks for itself.                                                      *)
Trusted(c) == c \notin hasty \ {"REO"} /\ (c = "IA" => network.rate > 0)

Granted(state, c) == Trusted(c) => <<c, "governor">> \in state.applied

Sound(state) ==
  /\ state \in ChainType
  /\ state.deployerGoverns \subseteq state.deployerOwns
  /\ \A c \in NewContracts : c \in state.deployerGoverns \/ Granted(state, c)
  /\ state.allocation["RM"] = 0 \/ Fed(state)
  /\ Integration \in state.applied => Fed(state)
  /\ {RMOracle, RAMOracle} \cap state.applied # {} => network.oracle

(* What must be true of a call when it is made.                            *)
Due(call, state) ==
  \/ call \in Plain
  \/ call = Integration /\ Fed(state)
  \/ \E c \in NewContracts : \/ call = Revoke(c) /\ Granted(state, c)
                             \/ call = TransferAdmin(c) /\ c \notin state.deployerGoverns

(* What no call takes back.                                                *)
Kept(state, new) ==
  /\ state.applied \subseteq new.applied
  /\ new.deployerGoverns \subseteq state.deployerGoverns
  /\ Fed(state) => Fed(new)
  /\ Shared(state) => Shared(new)

LEMMA NetworkFacts ==
  ASSUME network \in Networks
  PROVE  /\ network.rate \in Nat /\ network.share \in Nat /\ network.fresh \subseteq NewContracts
         /\ network.oracle \in BOOLEAN /\ network.governor \in Governors
BY RolloutAssumption DEF Network

LEMMA AllocationKeeps ==
  ASSUME network \in Networks, NEW state, Sound(state), NEW call \in Allocations, call \in Plain,
         NEW sender, Permitted(state, call, sender)
  PROVE  /\ Sound(Effect(state, call)) /\ Kept(state, Effect(state, call))
         /\ call = AllToRM => Fed(Effect(state, call))
<1> DEFINE new == Effect(state, call)
           target == Target(call)
           rate == Rate(call)
<1>1. /\ state \in ChainType /\ state.allocation["RM"] \in 0 .. network.rate
      /\ state.allocation["RAM"] \in 0 .. network.rate
  BY DEF Sound, ChainType
<1>2. /\ new = [state EXCEPT !.allocation[target] = rate] /\ target \in {"RM", "RAM"}
  BY DEF Effect, Target
<1>3. /\ new.applied = state.applied /\ new.deployerGoverns = state.deployerGoverns
      /\ new.deployerOwns = state.deployerOwns
      /\ new.allocation = [state.allocation EXCEPT ![target] = rate]
      /\ DOMAIN state.allocation = {"RM", "RAM"}
  BY <1>1, <1>2 DEF ChainType
<1>4. /\ new.allocation[target] = rate
      /\ target = "RM" => new.allocation["RAM"] = state.allocation["RAM"]
      /\ target = "RAM" => new.allocation["RM"] = state.allocation["RM"]
  BY <1>2, <1>3
<1>5. rate + state.allocation[Other(target)] <= network.rate
  <2>1. rate + state.allocation[Other(target)] <= AllocatorRate(state)
    BY DEF Permitted
  <2>2. AllocatorRate(state) \in {0, network.rate}
    BY DEF AllocatorRate
  <2>3. rate \in Int /\ state.allocation[Other(target)] \in Nat
    BY <1>1, <1>2, NetworkFacts DEF Rate, Allocations, AllToRM, RestToRM, ShareToRAM, Other
  <2> HIDE DEF rate, target
  <2> QED BY <2>1, <2>2, <2>3, NetworkFacts
<1>6. /\ rate \in 0 .. network.rate
      /\ target = "RM" => rate >= network.rate - network.share
      /\ Shared(state) => Shared(new)
      /\ call = AllToRM => target = "RM"
  <2> USE NetworkFacts, <1>1, <1>4, <1>5
  <2>1. CASE call = AllToRM
    <3>1. target = "RM" /\ rate = network.rate /\ Other(target) = "RAM"
      BY <2>1 DEF Target, Rate, Other, AllToRM, RestToRM, ShareToRAM
    <3> HIDE DEF target, rate, new
    <3> QED BY <3>1 DEF Shared
  <2>2. CASE call = RestToRM
    <3>1. target = "RM" /\ rate = network.rate - network.share /\ call # AllToRM
      BY <2>2 DEF Target, Rate, AllToRM, RestToRM, ShareToRAM
    <3>2. network.rate >= network.share
      BY <2>2 DEF Plain, AllocationsValid
    <3> HIDE DEF target, rate, new
    <3> QED BY <3>1, <3>2 DEF Shared
  <2>3. CASE call = ShareToRAM
    <3>1. target = "RAM" /\ rate = network.share /\ call # AllToRM /\ Other(target) = "RM"
      BY <2>3 DEF Target, Rate, Other, AllToRM, RestToRM, ShareToRAM
    <3> HIDE DEF target, rate, new
    <3> QED BY <3>1 DEF Shared
  <2> QED BY <2>1, <2>2, <2>3 DEF Allocations
<1> HIDE DEF new, target, rate
<1>7. new \in ChainType
  BY <1>1, <1>2, <1>6 DEF ChainType
<1>8. /\ Fed(state) => Fed(new)
      /\ state.allocation["RM"] = 0 \/ Fed(state) => new.allocation["RM"] = 0 \/ Fed(new)
      /\ target = "RM" => Fed(new)
  BY <1>2, <1>4, <1>6 DEF Fed
<1>9. Sound(new)
  BY <1>3, <1>7, <1>8 DEF Sound, Granted
<1> QED
  BY <1>3, <1>6, <1>8, <1>9 DEF Kept, new

LEMMA SettingKeeps ==
  ASSUME network \in Networks, NEW state, Sound(state), NEW call \in Calls,
         call \notin Handover, call \notin Allocations,
         call \in Plain \/ (call = Integration /\ Fed(state))
  PROVE  Sound(Effect(state, call)) /\ Kept(state, Effect(state, call))
<1> DEFINE new == Effect(state, call)
<1>1. new = [state EXCEPT !.applied = @ \union {call}]
  BY CallNames DEF Effect
<1>2. state \in ChainType
  BY DEF Sound
<1>3. /\ new.applied = state.applied \cup {call} /\ new.deployerGoverns = state.deployerGoverns
      /\ new.deployerOwns = state.deployerOwns /\ new.allocation = state.allocation
      /\ new \in ChainType
  BY <1>1, <1>2 DEF ChainType
<1> HIDE DEF new
<1>4. call = Integration => Fed(state)
  BY DEF Plain
<1>5. call \in {RMOracle, RAMOracle} => network.oracle
  BY DEF Plain, RMOracle, RAMOracle, Integration
<1>6. Fed(new) <=> Fed(state)
  BY <1>3 DEF Fed
<1>7. Sound(new)
  BY <1>3, <1>4, <1>5, <1>6 DEF Sound, Granted
<1> QED
  BY <1>3, <1>6, <1>7 DEF Kept, Shared, new

LEMMA RevokeKeeps ==
  ASSUME network \in Networks, NEW state, Sound(state), NEW c \in NewContracts, Granted(state, c)
  PROVE  /\ Sound(Effect(state, Revoke(c))) /\ Kept(state, Effect(state, Revoke(c)))
         /\ c \notin Effect(state, Revoke(c)).deployerGoverns
<1> DEFINE new == Effect(state, Revoke(c))
<1>1. new = [state EXCEPT !.deployerGoverns = @ \ {c}]
  <2>1. Revoke(c)[1] = c /\ Revoke(c) \notin Allocations
    BY DEF Revoke, Allocations, AllToRM, RestToRM, ShareToRAM
  <2> QED BY <2>1 DEF Effect
<1>2. state \in ChainType
  BY DEF Sound
<1>3. /\ new.applied = state.applied /\ new.deployerGoverns = state.deployerGoverns \ {c}
      /\ new.deployerOwns = state.deployerOwns /\ new.allocation = state.allocation
      /\ new \in ChainType
  BY <1>1, <1>2 DEF ChainType
<1> HIDE DEF new
<1>4. Fed(new) <=> Fed(state)
  BY <1>3 DEF Fed
<1>5. Sound(new)
  BY <1>3, <1>4 DEF Sound, Granted
<1> QED
  BY <1>3, <1>4, <1>5 DEF Kept, Shared, new

LEMMA TransferAdminKeeps ==
  ASSUME network \in Networks, NEW state, Sound(state), NEW c \in NewContracts,
         c \notin state.deployerGoverns
  PROVE  /\ Sound(Effect(state, TransferAdmin(c))) /\ Kept(state, Effect(state, TransferAdmin(c)))
<1> DEFINE new == Effect(state, TransferAdmin(c))
<1>1. new = [state EXCEPT !.deployerOwns = @ \ {c}]
  <2>1. /\ TransferAdmin(c)[1] = c /\ TransferAdmin(c) \notin Allocations
        /\ TransferAdmin(c) # Revoke(c)
    BY DEF TransferAdmin, Revoke, Allocations, AllToRM, RestToRM, ShareToRAM
  <2> QED BY <2>1 DEF Effect
<1>2. state \in ChainType
  BY DEF Sound
<1>3. /\ new.applied = state.applied /\ new.deployerGoverns = state.deployerGoverns
      /\ new.deployerOwns = state.deployerOwns \ {c} /\ new.allocation = state.allocation
      /\ new \in ChainType
  BY <1>1, <1>2 DEF ChainType
<1> HIDE DEF new
<1>4. Fed(new) <=> Fed(state)
  BY <1>3 DEF Fed
<1>5. Sound(new)
  BY <1>3, <1>4 DEF Sound, Granted
<1> QED
  BY <1>3, <1>4, <1>5 DEF Kept, Shared, new

(* Every call that is made when it is due keeps the chain sound.           *)
LEMMA CallKeeps ==
  ASSUME network \in Networks, NEW state, Sound(state), NEW call, Due(call, state),
         NEW sender, Permitted(state, call, sender)
  PROVE  /\ Sound(Effect(state, call)) /\ Kept(state, Effect(state, call))
         /\ call = AllToRM => Fed(Effect(state, call))
<1>1. AllToRM \in Allocations
  BY DEF Allocations
<1>2. CASE call \in Plain /\ call \in Allocations
  BY <1>2, AllocationKeeps
<1>3. CASE \/ call \in Plain /\ call \notin Allocations
           \/ call = Integration /\ Fed(state)
  <2>1. call \in Calls /\ call \notin Handover /\ call \notin Allocations
    <3>1. Integration \in Calls /\ Integration \notin Allocations /\ Integration \notin Handover
      <4>1. Integration \in Calls
        BY CallKinds DEF OtherCalls
      <4>2. Integration \notin Allocations \cup Handover
        BY DEF Integration, Allocations, AllToRM, RestToRM, ShareToRAM, Handover, Revoke, TransferAdmin
      <4> QED BY <4>1, <4>2
    <3> QED BY <1>3, <3>1 DEF Plain
  <2>2. call \in Plain \/ (call = Integration /\ Fed(state))
    BY <1>3
  <2>3. Sound(Effect(state, call)) /\ Kept(state, Effect(state, call))
    BY ONLY network \in Networks, Sound(state), <2>1, <2>2, SettingKeeps
  <2>4. call # AllToRM
    BY <1>1, <2>1
  <2> QED BY <2>3, <2>4
<1>4. ASSUME NEW c \in NewContracts, call = Revoke(c), Granted(state, c)
      PROVE  /\ Sound(Effect(state, call)) /\ Kept(state, Effect(state, call)) /\ call # AllToRM
  BY <1>4, RevokeKeeps DEF Revoke, AllToRM
<1>5. ASSUME NEW c \in NewContracts, call = TransferAdmin(c), c \notin state.deployerGoverns
      PROVE  /\ Sound(Effect(state, call)) /\ Kept(state, Effect(state, call)) /\ call # AllToRM
  BY <1>5, TransferAdminKeeps DEF TransferAdmin, AllToRM
<1> QED
  BY <1>2, <1>3, <1>4, <1>5 DEF Due

LEMMA KeptReflexive ==
  ASSUME NEW state
  PROVE  Kept(state, state)
BY DEF Kept

LEMMA KeptTransitive ==
  ASSUME NEW state, NEW new, NEW newer, Kept(state, new), Kept(new, newer)
  PROVE  Kept(state, newer)
BY DEF Kept

-----------------------------------------------------------------------------
(* Calls that wait.                                                        *)

Changes == Plain \cup {Integration}

(* The allocator is not integrated before the RewardsManager has its part. *)
Waiting(calls, state) ==
  /\ calls \in Seq(Changes)
  /\ Fed(state) \/ calls \in Seq(Plain) \/ (calls # <<>> /\ calls[1] = AllToRM)

(* A contract is handed over by giving up the role, then the ProxyAdmin.   *)
Handing(calls, state) ==
  \E c \in NewContracts :
    \/ calls \in {<<Revoke(c), TransferAdmin(c)>>, <<Revoke(c)>>} /\ Granted(state, c)
    \/ calls = <<TransferAdmin(c)>> /\ c \notin state.deployerGoverns

LEMMA PlainChanges ==
  /\ Plain \subseteq Changes /\ Seq(Plain) \subseteq Seq(Changes)
  /\ Plain \subseteq Calls /\ Changes \subseteq Calls
  /\ Integration \notin Plain /\ Integration # AllToRM
<1>1. Integration \in Calls
  BY CallKinds DEF OtherCalls
<1>2. Plain \subseteq Calls /\ Integration \notin Plain
  BY DEF Plain
<1>3. Integration # AllToRM
  BY DEF Integration, AllToRM
<1>4. Plain \subseteq Changes /\ Changes \subseteq Calls
  BY <1>1, <1>2 DEF Changes
<1>5. Seq(Plain) \subseteq Seq(Changes)
  <2> HIDE DEF Changes
  <2> QED BY <1>4
<1> QED
  BY <1>2, <1>3, <1>4, <1>5

LEMMA PlainWaits ==
  ASSUME NEW calls \in Seq(Plain), NEW state
  PROVE  Waiting(calls, state)
BY PlainChanges DEF Waiting

LEMMA WaitingKept ==
  ASSUME NEW calls, NEW state, NEW new, Kept(state, new)
  PROVE  /\ Waiting(calls, state) => Waiting(calls, new)
         /\ Handing(calls, state) => Handing(calls, new)
<1>1. Waiting(calls, state) => Waiting(calls, new)
  BY DEF Waiting, Kept
<1>2. Handing(calls, state) => Handing(calls, new)
  <2>1. \A c \in NewContracts : /\ Granted(state, c) => Granted(new, c)
                                /\ c \notin state.deployerGoverns => c \notin new.deployerGoverns
    BY DEF Kept, Granted
  <2> QED BY <2>1 DEF Handing
<1> QED
  BY <1>1, <1>2

LEMMA WaitsAfter ==
  ASSUME NEW s, NEW state, Waiting(s, state), NEW t \in Seq(Plain)
  PROVE  Waiting(s \o t, state)
<1>1. s \in Seq(Changes) /\ t \in Seq(Changes)
  BY PlainChanges DEF Waiting
<1>2. s \o t \in Seq(Changes)
  BY <1>1, ConcatProperties
<1>3. CASE Fed(state)
  BY <1>2, <1>3 DEF Waiting
<1>4. CASE s \in Seq(Plain)
  <2>1. s \o t \in Seq(Plain)
    BY <1>4, ConcatProperties
  <2> QED BY <2>1, PlainWaits
<1>5. CASE s # <<>> /\ s[1] = AllToRM
  <2>1. Len(s) \in Nat \ {0} /\ Len(t) \in Nat
    BY <1>1, <1>5, EmptySeq
  <2>2. /\ Len(s \o t) = Len(s) + Len(t)
        /\ \A i \in 1 .. Len(s) + Len(t) : (s \o t)[i] = IF i <= Len(s) THEN s[i] ELSE t[i - Len(s)]
    BY <1>1, ConcatProperties
  <2>3. Len(s \o t) # 0 /\ (s \o t)[1] = s[1]
    BY <2>1, <2>2
  <2>4. s \o t # <<>>
    BY <2>3
  <2> QED BY <1>2, <1>5, <2>3, <2>4 DEF Waiting
<1> QED
  BY <1>3, <1>4, <1>5 DEF Waiting

LEMMA TailOfOne ==
  ASSUME NEW a
  PROVE  Tail(<<a>>) = <<>>
<1> DEFINE s == <<a>>
<1>1. s \in Seq({a}) /\ Len(s) = 1 /\ s # <<>>
  OBVIOUS
<1> HIDE DEF s
<1>2. Tail(s) \in Seq({a}) /\ Len(Tail(s)) = 0
  BY <1>1, HeadTailProperties
<1>3. Tail(s) = <<>>
  BY <1>2, EmptySeq
<1> QED
  BY <1>3 DEF s

(* What comes next is due.                                                 *)
LEMMA HeadDue ==
  ASSUME NEW calls, NEW state, calls # <<>>, Waiting(calls, state) \/ Handing(calls, state)
  PROVE  Due(Head(calls), state)
<1>1. CASE Waiting(calls, state)
  <2>1. calls \in Seq(Changes) /\ Head(calls) \in Changes /\ Head(calls) = calls[1]
    BY <1>1, HeadTailProperties DEF Waiting
  <2>2. calls \in Seq(Plain) => Head(calls) \in Plain
    BY <2>1, HeadTailProperties
  <2> QED BY <1>1, <2>1, <2>2, PlainChanges DEF Waiting, Due, Changes
<1>2. CASE Handing(calls, state)
  BY <1>2 DEF Handing, Due
<1> QED
  BY <1>1, <1>2

(* When it has been made the rest still waits.                             *)
LEMMA TailWaits ==
  ASSUME network \in Networks, NEW calls, NEW state, Sound(state), calls # <<>>,
         Waiting(calls, state) \/ Handing(calls, state),
         NEW sender, Permitted(state, Head(calls), sender)
  PROVE  LET new == Effect(state, Head(calls))
         IN  Waiting(Tail(calls), new) \/ Handing(Tail(calls), new)
<1> DEFINE new == Effect(state, Head(calls))
<1>1. Kept(state, new) /\ (Head(calls) = AllToRM => Fed(new))
  BY HeadDue, CallKeeps
<1>2. CASE Waiting(calls, state)
  <2>1. calls \in Seq(Changes) /\ Tail(calls) \in Seq(Changes) /\ Head(calls) = calls[1]
    BY <1>2, HeadTailProperties DEF Waiting
  <2>2. calls \in Seq(Plain) => Tail(calls) \in Seq(Plain)
    BY <2>1, HeadTailProperties
  <2> HIDE DEF new
  <2>3. Waiting(Tail(calls), new)
    BY <1>1, <1>2, <2>1, <2>2 DEF Waiting, Kept
  <2> QED BY <2>3 DEF new
<1>3. CASE Handing(calls, state)
  <2>1. PICK c \in NewContracts :
          \/ calls \in {<<Revoke(c), TransferAdmin(c)>>, <<Revoke(c)>>} /\ Granted(state, c)
          \/ calls = <<TransferAdmin(c)>> /\ c \notin state.deployerGoverns
    BY <1>3 DEF Handing
  <2>2. Waiting(<<>>, new)
    <3>1. <<>> \in Seq(Plain)
      OBVIOUS
    <3> HIDE DEF new
    <3> QED BY <3>1, PlainWaits
  <2>3. CASE calls = <<Revoke(c), TransferAdmin(c)>> /\ Granted(state, c)
    <3>1. Head(calls) = Revoke(c) /\ Tail(calls) = <<TransferAdmin(c)>>
      BY <2>3
    <3>2. c \notin new.deployerGoverns
      BY <2>3, <3>1, RevokeKeeps
    <3> HIDE DEF new
    <3>3. Handing(Tail(calls), new)
      BY <3>1, <3>2 DEF Handing
    <3> QED BY <3>3 DEF new
  <2>4. CASE Tail(calls) = <<>>
    BY <2>2, <2>4
  <2>5. calls \in {<<Revoke(c)>>, <<TransferAdmin(c)>>} => Tail(calls) = <<>>
    BY TailOfOne
  <2> QED BY <2>1, <2>3, <2>4, <2>5
<1> QED
  BY <1>2, <1>3

-----------------------------------------------------------------------------
(* The inductive invariant.                                                *)

ScriptType == [step: {"idle", "gather", "send", "save"}, todo: Seq(Calls),
               sender: {"", "deployer", "governor"},
               file: Files \cup {NoFile}, moves: Files \cup {NoFile}]

BundlesFit(files, state) ==
  files \in [Files -> Seq(Calls)] /\ \A file \in Files : Waiting(files[file], state)

QueueFits(queued, state) ==
  /\ queued \in Seq(Seq(Calls)) /\ Len(queued) <= MaxQueue
  /\ \A i \in 1 .. Len(queued) : Waiting(queued[i], state)

ScriptFits(running, state) ==
  /\ running \in ScriptType
  /\ Waiting(running.todo, state) \/ (running.step = "send" /\ Handing(running.todo, state))

IInv ==
  /\ network \in Networks
  /\ Sound(chain)
  /\ BundlesFit(bundles, chain)
  /\ QueueFits(queue, chain)
  /\ ScriptFits(script, chain)
  /\ crashes \in 0 .. MaxCrashes[network.governor]
  /\ hasty \subseteq NewContracts

(* The network never changes, and so neither does what the parts say; a    *)
(* hasty handover may only take something from it.                         *)
LEMMA PartsAfter ==
  ASSUME network' = network, hasty \subseteq hasty', hasty' \subseteq NewContracts,
         network \in Networks, Sound(chain'), BundlesFit(bundles', chain'),
         QueueFits(queue', chain'), ScriptFits(script, chain)',
         crashes' \in 0 .. MaxCrashes[network.governor]
  PROVE  IInv'
<1>1. Plain' = Plain
  BY DEF Plain, AllocationsValid
<1>2. Changes' = Changes
  BY <1>1 DEF Changes
<1>3. \A c \in NewContracts : Granted(chain', c) => Granted(chain, c)'
  BY DEF Granted, Trusted
<1>4. Sound(chain)'
  BY <1>3 DEF Sound, ChainType, Fed
<1>5. BundlesFit(bundles, chain)' /\ QueueFits(queue, chain)'
  BY <1>1, <1>2 DEF BundlesFit, QueueFits, Waiting, Fed
<1> QED
  BY <1>4, <1>5 DEF IInv

LEMMA IInvAfter ==
  ASSUME network' = network, hasty' = hasty, hasty \subseteq NewContracts,
         network \in Networks, Sound(chain'), BundlesFit(bundles', chain'),
         QueueFits(queue', chain'), ScriptFits(script', chain'),
         crashes' \in 0 .. MaxCrashes[network.governor]
  PROVE  IInv'
<1>1. Plain' = Plain
  BY DEF Plain, AllocationsValid
<1>2. Changes' = Changes
  BY <1>1 DEF Changes
<1>3. ScriptFits(script, chain)'
  BY <1>1, <1>2 DEF ScriptFits, Waiting, Handing, Granted, Trusted, Fed
<1> QED
  BY <1>3, PartsAfter

LEMMA IInvTypes ==
  ASSUME IInv
  PROVE  /\ network \in Networks /\ Sound(chain) /\ chain \in ChainType
         /\ bundles \in [Files -> Seq(Calls)] /\ \A file \in Files : Waiting(bundles[file], chain)
         /\ script \in ScriptType /\ NoFile \notin Files
<1>1. NoFile \notin Files
  BY DEF NoFile, Files
<1> QED
  BY <1>1 DEF IInv, Sound, BundlesFit, ScriptFits

(* What fits goes on fitting when calls have been made.                    *)
LEMMA FitsKept ==
  ASSUME IInv, NEW new, Kept(chain, new)
  PROVE  BundlesFit(bundles, new) /\ QueueFits(queue, new) /\ ScriptFits(script, new)
<1>1. \A calls : Waiting(calls, chain) => Waiting(calls, new)
  BY WaitingKept
<1>2. \A calls : Handing(calls, chain) => Handing(calls, new)
  BY WaitingKept
<1> QED
  BY <1>1, <1>2 DEF IInv, BundlesFit, QueueFits, ScriptFits

(* Steps that leave the chain and the Safe alone.                          *)
LEMMA Resting ==
  ASSUME IInv, Unchanged, BundlesFit(bundles', chain), ScriptFits(script', chain)
  PROVE  IInv'
<1>1. network' = network /\ chain' = chain /\ queue' = queue /\ crashes' = crashes /\ hasty' = hasty
  BY DEF Unchanged
<1>2. /\ network \in Networks /\ Sound(chain) /\ QueueFits(queue, chain)
      /\ crashes \in 0 .. MaxCrashes[network.governor] /\ hasty \subseteq NewContracts
  BY DEF IInv
<1>3. /\ Sound(chain') /\ BundlesFit(bundles', chain') /\ QueueFits(queue', chain')
      /\ ScriptFits(script', chain') /\ crashes' \in 0 .. MaxCrashes[network.governor]
  BY <1>1, <1>2
<1> QED
  BY <1>1, <1>2, <1>3, IInvAfter

LEMMA EmptyWaits ==
  ASSUME NEW state
  PROVE  Waiting(<<>>, state) /\ <<>> \in Seq(Calls) /\ <<>> \in Seq(Plain)
<1>1. <<>> \in Seq(Plain) /\ <<>> \in Seq(Calls)
  OBVIOUS
<1> QED
  BY <1>1, PlainWaits

LEMMA IdleFits ==
  ASSUME NEW state
  PROVE  ScriptFits(Idle, state) /\ ScriptFits([Idle EXCEPT !.step = "gather"], state)
<1>1. /\ Idle \in ScriptType /\ [Idle EXCEPT !.step = "gather"] \in ScriptType
      /\ Idle.todo = <<>> /\ [Idle EXCEPT !.step = "gather"].todo = <<>>
  BY EmptyWaits DEF Idle, ScriptType
<1> QED
  BY <1>1, EmptyWaits DEF ScriptFits

LEMMA WaitingType ==
  ASSUME NEW calls, NEW state, Waiting(calls, state) \/ Handing(calls, state)
  PROVE  calls \in Seq(Calls)
<1>1. CASE Waiting(calls, state)
  <2>1. Changes \subseteq Calls /\ calls \in Seq(Changes)
    BY <1>1, PlainChanges DEF Waiting
  <2> QED BY <2>1
<1>2. CASE Handing(calls, state)
  <2>1. \A c \in NewContracts : Revoke(c) \in Calls /\ TransferAdmin(c) \in Calls
    BY CallKinds DEF Handover
  <2> HIDE DEF NewContracts
  <2>2. PICK c \in NewContracts : calls \in {<<Revoke(c), TransferAdmin(c)>>, <<Revoke(c)>>,
                                             <<TransferAdmin(c)>>}
    BY <1>2 DEF Handing
  <2>3. /\ <<Revoke(c), TransferAdmin(c)>> \in Seq(Calls) /\ <<Revoke(c)>> \in Seq(Calls)
        /\ <<TransferAdmin(c)>> \in Seq(Calls)
    BY <2>1
  <2> QED BY <2>2, <2>3
<1> QED
  BY <1>1, <1>2

LEMMA SendFits ==
  ASSUME NEW calls, Waiting(calls, chain) \/ Handing(calls, chain),
         NEW sender \in {"deployer", "governor"}, NEW moves \in Files \cup {NoFile},
         Send(calls, sender, moves)
  PROVE  ScriptFits(script', chain)
<1> DEFINE running == [step |-> "send", todo |-> calls, sender |-> sender, file |-> NoFile, moves |-> moves]
<1>1. running \in ScriptType /\ running.todo = calls /\ running.step = "send"
  BY WaitingType DEF ScriptType
<1>2. script' = running
  BY DEF Send
<1> HIDE DEF running
<1> QED
  BY <1>1, <1>2 DEF ScriptFits

LEMMA GovernFits ==
  ASSUME IInv, NEW file \in Files, NEW calls, Waiting(calls, chain),
         NEW moves \in Files \cup {NoFile}, Govern(file, calls, moves)
  PROVE  BundlesFit(bundles', chain) /\ ScriptFits(script', chain)
<1> DEFINE running == [step |-> IF network.governor = "sign" THEN "send" ELSE "save", todo |-> calls,
                       sender |-> "governor", file |-> file, moves |-> moves]
<1>1. running \in ScriptType /\ running.todo = calls
  BY WaitingType DEF ScriptType
<1>2. script' = running
  BY DEF Govern
<1>3. bundles' = [bundles EXCEPT ![file] = <<>>]
  BY DEF Govern
<1> HIDE DEF running
<1>4. ScriptFits(script', chain)
  BY <1>1, <1>2 DEF ScriptFits
<1>5. BundlesFit(bundles', chain)
  BY <1>3, IInvTypes, EmptyWaits DEF BundlesFit
<1> QED
  BY <1>4, <1>5

LEMMA BundlesStay ==
  ASSUME IInv, UNCHANGED bundles
  PROVE  BundlesFit(bundles', chain)
BY DEF IInv

-----------------------------------------------------------------------------
(* The lists of calls of the scripts.                                      *)

LEMMA ConfigurationPlain ==
  ASSUME NEW contract \in NewContracts
  PROVE  Configuration[contract] \in Seq(Plain)
<1>1. \A d \in NewContracts : \A i \in DOMAIN Configuration[d] : Configuration[d][i] \in Plain
  <2>1. \A d \in NewContracts : \A i \in DOMAIN Configuration[d] : Configuration[d][i] \in Settings
    BY DEF Settings
  <2> QED BY <2>1, SettingsPlain
<1>2. Configuration["IA"] \in Seq(Plain)
  <2>1. PICK a, b, c : Configuration["IA"] = <<a, b, c>>
    BY Configurations
  <2>2. DOMAIN Configuration["IA"] = 1 .. 3 /\ "IA" \in NewContracts
    BY <2>1 DEF NewContracts
  <2>3. \A i \in 1 .. 3 : Configuration["IA"][i] \in Plain
    BY <1>1, <2>2
  <2>4. a \in Plain /\ b \in Plain /\ c \in Plain
    BY <2>1, <2>3
  <2>5. <<a, b, c>> \in Seq(Plain)
    BY ONLY <2>4
  <2> QED BY <2>1, <2>5
<1>3. Configuration["DA"] \in Seq(Plain)
  <2>1. PICK a, b : Configuration["DA"] = <<a, b>>
    BY Configurations
  <2>2. DOMAIN Configuration["DA"] = 1 .. 2 /\ "DA" \in NewContracts
    BY <2>1 DEF NewContracts
  <2>3. \A i \in 1 .. 2 : Configuration["DA"][i] \in Plain
    BY <1>1, <2>2
  <2>4. a \in Plain /\ b \in Plain
    BY <2>1, <2>3
  <2>5. <<a, b>> \in Seq(Plain)
    BY ONLY <2>4
  <2> QED BY <2>1, <2>5
<1>4. Configuration["RAM"] \in Seq(Plain)
  <2>1. PICK a, b, c, d, e : Configuration["RAM"] = <<a, b, c, d, e>>
    BY Configurations
  <2>2. DOMAIN Configuration["RAM"] = 1 .. 5 /\ "RAM" \in NewContracts
    BY <2>1 DEF NewContracts
  <2>3. \A i \in 1 .. 5 : Configuration["RAM"][i] \in Plain
    BY <1>1, <2>2
  <2>4. a \in Plain /\ b \in Plain /\ c \in Plain /\ d \in Plain /\ e \in Plain
    BY <2>1, <2>3
  <2>5. <<a, b, c, d, e>> \in Seq(Plain)
    BY ONLY <2>4
  <2> QED BY <2>1, <2>5
<1>5. Configuration["Reclaim"] \in Seq(Plain)
  <2>1. PICK a, b : Configuration["Reclaim"] = <<a, b>>
    BY Configurations
  <2>2. DOMAIN Configuration["Reclaim"] = 1 .. 2 /\ "Reclaim" \in NewContracts
    BY <2>1 DEF NewContracts
  <2>3. \A i \in 1 .. 2 : Configuration["Reclaim"][i] \in Plain
    BY <1>1, <2>2
  <2>4. a \in Plain /\ b \in Plain
    BY <2>1, <2>3
  <2>5. <<a, b>> \in Seq(Plain)
    BY ONLY <2>4
  <2> QED BY <2>1, <2>5
<1>6. Configuration["REO"] \in Seq(Plain)
  <2>1. PICK a, b, c : Configuration["REO"] = <<a, b, c>>
    BY Configurations
  <2>2. DOMAIN Configuration["REO"] = 1 .. 3 /\ "REO" \in NewContracts
    BY <2>1 DEF NewContracts
  <2>3. \A i \in 1 .. 3 : Configuration["REO"][i] \in Plain
    BY <1>1, <2>2
  <2>4. a \in Plain /\ b \in Plain /\ c \in Plain
    BY <2>1, <2>3
  <2>5. <<a, b, c>> \in Seq(Plain)
    BY ONLY <2>4
  <2> QED BY <2>1, <2>5
<1> QED
  BY <1>2, <1>3, <1>4, <1>5, <1>6 DEF NewContracts

LEMMA ConfigurationNames ==
  /\ Configuration["IA"] = AllocatorConfiguration /\ Configuration["DA"] = AllocationConfiguration
  /\ Configuration["RAM"] = ManagerConfiguration /\ Configuration["Reclaim"] = ReclaimConfiguration
  /\ Configuration["REO"] = OracleConfiguration
BY DEF Configuration

LEMMA DeferredPlain == DeferredNewContractConfig \in Seq(Plain)
<1>1. /\ AllocatorConfiguration \in Seq(Plain) /\ AllocationConfiguration \in Seq(Plain)
      /\ ManagerConfiguration \in Seq(Plain) /\ ReclaimConfiguration \in Seq(Plain)
      /\ OracleConfiguration \in Seq(Plain)
  BY ConfigurationPlain, ConfigurationNames DEF NewContracts
<1> DEFINE first == IF network.rate = 0 THEN <<>> ELSE AllocatorConfiguration
           second == first \o AllocationConfiguration
           third == second \o ManagerConfiguration
           fourth == third \o ReclaimConfiguration
<1>2. first \in Seq(Plain)
  BY <1>1, EmptyWaits
<1>3. second \in Seq(Plain)
  <2> HIDE DEF first
  <2> QED BY <1>1, <1>2, ConcatProperties
<1>4. third \in Seq(Plain)
  <2> HIDE DEF second
  <2> QED BY <1>1, <1>3, ConcatProperties
<1>5. fourth \in Seq(Plain)
  <2> HIDE DEF third
  <2> QED BY <1>1, <1>4, ConcatProperties
<1>6. fourth \o OracleConfiguration \in Seq(Plain)
  <2> HIDE DEF fourth
  <2> QED BY <1>1, <1>5, ConcatProperties
<1> QED
  BY <1>6 DEF DeferredNewContractConfig

LEMMA ExistingPlain ==
  ASSUME NEW gathered
  PROVE  ExistingContractConfig(gathered) \in Seq(Plain)
<1> DEFINE first == <<PauseGuardian>>
           rest == IF Upgraded \/ gathered # <<>> THEN <<ReclaimAddress, RevertSetting>> ELSE <<>>
<1>1. PauseGuardian \in Plain /\ ReclaimAddress \in Plain /\ RevertSetting \in Plain
  BY OthersPlain
<1>2. first \in Seq(Plain) /\ rest \in Seq(Plain)
  BY <1>1
<1>3. first \o rest \in Seq(Plain)
  <2> HIDE DEF first, rest
  <2> QED BY <1>2, ConcatProperties
<1> QED
  BY <1>3 DEF ExistingContractConfig

(* A list that starts with the part of the RewardsManager waits.           *)
LEMMA StartWaits ==
  ASSUME NEW state, NEW s, NEW t \in Seq(Changes),
         s = <<AllToRM>> \/ (Fed(state) /\ s = <<>>)
  PROVE  Waiting(s \o t, state)
<1>1. AllToRM \in Changes
  BY OthersPlain, PlainChanges
<1>2. s \in Seq(Changes)
  <2>1. <<AllToRM>> \in Seq(Changes)
    BY <1>1
  <2>2. <<>> \in Seq(Changes)
    OBVIOUS
  <2> QED BY <2>1, <2>2
<1>3. /\ s \o t \in Seq(Changes) /\ Len(s \o t) = Len(s) + Len(t)
      /\ \A i \in 1 .. Len(s) + Len(t) : (s \o t)[i] = IF i <= Len(s) THEN s[i] ELSE t[i - Len(s)]
  BY <1>2, ConcatProperties
<1>4. CASE Fed(state)
  BY <1>3, <1>4 DEF Waiting
<1>5. CASE s = <<AllToRM>>
  <2>1. Len(s) = 1 /\ s[1] = AllToRM
    BY <1>5
  <2>2. Len(s \o t) # 0 /\ (s \o t)[1] = AllToRM
    BY <1>3, <2>1
  <2>3. s \o t # <<>>
    BY <2>2
  <2> QED BY <1>3, <2>2, <2>3 DEF Waiting
<1> QED
  BY <1>4, <1>5

LEMMA ConcatPair ==
  ASSUME NEW a, NEW b
  PROVE  <<a>> \o <<b>> = <<a, b>>
<1> DEFINE S == {a, b}
           s == <<a>>
           t == <<b>>
           u == <<a, b>>
<1>1. /\ s \in Seq(S) /\ Len(s) = 1 /\ s[1] = a
      /\ t \in Seq(S) /\ Len(t) = 1 /\ t[1] = b
      /\ u \in Seq(S) /\ Len(u) = 2 /\ u[1] = a /\ u[2] = b
  OBVIOUS
<1> HIDE DEF S, s, t, u
<1>2. /\ s \o t \in Seq(S) /\ Len(s \o t) = Len(s) + Len(t)
      /\ \A i \in 1 .. Len(s) + Len(t) : (s \o t)[i] = IF i <= Len(s) THEN s[i] ELSE t[i - Len(s)]
  BY <1>1, ConcatProperties
<1>3. Len(s \o t) = 2 /\ (s \o t)[1] = s[1] /\ (s \o t)[2] = t[1]
  BY <1>1, <1>2
<1>4. \A i \in 1 .. Len(s \o t) : (s \o t)[i] = u[i]
  <2>1. \A i \in 1 .. 2 : i = 1 \/ i = 2
    OBVIOUS
  <2> QED BY <1>1, <1>3, <2>1
<1>5. s \o t = u
  BY <1>1, <1>2, <1>3, <1>4, SeqEqual
<1> QED
  BY <1>5 DEF s, t, u

-----------------------------------------------------------------------------
(* The scripts.                                                            *)

LEMMA ConfigureStep_IInv ==
  ASSUME IInv, NEW c \in NewContracts, Configure(c)
  PROVE  IInv'
<1>1. Missing(Configuration[c]) \in Seq(Plain)
  BY ConfigurationPlain, MissingType
<1>2. Waiting(Missing(Configuration[c]), chain)
  BY <1>1, PlainWaits
<1>3. ScriptFits(script', chain)
  BY <1>2, SendFits DEF Configure
<1> QED
  BY <1>3, BundlesStay, Resting DEF Configure

LEMMA ConfigureCollector_IInv ==
  ASSUME IInv, ConfigureCollector
  PROVE  IInv'
<1>1. <<PauseGuardian>> \in Seq(Plain)
  BY OthersPlain
<1>2. Missing(<<PauseGuardian>>) \in Seq(Plain)
  BY <1>1, MissingType
<1>3. Waiting(Missing(<<PauseGuardian>>), chain)
  BY <1>2, PlainWaits
<1>4. ScriptFits(script', chain)
  BY <1>3, SendFits DEF ConfigureCollector
<1> QED
  BY <1>4, BundlesStay, Resting DEF ConfigureCollector

LEMMA OracleComplete ==
  ASSUME OracleConfigured
  PROVE  /\ Applied(<<"REO", "governor">>) /\ Applied(<<"REO", "pause">>)
         /\ Applied(<<"REO", "operator">>)
<1>1. OracleConfiguration \in Seq(Plain)
  BY ConfigurationPlain, ConfigurationNames DEF NewContracts
<1>2. /\ Len(OracleConfiguration) = 3
      /\ OracleConfiguration[1] = <<"REO", "pause">> /\ OracleConfiguration[2] = <<"REO", "operator">>
      /\ OracleConfiguration[3] = <<"REO", "governor">>
  BY DEF OracleConfiguration
<1>3. \A i \in 1 .. Len(OracleConfiguration) : Applied(OracleConfiguration[i])
  BY <1>1, MissingNone DEF OracleConfigured
<1> QED
  BY <1>2, <1>3

(* A contract without a configuration issue has the governor's role.       *)
LEMMA ConfiguredGranted ==
  ASSUME network \in Networks, NEW c \in NewContracts, ~ConfigurationIssue(c)
  PROVE  Granted(chain, c)
<1>1. CASE c = "IA" /\ network.rate = 0
  BY <1>1, NetworkFacts DEF Granted, Trusted
<1>2. CASE Configured(c)
  <2>1. ASSUME RolesGranted(c) PROVE Applied(<<c, "governor">>)
    BY <2>1 DEF RolesGranted, RoleGrants
  <2>2. Applied(<<c, "governor">>)
    BY <1>2, <2>1, OracleComplete DEF Configured, AllocatorConfigured, AllocationConfigured,
       ManagerConfigured, ReclaimConfigured, NewContracts
  <2> QED BY <2>2 DEF Granted, Applied
<1> QED
  BY <1>1, <1>2 DEF ConfigurationIssue

(* The governor has the role of what is handed over: the status, or the    *)
(* script of the oracle, has checked it; the rest is hasty.                *)
LEMMA HandedGranted ==
  ASSUME IInv, NEW c \in NewContracts, c \in chain.deployerGoverns, Transfer(c),
         c = "REO" => OracleConfigured
  PROVE  Granted(chain, c)'
<1>1. /\ network' = network /\ chain' = chain /\ network \in Networks
      /\ hasty' = IF NextStep = "transfer" THEN hasty ELSE hasty \union {c}
  BY DEF Transfer, HandOver, IInv
<1>2. CASE c = "REO"
  <2>1. <<"REO", "governor">> \in chain.applied
    BY <1>2, OracleComplete DEF Applied
  <2> QED BY <1>1, <1>2, <2>1 DEF Granted
<1>3. CASE NextStep = "transfer"
  <2>1. c \in chain.deployerOwns
    BY DEF IInv, Sound
  <2>2. ~ConfigurationIssue(c)
    BY <1>3, <2>1 DEF NextStep
  <2>3. Granted(chain, c)
    BY <1>1, <2>2, ConfiguredGranted
  <2> QED BY <1>1, <1>3, <2>3 DEF Granted, Trusted
<1>4. CASE NextStep # "transfer" /\ c # "REO"
  <2>1. c \in hasty' \ {"REO"}
    BY <1>1, <1>4
  <2> QED BY <2>1 DEF Granted, Trusted
<1> QED
  BY <1>2, <1>3, <1>4

LEMMA Transfer_IInv ==
  ASSUME IInv, NEW c \in NewContracts, Transfer(c), c = "REO" => OracleConfigured
  PROVE  IInv'
<1> DEFINE first == IF c \in chain.deployerGoverns THEN <<Revoke(c)>> ELSE <<>>
           second == TransferProxyAdminOwnership(c)
<1>1. /\ network \in Networks /\ Sound(chain) /\ QueueFits(queue, chain)
      /\ BundlesFit(bundles, chain) /\ crashes \in 0 .. MaxCrashes[network.governor]
      /\ hasty \subseteq NewContracts /\ chain.deployerGoverns \subseteq chain.deployerOwns
  BY DEF IInv, Sound
<1>2. /\ network' = network /\ chain' = chain /\ bundles' = bundles /\ queue' = queue
      /\ crashes' = crashes /\ Send(first \o second, "deployer", NoFile)
  BY DEF Transfer
<1>3. /\ hasty \subseteq hasty' /\ hasty' \subseteq NewContracts
      /\ c \notin chain.deployerGoverns => hasty' = hasty
  BY <1>1 DEF Transfer, HandOver
<1>4. CASE c \in chain.deployerGoverns
  <2>1. c \in chain.deployerOwns
    BY <1>1, <1>4
  <2>2. Granted(chain, c)'
    BY <1>4, HandedGranted
  <2>3. first = <<Revoke(c)>> /\ second = <<TransferAdmin(c)>>
    BY <1>4, <2>1 DEF TransferProxyAdminOwnership
  <2>4. first \o second = <<Revoke(c), TransferAdmin(c)>>
    BY <2>3, ConcatPair
  <2> DEFINE calls == <<Revoke(c), TransferAdmin(c)>>
  <2>5. calls \in Seq(Calls)
    <3>1. Revoke(c) \in Calls /\ TransferAdmin(c) \in Calls
      BY CallKinds DEF Handover
    <3> QED BY <3>1
  <2>6. script' = [step |-> "send", todo |-> calls, sender |-> "deployer", file |-> NoFile,
                   moves |-> NoFile]
    <3> HIDE DEF first, second, calls
    <3> QED BY <1>2, <2>4 DEF Send, calls
  <2> HIDE DEF calls
  <2>7. script' \in ScriptType /\ script'.step = "send" /\ script'.todo = calls
    BY <2>5, <2>6 DEF ScriptType
  <2>8. Handing(script.todo, chain)'
    BY <2>2, <2>7 DEF Handing, calls
  <2>9. ScriptFits(script, chain)'
    BY <2>7, <2>8 DEF ScriptFits
  <2> HIDE DEF first, second
  <2>10. /\ Sound(chain') /\ BundlesFit(bundles', chain') /\ QueueFits(queue', chain')
         /\ crashes' \in 0 .. MaxCrashes[network.governor]
    BY <1>1, <1>2
  <2> QED BY <1>1, <1>2, <1>3, <2>9, <2>10, PartsAfter
<1>5. CASE c \notin chain.deployerGoverns
  <2>1. first = <<>> /\ second \in {<<>>, <<TransferAdmin(c)>>}
    BY <1>5 DEF TransferProxyAdminOwnership
  <2>2. <<TransferAdmin(c)>> \in Seq({TransferAdmin(c)}) /\ <<>> \in Seq({TransferAdmin(c)})
    OBVIOUS
  <2>3. first \o second = second
    <3> HIDE DEF second, first
    <3> QED BY <2>1, <2>2, ConcatEmptySeq
  <2>4. Handing(<<TransferAdmin(c)>>, chain)
    BY <1>5 DEF Handing
  <2> HIDE DEF second, first
  <2>5. Waiting(first \o second, chain) \/ Handing(first \o second, chain)
    BY <2>1, <2>3, <2>4, EmptyWaits
  <2>6. ScriptFits(script', chain)
    BY <1>2, <2>5, SendFits
  <2>7. hasty' = hasty
    BY <1>3, <1>5
  <2> QED BY <1>1, <1>2, <2>6, <2>7, IInvAfter
<1> QED
  BY <1>4, <1>5

LEMMA TransferGovernance_IInv ==
  ASSUME IInv, NEW c \in NewContracts, TransferGovernance(c)
  PROVE  IInv'
<1>1. Transfer(c) /\ (c = "REO" => OracleConfigured)
  BY DEF TransferGovernance, AllocatorTransfer, AllocationTransfer, ManagerTransfer, ReclaimTransfer,
     OracleTransfer
<1> QED
  BY <1>1, Transfer_IInv

LEMMA UpgradeComponents_IInv ==
  ASSUME IInv, UpgradeComponents
  PROVE  IInv'
<1> DEFINE calls == Missing(<<Upgrade>>)
<1>1. calls \in Seq(Plain)
  <2>1. <<Upgrade>> \in Seq(Plain)
    BY OthersPlain
  <2> QED BY <2>1, MissingType
<1>2. bundles' = [bundles EXCEPT !["upgrade-RewardsManager"] = calls]
  BY DEF UpgradeComponents
<1> HIDE DEF calls
<1>3. BundlesFit(bundles', chain)
  <2>1. Waiting(calls, chain) /\ calls \in Seq(Calls)
    BY <1>1, PlainWaits, WaitingType
  <2> QED BY <1>2, <2>1, IInvTypes DEF BundlesFit
<1>4. ScriptFits(script', chain)
  BY IdleFits DEF UpgradeComponents
<1> QED
  BY <1>3, <1>4, Resting DEF UpgradeComponents

LEMMA UpgradeAll_IInv ==
  ASSUME IInv, UpgradeAll
  PROVE  IInv'
<1> DEFINE gathered == bundles["upgrade-RewardsManager"]
           settings == Missing(ExistingContractConfig(gathered))
           deferred == Missing(DeferredNewContractConfig)
           calls == (gathered \o settings) \o deferred
           moves == IF gathered # <<>> THEN "upgrade-RewardsManager" ELSE NoFile
<1>1. "upgrade-RewardsManager" \in Files /\ "gip-0088-upgrades" \in Files
  BY DEF Files
<1>2. settings \in Seq(Plain) /\ deferred \in Seq(Plain)
  BY ExistingPlain, DeferredPlain, MissingType
<1>3. Waiting(calls, chain)
  <2>1. Waiting(gathered, chain)
    BY <1>1, IInvTypes
  <2> HIDE DEF gathered, settings, deferred
  <2>2. Waiting(gathered \o settings, chain)
    BY <1>2, <2>1, WaitsAfter
  <2> QED BY <1>2, <2>2, WaitsAfter
<1>4. moves \in Files \cup {NoFile}
  BY <1>1
<1>5. \/ bundles' = [bundles EXCEPT !["gip-0088-upgrades"] = <<>>] /\ script' = Idle
      \/ Govern("gip-0088-upgrades", calls, moves)
  BY DEF UpgradeAll
<1>6. Unchanged
  BY DEF UpgradeAll
<1> HIDE DEF calls, moves
<1>7. CASE bundles' = [bundles EXCEPT !["gip-0088-upgrades"] = <<>>] /\ script' = Idle
  <2>1. BundlesFit(bundles', chain)
    BY <1>7, IInvTypes, EmptyWaits DEF BundlesFit
  <2> QED BY <1>6, <1>7, <2>1, IdleFits, Resting
<1>8. CASE Govern("gip-0088-upgrades", calls, moves)
  BY <1>1, <1>3, <1>4, <1>6, <1>8, GovernFits, Resting
<1> QED
  BY <1>5, <1>7, <1>8

LEMMA Connect_IInv ==
  ASSUME IInv, NEW sequenced \in BOOLEAN, Connect(sequenced)
  PROVE  IInv'
<1> DEFINE first == IF ~sequenced /\ RMAllocationShape /\ FullyAllocated THEN <<>> ELSE <<AllToRM>>
           second == IF sequenced THEN <<Integration, Minter>> ELSE Missing(<<Integration, Minter>>)
           third == Missing(<<DefaultTarget>>)
<1>1. second \in Seq(Changes)
  <2>1. Integration \in Changes /\ Minter \in Changes
    BY OthersPlain, PlainChanges DEF Changes
  <2>2. <<Integration, Minter>> \in Seq(Changes)
    BY <2>1
  <2>3. Missing(<<Integration, Minter>>) \in Seq(Changes)
    BY <2>2, MissingType
  <2> QED BY <2>2, <2>3
<1>2. third \in Seq(Plain)
  <2>1. <<DefaultTarget>> \in Seq(Plain)
    BY OthersPlain
  <2> QED BY <2>1, MissingType
<1>3. first = <<AllToRM>> \/ (Fed(chain) /\ first = <<>>)
  <2>1. chain.allocation["RM"] \in Nat /\ (chain.allocation["RM"] = 0 \/ Fed(chain))
    BY IInvTypes, NetworkFacts DEF Sound, ChainType
  <2> QED BY <2>1 DEF RMAllocationShape
<1>4. Govern("gip-0088-issuance-connect", (first \o second) \o third, NoFile) /\ Unchanged
  BY DEF Connect
<1> HIDE DEF first, second, third
<1>5. Waiting(first \o second, chain)
  BY <1>1, <1>3, StartWaits
<1>6. Waiting((first \o second) \o third, chain)
  BY <1>2, <1>5, WaitsAfter
<1> DEFINE calls == (first \o second) \o third
<1> HIDE DEF calls
<1>7. Waiting(calls, chain) /\ Govern("gip-0088-issuance-connect", calls, NoFile)
  BY <1>4, <1>6 DEF calls
<1>8. "gip-0088-issuance-connect" \in Files
  BY DEF Files
<1> QED
  BY <1>4, <1>7, <1>8, GovernFits, Resting

LEMMA Allocate_IInv ==
  ASSUME IInv, Allocate
  PROVE  IInv'
<1> DEFINE rmDelta  == network.rate - network.share - chain.allocation["RM"]
           ramDelta == network.share - chain.allocation["RAM"]
           toRM     == IF rmDelta = 0 THEN <<>> ELSE <<RestToRM>>
           toRAM    == IF ramDelta = 0 THEN <<>> ELSE <<ShareToRAM>>
           calls    == IF rmDelta <= ramDelta THEN toRM \o toRAM ELSE toRAM \o toRM
<1>1. RestToRM \in Plain /\ ShareToRAM \in Plain
  BY OthersPlain DEF Allocate
<1>2. toRM \in Seq(Plain) /\ toRAM \in Seq(Plain)
  BY <1>1, EmptyWaits
<1>3. calls \in Seq(Plain)
  <2> HIDE DEF toRM, toRAM
  <2>1. toRM \o toRAM \in Seq(Plain) /\ toRAM \o toRM \in Seq(Plain)
    BY <1>2, ConcatProperties
  <2> QED BY <2>1
<1>4. /\ Unchanged
      /\ \/ Send(calls, "deployer", NoFile) /\ UNCHANGED bundles
         \/ Govern("gip-0088-issuance-allocate", calls, NoFile)
  BY DEF Allocate
<1> HIDE DEF calls
<1>5. Waiting(calls, chain)
  BY <1>3, PlainWaits
<1>6. CASE Send(calls, "deployer", NoFile) /\ UNCHANGED bundles
  BY <1>4, <1>5, <1>6, SendFits, BundlesStay, Resting
<1>7. CASE Govern("gip-0088-issuance-allocate", calls, NoFile)
  <2>1. "gip-0088-issuance-allocate" \in Files
    BY DEF Files
  <2> QED BY <1>4, <1>5, <1>7, <2>1, GovernFits, Resting
<1> QED
  BY <1>4, <1>6, <1>7

LEMMA Integrate_IInv ==
  ASSUME IInv, NEW sequenced \in BOOLEAN, Integrate(sequenced)
  PROVE  IInv'
<1> DEFINE due == (IF Upgraded THEN <<RMOracle>> ELSE <<>>) \o <<RAMOracle>>
           calls == IF ~network.oracle THEN <<>>
                    ELSE IF sequenced THEN <<RMOracle, RAMOracle>> ELSE Missing(due)
<1>1. ASSUME network.oracle PROVE calls \in Seq(Plain)
  <2>1. RMOracle \in Plain /\ RAMOracle \in Plain
    BY <1>1, OthersPlain
  <2>2. <<RMOracle, RAMOracle>> \in Seq(Plain) /\ <<RMOracle>> \in Seq(Plain) /\ <<RAMOracle>> \in Seq(Plain)
    BY <2>1
  <2>3. due \in Seq(Plain)
    <3> DEFINE a == IF Upgraded THEN <<RMOracle>> ELSE <<>>
               b == <<RAMOracle>>
    <3>1. a \in Seq(Plain) /\ b \in Seq(Plain)
      BY <2>2, EmptyWaits
    <3>2. a \o b \in Seq(Plain)
      <4> HIDE DEF a, b
      <4> QED BY <3>1, ConcatProperties
    <3> QED BY <3>2
  <2>4. Missing(due) \in Seq(Plain)
    <3> HIDE DEF due
    <3> QED BY <2>3, MissingType
  <2> HIDE DEF due
  <2> QED BY <1>1, <2>2, <2>4
<1>2. calls \in Seq(Plain)
  BY <1>1, EmptyWaits
<1>3. /\ Unchanged
      /\ \/ /\ bundles' = [bundles EXCEPT !["gip-0088-eligibility-integrate"] = <<>>]
            /\ UNCHANGED script
         \/ Govern("gip-0088-eligibility-integrate", calls, NoFile)
  BY DEF Integrate
<1> HIDE DEF calls
<1>4. "gip-0088-eligibility-integrate" \in Files /\ Waiting(calls, chain)
  BY <1>2, PlainWaits DEF Files
<1>5. CASE Govern("gip-0088-eligibility-integrate", calls, NoFile)
  BY <1>3, <1>4, <1>5, GovernFits, Resting
<1>6. CASE /\ bundles' = [bundles EXCEPT !["gip-0088-eligibility-integrate"] = <<>>]
           /\ UNCHANGED script
  <2>1. BundlesFit(bundles', chain)
    BY <1>6, IInvTypes, EmptyWaits DEF BundlesFit
  <2>2. ScriptFits(script', chain)
    BY <1>6 DEF IInv
  <2> QED BY <1>3, <2>1, <2>2, Resting
<1> QED
  BY <1>3, <1>5, <1>6

LEMMA GuardClosing_IInv ==
  ASSUME IInv, GuardClosing
  PROVE  IInv'
<1>1. <<CloseGuard>> \in Seq(Plain)
  BY OthersPlain
<1>2. Waiting(<<CloseGuard>>, chain) /\ "gip-0088-issuance-close-guard" \in Files
  BY <1>1, PlainWaits DEF Files
<1> QED
  BY <1>2, GovernFits, Resting DEF GuardClosing

LEMMA Execute_IInv ==
  ASSUME IInv, NEW file \in Files, Execute(file)
  PROVE  IInv'
<1>1. Waiting(bundles[file], chain)
  BY IInvTypes
<1>2. ScriptFits(script', chain)
  BY <1>1, SendFits DEF Execute
<1> QED
  BY <1>2, BundlesStay, Resting DEF Execute

(* A transaction is made when it is due, or stops the script.              *)
LEMMA SendNext_IInv ==
  ASSUME IInv, SendNext
  PROVE  IInv' /\ Kept(chain, chain')
<1> DEFINE calls == script.todo
           new == Effect(chain, Head(calls))
<1>1. /\ network \in Networks /\ Sound(chain) /\ script \in ScriptType
      /\ Waiting(calls, chain) \/ Handing(calls, chain)
      /\ crashes \in 0 .. MaxCrashes[network.governor] /\ hasty \subseteq NewContracts
  BY DEF IInv, ScriptFits
<1>2. script.step = "send" /\ calls # <<>>
  BY DEF SendNext
<1>3. /\ network' = network /\ bundles' = bundles /\ queue' = queue /\ crashes' = crashes
      /\ hasty' = hasty
  BY DEF SendNext
<1>4. CASE Permitted(chain, Head(calls), script.sender)
  <2>1. chain' = new /\ script' = [script EXCEPT !.todo = Tail(calls)]
    BY <1>4 DEF SendNext
  <2>2. Due(Head(calls), chain)
    <3> HIDE DEF calls
    <3> QED BY <1>1, <1>2, HeadDue
  <2>3. Sound(new) /\ Kept(chain, new)
    <3> HIDE DEF calls
    <3> QED BY <1>1, <1>4, <2>2, CallKeeps
  <2>4. Waiting(Tail(calls), new) \/ Handing(Tail(calls), new)
    <3> HIDE DEF calls
    <3> QED BY <1>1, <1>2, <1>4, TailWaits
  <2> HIDE DEF new, calls
  <2>5. Tail(calls) \in Seq(Calls)
    BY <2>4, WaitingType
  <2>6. script' \in ScriptType /\ script'.todo = Tail(calls) /\ script'.step = "send"
    BY <1>1, <1>2, <2>1, <2>5 DEF ScriptType
  <2>7. ScriptFits(script', new)
    BY <2>4, <2>6 DEF ScriptFits
  <2>8. BundlesFit(bundles, new) /\ QueueFits(queue, new)
    BY <2>3, FitsKept
  <2> QED BY <1>1, <1>3, <2>1, <2>3, <2>7, <2>8, IInvAfter
<1>5. CASE ~Permitted(chain, Head(calls), script.sender)
  <2>1. chain' = chain /\ script' = Idle
    BY <1>5 DEF SendNext
  <2>2. /\ Sound(chain') /\ BundlesFit(bundles', chain') /\ QueueFits(queue', chain')
        /\ ScriptFits(script', chain')
    BY <1>3, <2>1, IdleFits DEF IInv
  <2> QED BY <1>1, <1>3, <2>1, <2>2, IInvAfter, KeptReflexive
<1> QED
  BY <1>4, <1>5

LEMMA SaveBundle_IInv ==
  ASSUME IInv, SaveBundle
  PROVE  IInv'
<1>1. script \in ScriptType /\ script.step = "save" /\ Waiting(script.todo, chain)
  BY DEF IInv, ScriptFits, SaveBundle
<1>2. /\ bundles' = [bundles EXCEPT ![script.file] = script.todo]
      /\ script' = [script EXCEPT !.step = "send", !.todo = <<>>]
  BY DEF SaveBundle
<1>3. script.todo \in Seq(Calls)
  BY <1>1, WaitingType
<1>4. BundlesFit(bundles', chain)
  BY <1>1, <1>2, <1>3, IInvTypes DEF BundlesFit
<1>5. script' \in ScriptType /\ script'.todo = <<>>
  BY <1>1, <1>2, EmptyWaits DEF ScriptType
<1>6. ScriptFits(script', chain)
  BY <1>5, EmptyWaits DEF ScriptFits
<1> QED
  BY <1>4, <1>6, Resting DEF SaveBundle

LEMMA EndScript_IInv ==
  ASSUME IInv, EndScript
  PROVE  IInv'
<1>1. BundlesFit(bundles', chain)
  BY IInvTypes, EmptyWaits DEF EndScript, BundlesFit
<1>2. ScriptFits(script', chain)
  BY IdleFits DEF EndScript
<1> QED
  BY <1>1, <1>2, Resting DEF EndScript

LEMMA Crash_IInv ==
  ASSUME IInv, Crash
  PROVE  IInv'
<1>1. network' = network /\ chain' = chain /\ bundles' = bundles /\ queue' = queue /\ script' = Idle
      /\ crashes' = crashes + 1 /\ crashes < MaxCrashes[network.governor] /\ hasty' = hasty
  BY DEF Crash
<1>2. network \in Networks /\ MaxCrashes[network.governor] \in Nat
  BY NetworkFacts, RolloutAssumption DEF IInv
<1>3. crashes' \in 0 .. MaxCrashes[network.governor]
  BY <1>1, <1>2 DEF IInv
<1>4. /\ Sound(chain') /\ BundlesFit(bundles', chain') /\ QueueFits(queue', chain')
      /\ ScriptFits(script', chain') /\ hasty \subseteq NewContracts
  BY <1>1, IdleFits DEF IInv
<1> QED
  BY <1>1, <1>2, <1>3, <1>4, IInvAfter

LEMMA Propose_IInv ==
  ASSUME IInv, NEW file \in Files, Propose(file)
  PROVE  IInv'
<1> DEFINE calls == bundles[file]
<1>1. Waiting(calls, chain) /\ calls \in Seq(Calls)
  BY IInvTypes
<1>2. /\ queue \in Seq(Seq(Calls)) /\ Len(queue) < MaxQueue
      /\ \A i \in 1 .. Len(queue) : Waiting(queue[i], chain)
  BY DEF IInv, QueueFits, Propose
<1>3. /\ queue' = Append(queue, calls) /\ network' = network /\ chain' = chain
      /\ bundles' = bundles /\ script' = script /\ crashes' = crashes /\ hasty' = hasty
  BY DEF Propose
<1> HIDE DEF calls
<1>4. /\ queue' \in Seq(Seq(Calls)) /\ Len(queue') = Len(queue) + 1
      /\ \A i \in 1 .. Len(queue) : queue'[i] = queue[i]
      /\ queue'[Len(queue) + 1] = calls
  <2> DEFINE T == Seq(Calls)
  <2>1. queue \in Seq(T) /\ calls \in T
    BY <1>1, <1>2
  <2> HIDE DEF T
  <2>2. /\ queue' \in Seq(T) /\ Len(queue') = Len(queue) + 1
        /\ \A i \in 1 .. Len(queue) : queue'[i] = queue[i]
        /\ queue'[Len(queue) + 1] = calls
    BY <1>3, <2>1, AppendProperties
  <2> QED BY <2>2 DEF T
<1>5. QueueFits(queue', chain)
  <2>1. Len(queue) \in Nat /\ MaxQueue \in Nat
    BY <1>2, RolloutAssumption
  <2>2. \A i \in 1 .. Len(queue) + 1 : i \in 1 .. Len(queue) \/ i = Len(queue) + 1
    BY <2>1
  <2>3. \A i \in 1 .. Len(queue') : Waiting(queue'[i], chain)
    BY <1>1, <1>2, <1>4, <2>2
  <2> QED BY <1>2, <1>4, <2>1, <2>3 DEF QueueFits
<1>6. /\ network \in Networks /\ Sound(chain') /\ BundlesFit(bundles', chain')
      /\ QueueFits(queue', chain') /\ ScriptFits(script', chain')
      /\ crashes' \in 0 .. MaxCrashes[network.governor] /\ hasty \subseteq NewContracts
  BY <1>3, <1>5 DEF IInv
<1> QED
  BY <1>3, <1>6, IInvAfter

-----------------------------------------------------------------------------
(* The Safe.                                                               *)

AnyChain ==
  [applied : SUBSET Calls, deployerGoverns : SUBSET network.fresh,
   deployerOwns : SUBSET network.fresh, allocation : [{"RM", "RAM"} -> Int]]

LEMMA EffectType ==
  ASSUME network \in Networks, NEW state \in AnyChain, NEW call \in Calls
  PROVE  Effect(state, call) \in AnyChain
<1> DEFINE new == Effect(state, call)
<1>1. CASE call \in Allocations
  <2>1. Rate(call) \in Int /\ Target(call) \in {"RM", "RAM"}
    BY <1>1, NetworkFacts DEF Rate, Allocations, AllToRM, RestToRM, ShareToRAM, Target
  <2>2. new = [state EXCEPT !.allocation[Target(call)] = Rate(call)]
    BY <1>1 DEF Effect
  <2> HIDE DEF new
  <2>3. new \in AnyChain
    BY <2>1, <2>2 DEF AnyChain
  <2> QED BY <2>3 DEF new
<1>2. CASE call \notin Allocations
  <2>1. \/ new = [state EXCEPT !.deployerGoverns = @ \ {call[1]}]
        \/ new = [state EXCEPT !.deployerOwns = @ \ {call[1]}]
        \/ new = [state EXCEPT !.applied = @ \union {call}]
    BY <1>2 DEF Effect
  <2> HIDE DEF new
  <2>2. new \in AnyChain
    BY <2>1 DEF AnyChain
  <2> QED BY <2>2 DEF new
<1> QED
  BY <1>1, <1>2

(* What executing a bundle comes to, call after call.                      *)
Executes(m, calls) ==
  /\ m[0] = [reverts |-> FALSE, state |-> chain]
  /\ \A i \in 1 .. Len(calls) :
       m[i] = IF m[i-1].reverts \/ ~Permitted(m[i-1].state, calls[i], "governor")
                THEN [reverts |-> TRUE, state |-> chain]
                ELSE [reverts |-> FALSE, state |-> Effect(m[i-1].state, calls[i])]

LEMMA SafeTurns ==
  ASSUME network \in Networks, chain \in AnyChain, SafeExecutes, Head(queue) \in Seq(Calls)
  PROVE  \E m : Executes(m, Head(queue)) /\ chain' = m[Len(Head(queue))].state
<1> DEFINE calls == Head(queue)
           n == Len(calls)
           Turn(r, call) == IF r.reverts \/ ~Permitted(r.state, call, "governor")
                              THEN [reverts |-> TRUE, state |-> chain]
                              ELSE [reverts |-> FALSE, state |-> Effect(r.state, call)]
           start == [reverts |-> FALSE, state |-> chain]
           Body(f, i) == IF i = 0 THEN start
                         ELSE IF f[i-1].reverts \/ ~Permitted(f[i-1].state, calls[i], "governor")
                                THEN [reverts |-> TRUE, state |-> chain]
                                ELSE [reverts |-> FALSE, state |-> Effect(f[i-1].state, calls[i])]
           after == CHOOSE f : f = [i \in 0 .. n |-> Body(f, i)]
           T == [reverts : BOOLEAN, state : AnyChain]
           next == [p \in (1 .. n) \X T |-> Turn(p[2], calls[p[1]])]
<1>1. n \in Nat /\ \A i \in 1 .. n : calls[i] \in Calls
  OBVIOUS
<1>2. ASSUME NEW r \in T, NEW call \in Calls  PROVE Turn(r, call) \in T
  <2>1. r.state \in AnyChain
    OBVIOUS
  <2>2. Effect(r.state, call) \in AnyChain
    BY <2>1, EffectType
  <2> QED BY <2>2
<1>3. next \in [(1 .. n) \X T -> T]
  <2> HIDE DEF Turn, T, n
  <2> SUFFICES ASSUME NEW p \in (1 .. n) \X T  PROVE Turn(p[2], calls[p[1]]) \in T
    OBVIOUS
  <2>1. p[2] \in T /\ calls[p[1]] \in Calls
    BY <1>1
  <2> QED BY <1>2, <2>1
<1>4. start \in T
  OBVIOUS
<1>5. PICK f \in [0 .. n -> T] : f[0] = start /\ \A i \in 1 .. n : f[i] = next[<<i, f[i - 1]>>]
  <2> HIDE DEF n, next, T, start
  <2>1. next \in Nexts(n, T)
    BY <1>3 DEF Nexts
  <2>2. PICK f \in [0 .. n -> T] : Follows(f, start, next, n)
    BY <1>1, <1>4, <2>1, RecursionExists
  <2> QED BY <2>2 DEF Follows
<1>6. f = [i \in 0 .. n |-> Body(f, i)]
  <2> SUFFICES ASSUME NEW i \in 0 .. n PROVE f[i] = Body(f, i)
    <3> HIDE DEF n, Body
    <3> QED BY <1>5
  <2>1. CASE i = 0
    BY <1>5, <2>1
  <2>2. CASE i # 0
    <3>1. i \in 1 .. n /\ i - 1 \in 0 .. n
      BY <2>2, <1>1
    <3>2. <<i, f[i - 1]>> \in (1 .. n) \X T
      <4> HIDE DEF T, n
      <4> QED BY <3>1, <1>5
    <3>3. f[i] = Turn(f[i - 1], calls[i])
      <4> HIDE DEF Turn, T, n
      <4> QED BY <1>5, <3>1, <3>2
    <3> QED BY <2>2, <3>3
  <2> QED BY <2>1, <2>2
<1>7. after = [i \in 0 .. n |-> Body(after, i)]
  <2> HIDE DEF Body, n
  <2> QED BY <1>6
<1>8. chain' = after[n].state
  BY DEF SafeExecutes
<1> HIDE DEF after
<1>9. after[0] = start
  <2>1. 0 \in 0 .. n
    BY <1>1
  <2> HIDE DEF n
  <2> QED BY <1>7, <2>1
<1>10. ASSUME NEW i \in 1 .. n
       PROVE  after[i] = IF after[i-1].reverts \/ ~Permitted(after[i-1].state, calls[i], "governor")
                           THEN [reverts |-> TRUE, state |-> chain]
                           ELSE [reverts |-> FALSE, state |-> Effect(after[i-1].state, calls[i])]
  <2>1. i \in 0 .. n /\ i # 0
    OBVIOUS
  <2>2. after[i] = Body(after, i)
    <3> HIDE DEF Body
    <3> QED BY <1>7, <2>1
  <2> QED BY <2>1, <2>2
<1>11. Executes(after, calls)
  <2> HIDE DEF calls
  <2> QED BY <1>9, <1>10 DEF Executes
<1> QED
  BY <1>8, <1>11

(* All of a bundle, or nothing of it: either way the chain stays sound.    *)
LEMMA BundleKeeps ==
  ASSUME network \in Networks, Sound(chain), NEW calls, Waiting(calls, chain),
         NEW m, Executes(m, calls)
  PROVE  Sound(m[Len(calls)].state) /\ Kept(chain, m[Len(calls)].state)
<1> DEFINE n == Len(calls)
           state(i) == m[i].state
           P == {i \in 0 .. n :
                   IF m[i].reverts THEN state(i) = chain
                   ELSE /\ Sound(state(i)) /\ Kept(chain, state(i))
                        /\ i # 0 /\ calls[1] = AllToRM => Fed(state(i))}
<1>1. n \in Nat /\ calls \in Seq(Changes) /\ \A i \in 1 .. n : calls[i] \in Changes
  BY DEF Waiting
<1>2. 0 \in P
  <2>1. m[0] = [reverts |-> FALSE, state |-> chain]
    BY DEF Executes
  <2>2. m[0].reverts = FALSE /\ state(0) = chain
    BY <2>1
  <2>3. 0 \in 0 .. n
    BY <1>1
  <2> HIDE DEF state, n
  <2> QED BY <2>2, <2>3, KeptReflexive
<1>3. ASSUME NEW i \in 1 .. n, i - 1 \in P  PROVE i \in P
  <2> DEFINE old == state(i - 1)
             call == calls[i]
  <2>1. m[i] = IF m[i-1].reverts \/ ~Permitted(old, call, "governor")
                 THEN [reverts |-> TRUE, state |-> chain]
                 ELSE [reverts |-> FALSE, state |-> Effect(old, call)]
    BY DEF Executes
  <2>2. i \in 0 .. n /\ call \in Changes
    BY <1>1
  <2>3. CASE m[i-1].reverts \/ ~Permitted(old, call, "governor")
    <3>1. m[i].reverts = TRUE /\ state(i) = chain
      BY <2>1, <2>3
    <3> HIDE DEF state, n
    <3> QED BY <2>2, <3>1
  <2>4. CASE ~m[i-1].reverts /\ Permitted(old, call, "governor")
    <3>1. m[i].reverts = FALSE /\ state(i) = Effect(old, call)
      BY <2>1, <2>4
    <3>2. /\ Sound(old) /\ Kept(chain, old)
          /\ i - 1 # 0 /\ calls[1] = AllToRM => Fed(old)
      BY <1>3, <2>4
    <3> HIDE DEF state, old
    <3>3. call = Integration => Fed(old)
      <4> SUFFICES ASSUME call = Integration PROVE Fed(old)
        OBVIOUS
      <4>1. CASE Fed(chain)
        BY <3>2, <4>1 DEF Kept
      <4>2. CASE calls \in Seq(Plain)
        <5>1. call \in Plain
          BY <4>2
        <5> QED BY <5>1, PlainChanges
      <4>3. CASE calls[1] = AllToRM
        <5>1. i # 1
          BY <4>3, PlainChanges
        <5> QED BY <3>2, <4>3, <5>1
      <4> QED BY <4>1, <4>2, <4>3 DEF Waiting
    <3>4. Due(call, old)
      BY <2>2, <3>3 DEF Due, Changes
    <3>5. /\ Sound(Effect(old, call)) /\ Kept(old, Effect(old, call))
          /\ call = AllToRM => Fed(Effect(old, call))
      <4> HIDE DEF call
      <4> QED BY <2>4, <3>2, <3>4, CallKeeps
    <3>6. Sound(state(i)) /\ Kept(chain, state(i))
      <4> HIDE DEF call
      <4> QED BY <3>1, <3>2, <3>5, KeptTransitive
    <3>7. calls[1] = AllToRM => Fed(state(i))
      <4> SUFFICES ASSUME calls[1] = AllToRM PROVE Fed(state(i))
        OBVIOUS
      <4>1. CASE i = 1
        BY <3>1, <3>5, <4>1
      <4>2. CASE i # 1
        <5>1. Fed(old)
          BY <3>2, <4>2
        <5> HIDE DEF call
        <5> QED BY <3>1, <3>5, <5>1 DEF Kept
      <4> QED BY <4>1, <4>2
    <3> HIDE DEF n
    <3> QED BY <2>2, <3>1, <3>6, <3>7
  <2> QED BY <2>3, <2>4
<1> HIDE DEF P
<1>4. n \in P
  <2>1. n \in 0 .. n
    BY <1>1
  <2> HIDE DEF n
  <2> QED BY <1>1, <1>2, <1>3, <2>1, UpToInduction
<1>5. IF m[n].reverts THEN state(n) = chain ELSE Sound(state(n)) /\ Kept(chain, state(n))
  <2> HIDE DEF state, n
  <2> QED BY <1>4 DEF P
<1> QED
  BY <1>5, KeptReflexive

LEMMA SafeExecutes_IInv ==
  ASSUME IInv, SafeExecutes
  PROVE  IInv' /\ Kept(chain, chain')
<1>1. /\ network \in Networks /\ Sound(chain) /\ chain \in ChainType
      /\ queue \in Seq(Seq(Calls)) /\ Len(queue) <= MaxQueue
      /\ \A i \in 1 .. Len(queue) : Waiting(queue[i], chain)
  BY DEF IInv, QueueFits, Sound
<1>2. queue # <<>>
  BY DEF SafeExecutes
<1>3. /\ network' = network /\ queue' = Tail(queue) /\ bundles' = bundles
      /\ script' = script /\ crashes' = crashes /\ hasty' = hasty
  BY DEF SafeExecutes
<1>4. /\ Head(queue) \in Seq(Calls) /\ Waiting(Head(queue), chain)
      /\ Tail(queue) \in Seq(Seq(Calls)) /\ Len(Tail(queue)) = Len(queue) - 1
      /\ \A i \in 1 .. Len(Tail(queue)) : Tail(queue)[i] = queue[i + 1]
  <2> DEFINE T == Seq(Calls)
  <2>1. queue \in Seq(T)
    BY <1>1
  <2> HIDE DEF T
  <2>2. /\ Head(queue) = queue[1] /\ Head(queue) \in T /\ Tail(queue) \in Seq(T)
        /\ Len(Tail(queue)) = Len(queue) - 1
        /\ \A i \in 1 .. Len(Tail(queue)) : Tail(queue)[i] = queue[i + 1]
    BY <1>2, <2>1, HeadTailProperties
  <2>3. 1 \in 1 .. Len(queue)
    BY <1>2, <2>1, EmptySeq
  <2> QED BY <1>1, <2>2, <2>3 DEF T
<1>5. chain \in AnyChain
  BY <1>1, NetworkFacts DEF ChainType, AnyChain
<1> DEFINE calls == Head(queue)
<1>6. PICK m : Executes(m, calls) /\ chain' = m[Len(calls)].state
  BY <1>1, <1>4, <1>5, SafeTurns
<1>7. Sound(chain') /\ Kept(chain, chain')
  <2>1. Waiting(calls, chain)
    BY <1>4
  <2> HIDE DEF calls
  <2> QED BY <1>1, <1>6, <2>1, BundleKeeps
<1>8. BundlesFit(bundles, chain') /\ ScriptFits(script, chain')
  BY <1>7, FitsKept
<1>9. QueueFits(queue', chain')
  <2>1. Len(queue) \in Nat /\ Len(Tail(queue)) \in Nat /\ MaxQueue \in Nat
    BY <1>1, <1>4, RolloutAssumption
  <2>2. Len(queue') <= MaxQueue
    BY <1>1, <1>3, <1>4, <2>1
  <2>3. ASSUME NEW i \in 1 .. Len(queue')  PROVE Waiting(queue'[i], chain')
    <3>1. i + 1 \in 1 .. Len(queue) /\ queue'[i] = queue[i + 1]
      BY <1>3, <1>4, <2>1
    <3>2. Waiting(queue'[i], chain)
      BY <1>1, <3>1
    <3> QED BY <1>7, <3>2, WaitingKept
  <2> QED BY <1>3, <1>4, <2>2, <2>3 DEF QueueFits
<1>10. crashes' \in 0 .. MaxCrashes[network.governor] /\ hasty \subseteq NewContracts
  BY <1>3 DEF IInv
<1> QED
  BY <1>1, <1>3, <1>7, <1>8, <1>9, <1>10, IInvAfter

-----------------------------------------------------------------------------
(* Every step.                                                             *)

LEMMA Init_IInv ==
  ASSUME Init
  PROVE  IInv
<1> DEFINE set == UNION {{Configuration[c][i] : i \in DOMAIN Configuration[c]} :
                           c \in NewContracts \ network.fresh}
<1>1. /\ network \in Networks
      /\ chain = [applied |-> set, deployerGoverns |-> network.fresh, deployerOwns |-> network.fresh,
                  allocation |-> [RM |-> 0, RAM |-> 0]]
      /\ bundles = [file \in Files |-> <<>>] /\ queue = <<>> /\ script = Idle /\ crashes = 0
      /\ hasty = {}
  BY DEF Init
<1>2. set \subseteq Settings
  BY DEF Settings
<1>3. \A c \in NewContracts \ network.fresh : <<c, "governor">> \in set
  <2>1. \A c \in NewContracts : \E i \in DOMAIN Configuration[c] : Configuration[c][i] = <<c, "governor">>
    BY GovernorConfigured
  <2> QED BY <2>1
<1> HIDE DEF set
<1>4. /\ chain.applied = set /\ chain.deployerGoverns = network.fresh
      /\ chain.deployerOwns = network.fresh /\ chain.allocation = [RM |-> 0, RAM |-> 0]
  BY <1>1
<1>5. chain \in ChainType
  <2>1. set \subseteq Calls
    BY <1>2, SettingsPlain, PlainChanges
  <2>2. [RM |-> 0, RAM |-> 0] \in [{"RM", "RAM"} -> 0 .. network.rate]
    BY <1>1, NetworkFacts
  <2> QED BY <1>1, <2>1, <2>2 DEF ChainType
<1>6. Sound(chain)
  <2>1. {Integration, RMOracle, RAMOracle} \cap set = {}
    <3>1. \A call \in set : \E c \in NewContracts :
            \E what \in {"rate", "governor", "pause", "collector", "dataService", "allocator",
                         "operator"} : call = <<c, what>>
      BY <1>2, SettingsListed
    <3> QED BY <3>1 DEF Integration, RMOracle, RAMOracle, NewContracts
  <2>2. \A c \in NewContracts : c \in chain.deployerGoverns \/ Granted(chain, c)
    BY <1>3, <1>4 DEF Granted
  <2>3. chain.allocation["RM"] = 0
    BY <1>4
  <2> QED BY <1>4, <1>5, <2>1, <2>2, <2>3 DEF Sound
<1>7. BundlesFit(bundles, chain)
  BY <1>1, EmptyWaits DEF BundlesFit
<1>8. QueueFits(queue, chain)
  BY <1>1, RolloutAssumption DEF QueueFits
<1>9. ScriptFits(script, chain)
  BY <1>1, IdleFits
<1>10. crashes \in 0 .. MaxCrashes[network.governor]
  BY <1>1, NetworkFacts, RolloutAssumption
<1> QED
  BY <1>1, <1>6, <1>7, <1>8, <1>9, <1>10 DEF IInv

LEMMA Next_IInv ==
  ASSUME IInv, Next
  PROVE  IInv' /\ network' = network /\ Kept(chain, chain')
<1> DEFINE Claim == IInv' /\ network' = network /\ Kept(chain, chain')
<1>1. ASSUME IInv', Unchanged PROVE Claim
  BY <1>1, KeptReflexive DEF Unchanged
<1>2. ASSUME UpgradeAll PROVE Claim
  BY <1>1, <1>2, UpgradeAll_IInv DEF UpgradeAll
<1>3. ASSUME SendNext PROVE Claim
  BY <1>3, SendNext_IInv DEF SendNext
<1>4. ASSUME SaveBundle PROVE Claim
  BY <1>1, <1>4, SaveBundle_IInv DEF SaveBundle
<1>5. ASSUME EndScript PROVE Claim
  BY <1>1, <1>5, EndScript_IInv DEF EndScript
<1>6. ASSUME NEW c \in NewContracts, Configure(c) PROVE Claim
  BY <1>1, <1>6, ConfigureStep_IInv DEF Configure
<1>7. ASSUME NEW c \in NewContracts, TransferGovernance(c) PROVE Claim
  <2>1. network' = network /\ chain' = chain
    BY <1>7 DEF TransferGovernance, AllocatorTransfer, AllocationTransfer, ManagerTransfer,
       ReclaimTransfer, OracleTransfer, Transfer
  <2> QED BY <1>7, <2>1, TransferGovernance_IInv, KeptReflexive
<1>8. ASSUME ConfigureCollector PROVE Claim
  BY <1>1, <1>8, ConfigureCollector_IInv DEF ConfigureCollector
<1>9. ASSUME UpgradeComponents PROVE Claim
  BY <1>1, <1>9, UpgradeComponents_IInv DEF UpgradeComponents
<1>10. ASSUME Allocate PROVE Claim
  BY <1>1, <1>10, Allocate_IInv DEF Allocate
<1>11. ASSUME GuardClosing PROVE Claim
  BY <1>1, <1>11, GuardClosing_IInv DEF GuardClosing
<1>12. ASSUME NEW sequenced \in BOOLEAN, Connect(sequenced) PROVE Claim
  BY <1>1, <1>12, Connect_IInv DEF Connect
<1>13. ASSUME NEW sequenced \in BOOLEAN, Integrate(sequenced) PROVE Claim
  BY <1>1, <1>13, Integrate_IInv DEF Integrate
<1>14. ASSUME NEW file \in Files, Execute(file) PROVE Claim
  BY <1>1, <1>14, Execute_IInv DEF Execute
<1>15. ASSUME NEW file \in Files, Propose(file) PROVE Claim
  BY <1>15, Propose_IInv, KeptReflexive DEF Propose
<1>16. ASSUME SafeExecutes PROVE Claim
  BY <1>16, SafeExecutes_IInv DEF SafeExecutes
<1>17. ASSUME Crash PROVE Claim
  BY <1>17, Crash_IInv, KeptReflexive DEF Crash
<1> HIDE DEF Claim
<1>18. Claim
  BY <1>2, <1>3, <1>4, <1>5, <1>6, <1>7, <1>8, <1>9, <1>10, <1>11, <1>12, <1>13, <1>14, <1>15, <1>16,
     <1>17 DEF Next, ScriptStep
<1> QED
  BY <1>18 DEF Claim

LEMMA Stutter_IInv ==
  ASSUME IInv, UNCHANGED vars
  PROVE  IInv' /\ network' = network /\ Kept(chain, chain')
<1>1. /\ network' = network /\ chain' = chain /\ bundles' = bundles /\ queue' = queue
      /\ script' = script /\ crashes' = crashes /\ hasty' = hasty
  BY DEF vars
<1>2. /\ network \in Networks /\ Sound(chain') /\ BundlesFit(bundles', chain')
      /\ QueueFits(queue', chain') /\ ScriptFits(script', chain')
      /\ crashes' \in 0 .. MaxCrashes[network.governor] /\ hasty \subseteq NewContracts
  BY <1>1 DEF IInv
<1> QED
  BY <1>1, <1>2, IInvAfter, KeptReflexive

LEMMA InvariantAlways == Spec => []IInv
<1>1. Init => IInv
  BY Init_IInv
<1>2. IInv /\ [Next]_vars => IInv'
  BY Next_IInv, Stutter_IInv
<1> QED
  BY <1>1, <1>2, PTL DEF Spec

-----------------------------------------------------------------------------
(* What the invariant says.                                                *)

LEMMA TypeHolds ==
  ASSUME IInv
  PROVE  TypeOK
<1>1. /\ network \in Networks /\ chain \in ChainType /\ script \in ScriptType
      /\ bundles \in [Files -> Seq(Calls)]
      /\ queue \in Seq(Seq(Calls)) /\ Len(queue) <= MaxQueue
      /\ crashes \in 0 .. MaxCrashes[network.governor] /\ hasty \subseteq NewContracts
  BY DEF IInv, Sound, BundlesFit, QueueFits, ScriptFits
<1>2. /\ chain.applied \subseteq Calls
      /\ chain.deployerGoverns \subseteq network.fresh /\ chain.deployerOwns \subseteq network.fresh
      /\ chain.allocation \in [{"RM", "RAM"} -> 0 .. network.rate]
  BY <1>1 DEF ChainType
<1> QED
  BY <1>1, <1>2 DEF TypeOK, ScriptType

LEMMA RewardsHold ==
  ASSUME IInv
  PROVE  RewardsContinue
<1>1. network \in Networks /\ (Integration \in chain.applied => Fed(chain))
  BY DEF IInv, Sound
<1>2. network.rate >= network.rate - network.share
  BY <1>1, NetworkFacts
<1> QED
  BY <1>1, <1>2 DEF RewardsContinue, AllocatedRate, Applied, Fed

LEMMA GovernanceHolds ==
  ASSUME IInv
  PROVE  network.rate > 0 => GovernanceKept
BY DEF IInv, Sound, Granted, Trusted, GovernanceKept, Governed, Applied

(* Where nothing is missing, each of the calls is applied.                 *)
LEMMA NothingMissing ==
  ASSUME NEW a, NEW b, Missing(<<a, b>>) = <<>>
  PROVE  Applied(a) /\ Applied(b)
<1> DEFINE s == <<a, b>>
<1>1. s \in Seq({a, b}) /\ Len(s) = 2 /\ s[1] = a /\ s[2] = b
  OBVIOUS
<1> HIDE DEF s
<1>2. Missing(s) = <<>>
  BY DEF s
<1>3. \A i \in 1 .. Len(s) : Applied(s[i])
  BY <1>1, <1>2, MissingNone
<1> QED
  BY <1>1, <1>3

(* At the verified end, with nothing left to propose, no check fails.      *)
LEMMA DisplaysHold ==
  ASSUME IInv
  PROVE  DisplaysAgree
<1> SUFFICES ASSUME EndVerified, NextStep = "done"
             PROVE  /\ \A c \in DOMAIN ComponentChecks :
                         Shows(ComponentChecks[c], "problem") =>
                           c = "RC" \/ (c = "REO" /\ ~network.oracle)
                    /\ ~Shows(PhaseChecks, "problem")
                    /\ \A c \in NewContracts : ~OwnerWarning(c)
  BY DEF DisplaysAgree
<1>1. /\ ~SettingsIssue /\ \A c \in NewContracts : ~ConfigurationIssue(c)
      /\ \A c \in NewContracts : Transferred(c)
      /\ Upgraded
  BY DEF NextStep
<1>2. /\ Applied(RevertSetting) /\ Applied(Integration) /\ Applied(Minter)
      /\ AllocatorRate(chain) > 0 /\ AllocatorRate(chain) = network.rate
      /\ chain.allocation["RM"] > 0 /\ FullyAllocated /\ ConnectComplete
      /\ network.oracle => Applied(RMOracle) /\ Applied(RAMOracle)
  BY DEF EndVerified, ConnectComplete, OraclesMatch, RatesAligned, RMAllocationShape
<1>3. Applied(RMOracle) \/ Applied(RAMOracle) => network.oracle
  BY DEF IInv, Sound, Applied
<1>4. Mark(TRUE) = "ok" /\ "ok" # "problem" /\ "none" # "problem"
  BY DEF Mark
<1>5. OracleCheck(RMOracle) = "ok" /\ OracleCheck(RAMOracle) = "ok"
  <2>1. Applied(RMOracle) \in BOOLEAN /\ Applied(RAMOracle) \in BOOLEAN /\ network.oracle \in BOOLEAN
    BY NetworkFacts DEF IInv, Applied
  <2> QED BY <1>2, <1>3, <2>1 DEF OracleCheck, Mark
<1>6. ~Shows(RewardsManagerChecks, "problem")
  <2>1. AllocatedRate > 0 /\ network.rate > 0
    BY <1>2 DEF AllocatedRate
  <2> QED BY <1>1, <1>2, <1>5, <2>1 DEF Shows, RewardsManagerChecks, Mark
<1>7. ~Shows(AllocatorChecks, "problem")
  BY <1>1, <1>2 DEF Shows, AllocatorChecks, Mark
<1>8. network.oracle => ~Shows(OracleChecks, "problem")
  <2>1. OracleConfigured
    BY <1>1 DEF ConfigurationIssue, Configured, NewContracts
  <2> QED BY <1>1, <1>2, <2>1, OracleComplete DEF Shows, OracleChecks, OperatorCheck, Mark
<1>9. ~Shows(ReclaimChecks, "problem")
  <2>1. Applied(ReclaimAddress)
    BY <1>1, NothingMissing DEF SettingsIssue
  <2> QED BY <1>1, <2>1 DEF Shows, ReclaimChecks, Mark
<1>10. ~Shows(ManagerChecks, "problem")
  <2>1. ManagerConfigured
    BY <1>1 DEF ConfigurationIssue, Configured, NewContracts
  <2> QED BY <1>5, <2>1 DEF Shows, ManagerChecks, ManagerConfigured, Mark
<1>11. ~Shows(PhaseChecks, "problem")
  BY <1>1, <1>2, <1>5 DEF Shows, PhaseChecks, OracleStatusLine, Mark
<1>12. \A c \in NewContracts : ~OwnerWarning(c)
  BY <1>1 DEF Transferred, OwnerWarning
<1>13. ASSUME NEW c \in DOMAIN ComponentChecks, Shows(ComponentChecks[c], "problem")
       PROVE  c = "RC" \/ (c = "REO" /\ ~network.oracle)
  <2>1. c \in {"RM", "IA", "REO", "Reclaim", "RAM", "RC"}
    BY DEF ComponentChecks
  <2>2. /\ ComponentChecks["RM"] = RewardsManagerChecks /\ ComponentChecks["IA"] = AllocatorChecks
        /\ ComponentChecks["REO"] = OracleChecks /\ ComponentChecks["Reclaim"] = ReclaimChecks
        /\ ComponentChecks["RAM"] = ManagerChecks
    BY DEF ComponentChecks
  <2> QED BY <1>6, <1>7, <1>8, <1>9, <1>10, <1>13, <2>1, <2>2
<1> QED
  BY <1>11, <1>12, <1>13

(* The end, once verified, stays: nothing that it needs is taken back.     *)
LEMMA EndStays ==
  ASSUME IInv, IInv', network' = network, Kept(chain, chain'), EndVerified
  PROVE  EndVerified'
<1>1. \A call : Applied(call) => Applied(call)'
  BY DEF Kept, Applied
<1>2. Upgraded' /\ Applied(RevertSetting)' /\ Applied(Integration)' /\ Applied(Minter)'
  BY <1>1 DEF EndVerified, Upgraded, ConnectComplete
<1>3. OraclesMatch'
  BY <1>1 DEF EndVerified, OraclesMatch
<1>4. chain' \in ChainType /\ chain \in ChainType
  BY DEF IInv, Sound, ChainType
<1>5. chain.allocation["RM"] = network.rate - network.share /\ chain.allocation["RAM"] = network.share
  BY DEF EndVerified, AllocationsMatch
<1>6. /\ chain'.allocation["RM"] = network.rate - network.share
      /\ chain'.allocation["RAM"] = network.share
  BY <1>5 DEF Kept, Shared
<1>7. AllocationsMatch'
  <2>1. chain'.allocation \in [{"RM", "RAM"} -> 0 .. network.rate]
    BY <1>4 DEF ChainType
  <2> QED BY <1>6, <2>1 DEF AllocationsMatch
<1>8. AllocatorRate(chain) > 0 /\ AllocatorRate(chain) = network.rate
  BY DEF EndVerified, ConnectComplete, RatesAligned
<1>9. <<"IA", "rate">> \in chain.applied /\ network.rate > 0
  BY <1>8 DEF AllocatorRate
<1>10. AllocatorRate(chain)' = network.rate
  BY <1>9 DEF AllocatorRate, Kept
<1>11. RatesAligned' /\ RMAllocationShape'
  BY <1>5, <1>6, <1>9, <1>10 DEF RatesAligned, RMAllocationShape, EndVerified, ConnectComplete
<1>12. FullyAllocated'
  BY <1>6, <1>9, <1>10, NetworkFacts DEF FullyAllocated, IInv
<1> QED
  BY <1>2, <1>3, <1>7, <1>11, <1>12 DEF EndVerified, ConnectComplete

-----------------------------------------------------------------------------
(* The theorems.                                                           *)

(* Curators and indexers are paid the configured rest of the issuance      *)
(* between any two transactions, and the displays of the scripts agree     *)
(* where they say that the rollout is done.                                *)
THEOREM RolloutSafeAlways == Spec => []RolloutSafe
<1>1. IInv => RolloutSafe
  BY TypeHolds, RewardsHold, DisplaysHold DEF RolloutSafe
<1> QED
  BY <1>1, InvariantAlways, PTL

(* Where the RewardsManager issues anything, the deployer gives up no role *)
(* that the governor does not have, whatever stops where: transfers that   *)
(* the status proposes are decided on the chain as it is, and what they    *)
(* rely on stays.  A transfer that no status proposed takes that from its  *)
(* own contract alone, and not from the oracle, whose script checks.       *)
THEOREM GovernanceAlwaysKept == Spec => [](network.rate > 0 => GovernanceKept)
<1>1. IInv => (network.rate > 0 => GovernanceKept)
  BY GovernanceHolds
<1> QED
  BY <1>1, InvariantAlways, PTL

(* The verified end of the rollout is never undone: not by a script that   *)
(* is run again, not by a bundle saved before, nor by the Safe.            *)
THEOREM CompletionStays == Spec => CompletionIsStable
<1>1. IInv /\ IInv' /\ [Next]_vars => (EndVerified => EndVerified')
  BY Next_IInv, Stutter_IInv, EndStays
<1>2. IInv /\ IInv' /\ [Next]_vars => [EndVerified => EndVerified']_vars
  BY <1>1
<1> QED
  BY <1>2, InvariantAlways, PTL DEF Spec, CompletionIsStable

=============================================================================
