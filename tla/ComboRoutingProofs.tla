-------------------------- MODULE ComboRoutingProofs --------------------------
(***************************************************************************)
(* Proofs about requests to a combo, for any number of requests, members,  *)
(* accounts and providers: whoever served is billed, and all candidates    *)
(* were asked before a request fails (Billing); how far a quota can be     *)
(* exceeded (Overshoot); that no order drops a candidate, and that the     *)
(* cursor moves on (Onward); that nobody is asked with the credential of   *)
(* another provider (CredInv).                                             *)
(*                                                                         *)
(* The accounts of the candidates come from a fold over the members.  Only *)
(* the last part needs to know of it: each step of the fold leaves a book  *)
(* of the right form and gives a member an account of its own provider     *)
(* (AfterGood), so the fold does (BuiltGood).                              *)
(***************************************************************************)
EXTENDS ComboRouting, FiniteSetTheorems, FunctionTheorems, WellFoundedInduction, TLAPS

ReqTypes ==
    /\ pc \in [Reqs -> Places] /\ at \in [Reqs -> Nat]
    /\ cand = [r \in Reqs |-> cand[r]] /\ tried = [r \in Reqs |-> tried[r]]
    /\ bill = [r \in Reqs |-> bill[r]] /\ dry = [r \in Reqs |-> dry[r]]
    /\ spent \in [Providers -> Nat] /\ spill \in [Providers -> Nat]

LEMMA Names ==
  /\ "new" \in Places /\ "saver" \in Places /\ "build" \in Places /\ "call" \in Places
  /\ "done" \in Places /\ "failed" \in Places /\ "broken" \in Places /\ "cut" \in Places
  BY DEF Places

\* What nobody but a request changes.
LEMMA SettingsKeep ==
  ASSUME Settings
  PROVE  UNCHANGED <<pc, at, cand, tried, bill, dry>>
  BY DEF Settings, EditAccount, ToggleMember, NewWindow, reqVars

LEMMA ChargeType ==
  ASSUME NEW f \in [Providers -> Nat], NEW p
  PROVE  /\ Charge(f, p) \in [Providers -> Nat]
         /\ \A q \in Providers : q # p => Charge(f, p)[q] = f[q]
         /\ p \in Providers => Charge(f, p)[p] =
               IF f[p] < MaxSpent /\ Quota[p] # Unlimited THEN f[p] + 1 ELSE f[p]
  <1>1. CASE p \in Providers
    <2>1. f[p] \in Nat /\ f[p] + 1 \in Nat
      BY <1>1
    <2> DEFINE n == IF f[p] < MaxSpent /\ Quota[p] # Unlimited THEN f[p] + 1 ELSE f[p]
    <2>2. n \in Nat
      BY <2>1
    <2>3. Charge(f, p) = [f EXCEPT ![p] = n]
      BY DEF Charge
    <2> HIDE DEF n
    <2>4. /\ Charge(f, p) \in [Providers -> Nat] /\ Charge(f, p)[p] = n
          /\ \A q \in Providers : q # p => Charge(f, p)[q] = f[q]
      BY <1>1, <2>2, <2>3
    <2> QED
      BY <2>4 DEF n
  <1>2. CASE p \notin Providers
    <2>1. Charge(f, p) = f
      BY <1>2 DEF Charge
    <2> QED
      BY <1>2, <2>1
  <1> QED
    BY <1>1, <1>2

LEMMA TypesInit ==
  ASSUME Init
  PROVE  ReqTypes
  <1>1. spent \in [Providers -> Nat] /\ spill \in [Providers -> Nat]
    <2>1. spent \in [Providers -> 0 .. MaxSpent] /\ spill = [p \in Providers |-> 0]
      BY DEF Init
    <2>2. 0 .. MaxSpent \subseteq Nat
      BY ComboAssumption
    <2> QED
      BY <2>1, <2>2
  <1>2. /\ pc = [r \in Reqs |-> "new"] /\ at = [r \in Reqs |-> 1]
        /\ cand = [r \in Reqs |-> <<>>] /\ tried = [r \in Reqs |-> {}]
        /\ bill = [r \in Reqs |-> NoBill] /\ dry = [r \in Reqs |-> {}]
    BY DEF Init
  <1> QED
    BY <1>1, <1>2, Names DEF ReqTypes

LEMMA TypesStep ==
  ASSUME ReqTypes, [Next]_vars
  PROVE  ReqTypes'
  <1> USE Names DEF ReqTypes
  <1>1. ASSUME NEW r \in Reqs, Arrive(r) PROVE ReqTypes'
    BY <1>1 DEF Arrive
  <1>2. ASSUME NEW r \in Reqs, Saver(r) PROVE ReqTypes'
    BY <1>2 DEF Saver
  <1>3. ASSUME NEW r \in Reqs, Build(r) PROVE ReqTypes'
    <2>1. PICK try : /\ cand' = [cand EXCEPT ![r] = try]
                     /\ pc' = [pc EXCEPT ![r] = IF try = <<>> THEN "failed" ELSE "call"]
      BY <1>3 DEF Build
    <2>2. dry' = [s \in Reqs |-> dry'[s]] /\ UNCHANGED <<at, tried, bill, spent, spill>>
      BY <1>3 DEF Build
    <2> QED
      BY <2>1, <2>2
  <1>4. ASSUME NEW r \in Reqs, Answered(r) PROVE ReqTypes'
    <2>1. spent' \in [Providers -> Nat] /\ spill' \in [Providers -> Nat]
      BY <1>4, ChargeType DEF Answered
    <2> QED
      BY <1>4, <2>1 DEF Answered, Asked
  <1>5. ASSUME NEW r \in Reqs, SwitchAccount(r) PROVE ReqTypes'
    BY <1>5 DEF SwitchAccount, Asked
  <1>6. ASSUME NEW r \in Reqs, Refused(r) PROVE ReqTypes'
    <2>1. at' \in [Reqs -> Nat]
      <3>1. at' = at \/ at' = [at EXCEPT ![r] = at[r] + 1]
        BY <1>6 DEF Refused, NextAt
      <3> QED
        BY <3>1
    <2>2. pc' = pc \/ pc' = [pc EXCEPT ![r] = "failed"]
      BY <1>6 DEF Refused
    <2>3. UNCHANGED <<cand, bill, dry, spent, spill>>
      BY <1>6 DEF Refused
    <2>4. tried' = [s \in Reqs |-> tried'[s]]
      BY <1>6 DEF Refused, Asked
    <2> QED
      BY <2>1, <2>2, <2>3, <2>4
  <1>7. ASSUME NEW r \in Reqs, StreamCut(r) PROVE ReqTypes'
    BY <1>7 DEF StreamCut, Asked
  <1>10. ASSUME NEW r \in Reqs, Breaks(r) PROVE ReqTypes'
    <2>1. tried' = [s \in Reqs |-> tried'[s]]
      BY <1>10 DEF Breaks, Asked
    <2> QED
      BY <1>10, <2>1 DEF Breaks
  <1>8. CASE Settings
    <2>1. spent' \in [Providers -> Nat] /\ spill' \in [Providers -> Nat]
      BY <1>8 DEF Settings, EditAccount, ToggleMember, NewWindow
    <2> QED
      BY <1>8, <2>1, SettingsKeep
  <1>9. CASE UNCHANGED vars
    BY <1>9 DEF vars, reqVars
  <1> QED
    BY <1>1, <1>2, <1>3, <1>4, <1>5, <1>6, <1>7, <1>8, <1>9, <1>10 DEF Next, Handler

-----------------------------------------------------------------------------
(* The order of the candidates                                             *)

\* Every member of a set has its place in InOrder, and every place its member.
Rank(S, n) == Cardinality({m \in S : m < n})

LEMMA RankType ==
  ASSUME NEW S, IsFiniteSet(S), S \subseteq Nat, NEW n \in S
  PROVE  /\ Cardinality(S) \in Nat \ {0}
         /\ Rank(S, n) \in 0 .. Cardinality(S) - 1
  <1>1. /\ IsFiniteSet(S \ {n}) /\ Cardinality(S \ {n}) \in Nat /\ Cardinality(S) \in Nat
        /\ Cardinality(S \ {n}) = Cardinality(S) - 1
    BY FS_RemoveElement, FS_CardinalityType
  <1>2. {m \in S : m < n} \subseteq S \ {n}
    OBVIOUS
  <1>3. /\ Cardinality({m \in S : m < n}) \in Nat
        /\ Cardinality({m \in S : m < n}) <= Cardinality(S \ {n})
    BY <1>1, <1>2, FS_Subset, FS_CardinalityType
  <1> QED
    BY <1>1, <1>3 DEF Rank

LEMMA RankOrders ==
  ASSUME NEW S, IsFiniteSet(S), S \subseteq Nat, NEW m \in S, NEW n \in S, m # n
  PROVE  Rank(S, m) # Rank(S, n)
  <1> SUFFICES ASSUME NEW x \in S, NEW y \in S, x < y PROVE Rank(S, x) # Rank(S, y)
    OBVIOUS
  <1> DEFINE X == {k \in S : k < x}
             Y == {k \in S : k < y}
  <1>0. \A k \in S : k \in Int
    OBVIOUS
  <1>1. X \subseteq Y \ {x} /\ x \in Y
    <2>1. x \in Y /\ x \notin X
      BY <1>0
    <2>2. ASSUME NEW k \in X PROVE k \in Y
      BY <1>0
    <2> QED
      BY <2>1, <2>2
  <1>2. IsFiniteSet(Y)
    <2>1. Y \subseteq S
      OBVIOUS
    <2> QED
      BY <2>1, FS_Subset
  <1>3. Cardinality(Y \ {x}) = Cardinality(Y) - 1 /\ IsFiniteSet(Y \ {x})
    BY <1>1, <1>2, FS_RemoveElement
  <1>4. Cardinality(X) <= Cardinality(Y) - 1 /\ IsFiniteSet(X)
    BY <1>1, <1>3, FS_Subset
  <1>5. Cardinality(X) \in Nat /\ Cardinality(Y) \in Nat
    BY <1>2, <1>4, FS_CardinalityType
  <1> HIDE DEF X, Y
  <1>6. Cardinality(X) # Cardinality(Y)
    BY <1>4, <1>5
  <1> QED
    BY <1>6 DEF Rank, X, Y

LEMMA RankTaken ==
  ASSUME NEW S, IsFiniteSet(S), S \subseteq Nat, NEW i \in 0 .. Cardinality(S) - 1
  PROVE  \E m \in S : Rank(S, m) = i
  <1> DEFINE K == Cardinality(S)
             T == 0 .. K - 1
             f == [n \in S |-> Rank(S, n)]
  <1>1. K \in Nat
    BY FS_CardinalityType
  <1>2. f \in [S -> T]
    BY RankType
  <1>3. f \in Injection(S, T)
    BY <1>2, RankOrders, Fun_IsInj
  <1>4. IsFiniteSet(T) /\ Cardinality(T) = K
    BY <1>1, FS_Interval
  <1>5. f \in Surjection(S, T)
    BY <1>3, <1>4, FS_Injection
  <1>6. \A t \in T : \E m \in S : f[m] = t
    <2> HIDE DEF f, T
    <2> QED
      BY <1>5, Fun_SurjectionProperties
  <1> QED
    BY <1>6

\* InOrder lists a set, each of its members once.
LEMMA InOrderLists ==
  ASSUME NEW S, IsFiniteSet(S), S \subseteq Nat
  PROVE  /\ InOrder(S) \in Seq(S) /\ Len(InOrder(S)) = Cardinality(S)
         /\ \A i, j \in 1 .. Cardinality(S) : InOrder(S)[i] = InOrder(S)[j] => i = j
         /\ ToSet(InOrder(S)) = S
  <1> DEFINE K == Cardinality(S)
             at_(i) == CHOOSE n \in S : Rank(S, n) = i - 1
  <1>1. K \in Nat
    BY FS_CardinalityType
  <1>2. InOrder(S) = [i \in 1 .. K |-> at_(i)]
    BY DEF InOrder, Rank
  <1>3. ASSUME NEW i \in 1 .. K PROVE at_(i) \in S /\ Rank(S, at_(i)) = i - 1
    <2>1. i - 1 \in 0 .. K - 1
      BY <1>1
    <2>2. PICK m \in S : Rank(S, m) = i - 1
      BY <2>1, RankTaken
    <2> QED
      BY <2>2
  <1> HIDE DEF K, at_
  <1>4. InOrder(S) \in Seq(S) /\ Len(InOrder(S)) = K
    BY <1>1, <1>2, <1>3
  <1>5. \A i, j \in 1 .. K : InOrder(S)[i] = InOrder(S)[j] => i = j
    BY <1>1, <1>2, <1>3
  <1>6. ToSet(InOrder(S)) \subseteq S
    BY <1>2, <1>3 DEF ToSet
  <1>7. ASSUME NEW n \in S PROVE n \in ToSet(InOrder(S))
    <2>1. Rank(S, n) \in 0 .. K - 1
      BY RankType DEF K
    <2>2. PICK i \in 1 .. K : i - 1 = Rank(S, n)
      <3>1. Rank(S, n) + 1 \in 1 .. K /\ (Rank(S, n) + 1) - 1 = Rank(S, n)
        BY <1>1, <2>1
      <3> QED
        BY <3>1
    <2>3. at_(i) = n
      BY <1>3, <2>2, RankOrders
    <2> QED
      BY <1>2, <2>3 DEF ToSet
  <1> QED
    BY <1>4, <1>5, <1>6, <1>7 DEF K

\* The order by quota keeps every member (quota_aware_order: "never dropped").
LEMMA QuotaDropsNone ==
  ASSUME NEW S, IsFiniteSet(S), S \subseteq Nat
  PROVE  QuotaAware(S) \in Seq(S) /\ ToSet(QuotaAware(S)) = S
  <1> DEFINE A == {m \in S : ~Drained(Via[m])}
             B == {m \in S : Drained(Via[m])}
             s == InOrder(A)
             t == InOrder(B)
  <1>1. IsFiniteSet(A) /\ IsFiniteSet(B) /\ A \subseteq Nat /\ B \subseteq Nat
    BY FS_Subset
  <1>2. A \cup B = S
    OBVIOUS
  <1>3. s \in Seq(A) /\ t \in Seq(B) /\ ToSet(s) = A /\ ToSet(t) = B
    <2> HIDE DEF A, B
    <2> QED
      BY <1>1, InOrderLists
  <1>4. QuotaAware(S) = s \o t
    BY DEF QuotaAware
  <1> HIDE DEF A, B, s, t
  <1>5. s \in Seq(S) /\ t \in Seq(S)
    BY <1>2, <1>3
  <1>6. s \o t \in Seq(S)
    BY <1>5
  <1>7. ASSUME NEW i \in DOMAIN (s \o t) PROVE (s \o t)[i] \in S
    BY <1>6, <1>7
  <1>8. ASSUME NEW n \in S PROVE \E i \in DOMAIN (s \o t) : (s \o t)[i] = n
    <2>1. CASE n \in A
      <3>1. PICK i \in DOMAIN s : s[i] = n
        BY <1>3, <2>1 DEF ToSet
      <3>2. i \in DOMAIN (s \o t) /\ (s \o t)[i] = n
        BY <1>5, <3>1
      <3> QED
        BY <3>2
    <2>2. CASE n \in B
      <3>1. PICK i \in DOMAIN t : t[i] = n
        BY <1>3, <2>2 DEF ToSet
      <3>2. Len(s) + i \in DOMAIN (s \o t) /\ (s \o t)[Len(s) + i] = n
        BY <1>5, <3>1
      <3> QED
        BY <3>2
    <2> QED
      BY <1>2, <2>1, <2>2
  <1> QED
    BY <1>4, <1>6, <1>7, <1>8 DEF ToSet

LEMMA UsableIsFinite ==
  ASSUME live \in SUBSET Members, NEW r
  PROVE  /\ IsFiniteSet(live) /\ live \subseteq Nat
         /\ IsFiniteSet(Usable(r)) /\ Usable(r) \subseteq Nat
         /\ Usable(r) \subseteq live
  <1>1. IsFiniteSet(live) /\ live \subseteq Nat
    BY ComboAssumption, FS_Subset
  <1>2. Usable(r) \subseteq live
    BY DEF Usable
  <1> QED
    BY <1>1, <1>2, FS_Subset

\* What the strategy chooses from the candidates is a list; ToSet of it are its members.
IsList(s) ==
    /\ Len(s) \in Nat /\ DOMAIN s = 1 .. Len(s)
    /\ s # <<>> => Len(s) >= 1

Roster ==
    /\ live \in SUBSET Members
    /\ \A r \in Reqs : IsList(cand[r])

LEMMA PoolLists ==
  ASSUME live \in SUBSET Members, NEW r
  PROVE  Pool(r) \in Seq(Nat) /\ ToSet(Pool(r)) = Usable(r)
  <1>1. IsFiniteSet(Usable(r)) /\ Usable(r) \subseteq Nat
    BY UsableIsFinite
  <1>2. QuotaAware(Usable(r)) \in Seq(Nat) /\ ToSet(QuotaAware(Usable(r))) = Usable(r)
    BY <1>1, QuotaDropsNone
  <1>3. InOrder(Usable(r)) \in Seq(Nat) /\ ToSet(InOrder(Usable(r))) = Usable(r)
    BY <1>1, InOrderLists
  <1> QED
    BY <1>2, <1>3 DEF Pool

LEMMA AttemptsAreLists ==
  ASSUME live \in SUBSET Members, NEW r, NEW try \in Attempts(r, Pool(r))
  PROVE  IsList(try)
  <1>1. Pool(r) \in Seq(Nat)
    BY PoolLists
  <1>2. IsList(Pool(r))
    BY <1>1 DEF IsList
  <1>3. \A x : IsList(<<x>>)
    BY DEF IsList
  <1>4. IsList(<<>>)
    BY DEF IsList
  <1>5. try = <<>> \/ try = Pool(r) \/ \E x : try = <<x>>
    BY DEF Attempts
  <1> QED
    BY <1>2, <1>3, <1>4, <1>5

LEMMA RosterInit ==
  ASSUME Init
  PROVE  Roster
  BY DEF Init, Roster, IsList

LEMMA RosterStep ==
  ASSUME ReqTypes, Roster, [Next]_vars
  PROVE  Roster'
  <1>1. CASE UNCHANGED <<live, cand>>
    BY <1>1 DEF Roster
  <1>2. ASSUME NEW r \in Reqs, Build(r) PROVE Roster'
    <2>1. PICK try \in Attempts(r, Pool(r)) : cand' = [cand EXCEPT ![r] = try]
      BY <1>2 DEF Build
    <2>2. live' = live
      BY <1>2 DEF Build
    <2>3. IsList(try)
      BY AttemptsAreLists DEF Roster
    <2> QED
      BY <2>1, <2>2, <2>3 DEF Roster, ReqTypes
  <1>3. ASSUME NEW m \in EditedMembers, ToggleMember(m) PROVE Roster'
    <2>1. m \in Members
      BY ComboAssumption
    <2>2. cand' = cand /\ live' \in SUBSET Members
      BY <1>3, <2>1 DEF ToggleMember, reqVars, Roster
    <2> QED
      BY <2>2 DEF Roster
  <1>4. ASSUME NEW r \in Reqs, Arrive(r) \/ Saver(r) \/ Answered(r) \/ SwitchAccount(r)
                               \/ Refused(r) \/ StreamCut(r) \/ Breaks(r)
        PROVE  UNCHANGED <<live, cand>>
    BY <1>4 DEF Arrive, Saver, Answered, SwitchAccount, Refused, StreamCut, Breaks
  <1>5. ASSUME NEW a, EditAccount(a) PROVE UNCHANGED <<live, cand>>
    BY <1>5 DEF EditAccount, reqVars
  <1>6. ASSUME NEW p, NewWindow(p) PROVE UNCHANGED <<live, cand>>
    BY <1>6 DEF NewWindow, reqVars
  <1>7. CASE UNCHANGED vars
    BY <1>1, <1>7 DEF vars, reqVars
  <1> QED
    BY <1>1, <1>2, <1>3, <1>4, <1>5, <1>6, <1>7 DEF Next, Handler, Settings

-----------------------------------------------------------------------------
(* Billing                                                                 *)

\* How far a request is with its candidates.
Progress(r) ==
    /\ pc[r] \in {"new", "saver", "build"} => at[r] = 1
    /\ pc[r] = "call" =>
          /\ at[r] \in 1 .. Len(cand[r])
          /\ \A i \in 1 .. at[r] - 1 : cand[r][i] \in AskedMembers(r)
    /\ pc[r] = "failed" => ToSet(cand[r]) \subseteq AskedMembers(r)
    /\ pc[r] = "broken" => \A i \in 1 .. at[r] - 1 : cand[r][i] \in AskedMembers(r)
    /\ pc[r] = "done" =>
          /\ bill[r].prov = Via[Member(r)]
          /\ \A i \in 1 .. at[r] : cand[r][i] \in AskedMembers(r)

Billing == \A r \in Reqs : Progress(r)

\* The requests that a step is not of.
Same(r) ==
    /\ pc'[r] = pc[r] /\ at'[r] = at[r] /\ cand'[r] = cand[r] /\ tried'[r] = tried[r]
    /\ bill'[r] = bill[r] /\ dry'[r] = dry[r]

LEMMA SameKeepsProgress ==
  ASSUME NEW r \in Reqs, Progress(r), Same(r)
  PROVE  Progress(r)'
  <1>1. AskedMembers(r)' = AskedMembers(r)
    BY DEF Same, AskedMembers
  <1>2. Member(r)' = Member(r)
    BY DEF Same, Member
  <1> QED
    BY <1>1, <1>2 DEF Same, Progress

LEMMA MineAndOthers ==
  ASSUME Billing, NEW r \in Reqs, Progress(r)', \A s \in Reqs \ {r} : Same(s)
  PROVE  Billing'
  <1>1. ASSUME NEW s \in Reqs PROVE Progress(s)'
    <2>1. CASE s = r
      BY <2>1
    <2>2. CASE s # r
      <3>1. Progress(s) /\ Same(s)
        BY <2>2 DEF Billing
      <3> QED
        BY <3>1, SameKeepsProgress
    <2> QED
      BY <2>1, <2>2
  <1> QED
    BY <1>1 DEF Billing

LEMMA AskedGrows ==
  ASSUME ReqTypes, NEW r \in Reqs, Asked(r)
  PROVE  /\ AskedMembers(r) \subseteq AskedMembers(r)'
         /\ Member(r) \in AskedMembers(r)'
  <1>1. tried'[r] = tried[r] \cup {<<Member(r), key[r]>>}
    BY DEF Asked, ReqTypes
  <1> QED
    BY <1>1 DEF AskedMembers

LEMMA BillingInit ==
  ASSUME Init
  PROVE  Billing
  BY DEF Init, Billing, Progress

LEMMA BillingStep ==
  ASSUME ReqTypes, Roster, Billing, [Next]_vars
  PROVE  Billing'
  <1> USE DEF ReqTypes
  <1>1. ASSUME NEW r \in Reqs, Arrive(r) \/ Saver(r) PROVE Billing'
    <2>1. pc[r] \in {"new", "saver"} /\ pc'[r] \in {"saver", "build"} /\ at' = at
      BY <1>1 DEF Arrive, Saver
    <2>2. Progress(r)'
      BY <2>1 DEF Billing, Progress
    <2>3. \A s \in Reqs \ {r} : Same(s)
      BY <1>1 DEF Arrive, Saver, Same
    <2> QED
      BY <2>2, <2>3, MineAndOthers
  <1>2. ASSUME NEW r \in Reqs, Build(r) PROVE Billing'
    <2>1. PICK try : /\ cand' = [cand EXCEPT ![r] = try]
                     /\ pc' = [pc EXCEPT ![r] = IF try = <<>> THEN "failed" ELSE "call"]
      BY <1>2 DEF Build
    <2>2. at'[r] = 1 /\ cand'[r] = try /\ pc'[r] = IF try = <<>> THEN "failed" ELSE "call"
      BY <1>2, <2>1 DEF Build, Billing, Progress
    <2>3. Progress(r)'
      <3>1. IsList(try)
        BY <1>2, <2>2, RosterStep DEF Roster, Next, Handler
      <3>2. CASE try = <<>>
        <4>1. ToSet(cand'[r]) = {}
          BY <2>2, <3>2 DEF ToSet
        <4> QED
          BY <2>2, <3>2, <4>1 DEF Progress
      <3>3. CASE try # <<>>
        <4>1. at'[r] \in 1 .. Len(cand'[r]) /\ 1 .. at'[r] - 1 = {}
          BY <2>2, <3>1, <3>3 DEF IsList
        <4> QED
          BY <2>2, <3>3, <4>1 DEF Progress
      <3> QED
        BY <3>2, <3>3
    <2>4. \A s \in Reqs \ {r} : Same(s)
      BY <1>2, <2>1 DEF Build, Same
    <2> QED
      BY <2>3, <2>4, MineAndOthers
  <1>3. ASSUME NEW r \in Reqs, Answered(r) PROVE Billing'
    <2>1. pc[r] = "call" /\ pc'[r] = "done" /\ Asked(r) /\ UNCHANGED <<at, cand>>
      BY <1>3 DEF Answered
    <2>2. bill'[r].prov = Via[Member(r)] /\ Member(r)' = Member(r)
      BY <1>3, <2>1 DEF Answered, Billed, Member
    <2>3. ASSUME NEW i \in 1 .. at[r] PROVE cand[r][i] \in AskedMembers(r)'
      <3>1. i = at[r] \/ i \in 1 .. at[r] - 1
        OBVIOUS
      <3>2. i \in 1 .. at[r] - 1 => cand[r][i] \in AskedMembers(r)
        BY <2>1 DEF Billing, Progress
      <3> QED
        BY <2>1, <3>1, <3>2, AskedGrows DEF Member
    <2>4. Progress(r)'
      BY <2>1, <2>2, <2>3 DEF Progress
    <2>5. \A s \in Reqs \ {r} : Same(s)
      BY <1>3 DEF Answered, Asked, Same
    <2> QED
      BY <2>4, <2>5, MineAndOthers
  <1>4. ASSUME NEW r \in Reqs, SwitchAccount(r) PROVE Billing'
    <2>1. pc[r] = "call" /\ Asked(r) /\ UNCHANGED <<pc, at, cand>>
      BY <1>4 DEF SwitchAccount
    <2>2. Progress(r)'
      BY <2>1, AskedGrows DEF Billing, Progress
    <2>3. \A s \in Reqs \ {r} : Same(s)
      BY <1>4 DEF SwitchAccount, Asked, Same
    <2> QED
      BY <2>2, <2>3, MineAndOthers
  <1>5. ASSUME NEW r \in Reqs, Refused(r) PROVE Billing'
    <2>1. /\ pc[r] = "call" /\ Asked(r) /\ cand' = cand
          /\ IsList(cand[r]) /\ at[r] \in 1 .. Len(cand[r])
      BY <1>5 DEF Refused, Roster, Billing, Progress
    <2>2. \/ HasNext(r) /\ pc' = pc /\ at' = [at EXCEPT ![r] = at[r] + 1]
          \/ ~HasNext(r) /\ pc' = [pc EXCEPT ![r] = "failed"] /\ at' = at
      BY <1>5 DEF Refused, NextAt
    <2>3. ASSUME NEW i \in 1 .. at[r] PROVE cand[r][i] \in AskedMembers(r)'
      <3>1. i = at[r] \/ i \in 1 .. at[r] - 1
        OBVIOUS
      <3>2. i \in 1 .. at[r] - 1 => cand[r][i] \in AskedMembers(r)
        BY <2>1 DEF Billing, Progress
      <3> QED
        BY <2>1, <3>1, <3>2, AskedGrows DEF Member
    <2>4. Progress(r)'
      <3>1. CASE HasNext(r) /\ pc' = pc /\ at' = [at EXCEPT ![r] = at[r] + 1]
        <4>1. at'[r] - 1 = at[r] /\ pc'[r] = "call"
          BY <2>1, <3>1
        <4>2. at'[r] \in 1 .. Len(cand'[r])
          BY <2>1, <3>1 DEF HasNext, IsList
        <4> QED
          BY <2>1, <2>3, <4>1, <4>2 DEF Progress
      <3>2. CASE ~HasNext(r) /\ pc' = [pc EXCEPT ![r] = "failed"] /\ at' = at
        <4>1. DOMAIN cand[r] = 1 .. at[r]
          BY <2>1, <3>2 DEF HasNext, IsList
        <4>2. ToSet(cand'[r]) \subseteq AskedMembers(r)'
          BY <2>1, <2>3, <4>1 DEF ToSet
        <4> QED
          BY <3>2, <4>2 DEF Progress
      <3> QED
        BY <2>2, <3>1, <3>2
    <2>5. \A s \in Reqs \ {r} : Same(s)
      <3>1. UNCHANGED <<bill, dry>> /\ \A s \in Reqs \ {r} : tried'[s] = tried[s]
        BY <1>5 DEF Refused, Asked
      <3> QED
        BY <2>1, <2>2, <3>1 DEF Same
    <2> QED
      BY <2>4, <2>5, MineAndOthers
  <1>6. ASSUME NEW r \in Reqs, StreamCut(r) PROVE Billing'
    <2>1. pc'[r] = "cut"
      BY <1>6 DEF StreamCut
    <2>2. Progress(r)'
      BY <2>1 DEF Progress
    <2>3. \A s \in Reqs \ {r} : Same(s)
      BY <1>6 DEF StreamCut, Asked, Same
    <2> QED
      BY <2>2, <2>3, MineAndOthers
  <1>8. ASSUME NEW r \in Reqs, Breaks(r) PROVE Billing'
    <2>1. /\ pc[r] = "call" /\ pc'[r] = "broken" /\ UNCHANGED <<at, cand>>
          /\ Asked(r) \/ UNCHANGED tried
      BY <1>8 DEF Breaks
    <2>2. AskedMembers(r) \subseteq AskedMembers(r)'
      BY <2>1, AskedGrows DEF AskedMembers
    <2>3. Progress(r)'
      BY <2>1, <2>2 DEF Billing, Progress
    <2>4. \A s \in Reqs \ {r} : Same(s)
      BY <1>8 DEF Breaks, Asked, Same
    <2> QED
      BY <2>3, <2>4, MineAndOthers
  <1>7. CASE Settings \/ UNCHANGED vars
    <2>1. \A s \in Reqs : Same(s)
      BY <1>7, SettingsKeep DEF Same, vars, reqVars
    <2> QED
      BY <2>1, SameKeepsProgress DEF Billing
  <1> QED
    BY <1>1, <1>2, <1>3, <1>4, <1>5, <1>6, <1>7, <1>8 DEF Next, Handler

LEMMA AlwaysBilling == Spec => [](ReqTypes /\ Roster /\ Billing)
  <1>1. Init => ReqTypes /\ Roster /\ Billing
    BY TypesInit, RosterInit, BillingInit
  <1>2. ReqTypes /\ Roster /\ Billing /\ [Next]_vars => ReqTypes' /\ Roster' /\ Billing'
    BY TypesStep, RosterStep, BillingStep
  <1> QED
    BY <1>1, <1>2, PTL DEF Spec

\* The usage record of a request names the provider of the member that answered, and
\* every member before it in the order of attempt was asked, whatever requests run
\* beside it and whichever settings change.
THEOREM ServerBilled == Spec => []ServerIsBilled
  <1>1. Billing => ServerIsBilled
    BY DEF Billing, Progress, ServerIsBilled
  <1> QED
    BY <1>1, AlwaysBilling, PTL

\* A fallback request reports the last error only after each of its candidates was
\* asked: execute_combo loses none of them to an account switch, whatever members are
\* toggled meanwhile.  If an exception that it does not catch ends the request, all
\* members before the one it came from were asked.
THEOREM AllAreAsked == Spec => []FailsOnlyAfterAll
  <1>1. Billing => FailsOnlyAfterAll
    BY DEF Billing, Progress, FailsOnlyAfterAll
  <1> QED
    BY <1>1, AlwaysBilling, PTL

-----------------------------------------------------------------------------
(* Quota                                                                   *)

\* The requests under way that found p with quota left: each of them may still
\* charge p without having known better.
Going(p) == {r \in Reqs : pc[r] = "call" /\ p \notin dry[r]}

Within(p) ==
    Quota[p] # Unlimited =>
       /\ spill[p] <= spent[p]
       /\ Quota[p] = 0 => Going(p) = {}
       /\ spent[p] - spill[p] + Cardinality(Going(p)) <= Quota[p] + Cardinality(Reqs) - 1

Overshoot == \A p \in Providers : Within(p)

LEMMA GoingCounts ==
  ASSUME NEW p
  PROVE  /\ IsFiniteSet(Going(p)) /\ Cardinality(Going(p)) \in Nat
         /\ Cardinality(Going(p)) <= Cardinality(Reqs)
         /\ Cardinality(Reqs) \in Nat \ {0}
  <1>1. IsFiniteSet(Reqs) /\ Reqs # {}
    BY ComboAssumption
  <1>2. Cardinality(Reqs) \in Nat /\ Cardinality(Reqs) # 0
    BY <1>1, FS_CardinalityType, FS_EmptySet
  <1>3. Going(p) \subseteq Reqs
    BY DEF Going
  <1>4. IsFiniteSet(Going(p)) /\ Cardinality(Going(p)) <= Cardinality(Reqs)
    BY <1>1, <1>3, FS_Subset
  <1> QED
    BY <1>2, <1>4, FS_CardinalityType

LEMMA GoingCountsNext ==
  ASSUME NEW p
  PROVE  /\ Cardinality(Going(p)') \in Nat
         /\ Cardinality(Going(p)') <= Cardinality(Reqs)
         /\ Going(p)' \subseteq Going(p) => Cardinality(Going(p)') <= Cardinality(Going(p))
  <1>1. IsFiniteSet(Reqs)
    BY ComboAssumption
  <1>2. Going(p)' \subseteq Reqs
    BY DEF Going
  <1>3. IsFiniteSet(Going(p)') /\ Cardinality(Going(p)') <= Cardinality(Reqs)
    BY <1>1, <1>2, FS_Subset
  <1> QED
    BY <1>3, GoingCounts, FS_CardinalityType, FS_Subset

\* Without a charge, a step that begins no call keeps within the bound.
LEMMA FewerKeepWithin ==
  ASSUME ReqTypes, NEW p \in Providers, Within(p), Going(p)' \subseteq Going(p),
         spent'[p] = spent[p], spill'[p] = spill[p]
  PROVE  Within(p)'
  <1> SUFFICES ASSUME Quota[p] # Unlimited PROVE Within(p)'
    BY DEF Within
  <1>1. Quota[p] \in Nat /\ spent[p] \in Nat /\ spill[p] \in Nat
    BY ComboAssumption DEF ReqTypes
  <1>2. Cardinality(Going(p)') <= Cardinality(Going(p)) /\ Cardinality(Going(p)') \in Nat
    BY GoingCountsNext
  <1>3. Quota[p] = 0 => Going(p)' = {}
    BY DEF Within
  <1>4. spent[p] - spill[p] + Cardinality(Going(p)') <= Quota[p] + Cardinality(Reqs) - 1
    BY <1>1, <1>2, GoingCounts DEF Within
  <1> QED
    BY <1>3, <1>4 DEF Within

LEMMA OvershootInit ==
  ASSUME Init
  PROVE  Overshoot
  <1> SUFFICES ASSUME NEW p \in Providers, Quota[p] # Unlimited PROVE Within(p)
    BY DEF Overshoot, Within
  <1>1. Quota[p] \in Nat /\ spent[p] \in Nat /\ spill[p] = 0 /\ spent[p] <= Quota[p]
    <2>1. Quota[p] \in Nat
      BY ComboAssumption
    <2>2. spent[p] \in Nat
      BY TypesInit DEF ReqTypes
    <2>3. spill[p] = 0
      BY DEF Init
    <2>4. spent[p] <= Quota[p]
      BY DEF Init
    <2> QED
      BY <2>1, <2>2, <2>3, <2>4
  <1>2. Going(p) = {}
    BY DEF Init, Going
  <1>3. Cardinality(Going(p)) = 0
    BY <1>2, FS_EmptySet
  <1> QED
    BY <1>1, <1>2, <1>3, GoingCounts DEF Within

\* The first call of a request: who finds quota left makes at most all requests go.
LEMMA BuildKeepsWithin ==
  ASSUME ReqTypes, NEW r \in Reqs, Build(r), NEW p \in Providers, Within(p)
  PROVE  Within(p)'
  <1>1. UNCHANGED <<spent, spill>> /\ dry' = [dry EXCEPT ![r] = {q \in Providers : Drained(q)}]
    BY DEF Build
  <1>2. PICK try : pc' = [pc EXCEPT ![r] = IF try = <<>> THEN "failed" ELSE "call"]
    BY DEF Build
  <1>3. \A s \in Reqs \ {r} : pc'[s] = pc[s] /\ dry'[s] = dry[s]
    BY <1>1, <1>2 DEF ReqTypes
  <1>4. dry'[r] = {q \in Providers : Drained(q)}
    BY <1>1 DEF ReqTypes
  <1>5. CASE Drained(p)
    <2>1. Going(p)' \subseteq Going(p)
      BY <1>3, <1>4, <1>5 DEF Going
    <2> QED
      BY <1>1, <2>1, FewerKeepWithin
  <1>6. CASE ~ Drained(p)
    <2> SUFFICES ASSUME Quota[p] # Unlimited PROVE Within(p)'
      BY DEF Within
    <2>1. Quota[p] \in Nat /\ spent[p] \in Nat /\ spill[p] \in Nat
      BY ComboAssumption DEF ReqTypes
    <2>2. spent[p] < Quota[p]
      BY <1>6, <2>1 DEF Drained
    <2>3. Cardinality(Going(p)') <= Cardinality(Reqs) /\ Cardinality(Going(p)') \in Nat
      BY GoingCountsNext
    <2>4. spent[p] - spill[p] + Cardinality(Going(p)') <= Quota[p] + Cardinality(Reqs) - 1
      <3> DEFINE g == Cardinality(Going(p)')
                 n == Cardinality(Reqs)
      <3>1. g \in Nat /\ n \in Nat /\ g <= n
        BY <2>3, GoingCounts
      <3>2. spent[p] - spill[p] <= Quota[p] - 1
        BY <2>1, <2>2
      <3> HIDE DEF g, n
      <3>3. spent[p] - spill[p] + g <= Quota[p] + n - 1
        BY <2>1, <3>1, <3>2
      <3> QED
        BY <3>3 DEF g, n
    <2>5. Quota[p] # 0 /\ spill[p] <= spent[p]
      BY <2>1, <2>2 DEF Within
    <2> QED
      BY <1>1, <2>4, <2>5 DEF Within
  <1> QED
    BY <1>5, <1>6

\* An answer: the charge of a request that knew p was dry is spilt, and any other
\* is the last one its request makes.
LEMMA AnsweredKeepsWithin ==
  ASSUME ReqTypes, NEW r \in Reqs, Answered(r), NEW p \in Providers, Within(p)
  PROVE  Within(p)'
  <1> DEFINE q == Via[Member(r)]
  <1>1. /\ pc[r] = "call" /\ pc' = [pc EXCEPT ![r] = "done"] /\ dry' = dry
        /\ spent' = Charge(spent, q)
        /\ spill' = IF q \in dry[r] THEN Charge(spill, q) ELSE spill
    BY DEF Answered, Billed
  <1>2. Going(p)' = Going(p) \ {r}
    BY <1>1 DEF Going, ReqTypes
  <1>3. CASE p # q
    <2> HIDE DEF q
    <2>1. spent \in [Providers -> Nat] /\ spill \in [Providers -> Nat]
      BY DEF ReqTypes
    <2>2. Charge(spent, q)[p] = spent[p] /\ Charge(spill, q)[p] = spill[p]
      BY <1>3, <2>1, ChargeType
    <2>3. spent'[p] = spent[p] /\ spill'[p] = spill[p]
      BY <1>1, <2>2
    <2> QED
      BY <1>2, <2>3, FewerKeepWithin
  <1>4. CASE p = q
    <2> SUFFICES ASSUME Quota[p] # Unlimited PROVE Within(p)'
      BY DEF Within
    <2>1. Quota[p] \in Nat /\ spent[p] \in Nat /\ spill[p] \in Nat /\ MaxSpent \in Nat
      BY ComboAssumption DEF ReqTypes
    <2>2. spent'[p] = IF spent[p] < MaxSpent THEN spent[p] + 1 ELSE spent[p]
      <3>1. spent \in [Providers -> Nat] /\ spent' = Charge(spent, p)
        BY <1>1, <1>4 DEF ReqTypes
      <3> QED
        BY <3>1, ChargeType
    <2>3. Cardinality(Going(p)) \in Nat /\ Cardinality(Reqs) \in Nat
      BY GoingCounts
    <2>4. Quota[p] = 0 => Going(p)' = {}
      BY <1>2 DEF Within
    <2>5. CASE p \in dry[r]
      <3>1. spill'[p] = IF spill[p] < MaxSpent THEN spill[p] + 1 ELSE spill[p]
        <4>1. spill \in [Providers -> Nat] /\ spill' = Charge(spill, p)
          BY <1>1, <1>4, <2>5 DEF ReqTypes
        <4> QED
          BY <4>1, ChargeType
      <3>2. Cardinality(Going(p)') <= Cardinality(Going(p)) /\ Cardinality(Going(p)') \in Nat
        BY <1>2, GoingCountsNext
      <3>3. spill[p] <= spent[p]
            /\ spent[p] - spill[p] + Cardinality(Going(p)) <= Quota[p] + Cardinality(Reqs) - 1
        BY DEF Within
      <3>4. spill'[p] <= spent'[p] /\ spent'[p] - spill'[p] <= spent[p] - spill[p]
        BY <2>1, <2>2, <3>1, <3>3
      <3>5. spent'[p] \in Nat /\ spill'[p] \in Nat
        BY <2>1, <2>2, <3>1
      <3>6. spent'[p] - spill'[p] + Cardinality(Going(p)') <= Quota[p] + Cardinality(Reqs) - 1
        BY <2>1, <2>3, <3>2, <3>3, <3>4, <3>5
      <3> QED
        BY <2>4, <3>4, <3>6 DEF Within
    <2>6. CASE p \notin dry[r]
      <3>1. spill'[p] = spill[p]
        BY <1>1, <1>4, <2>6
      <3>2. Cardinality(Going(p)') = Cardinality(Going(p)) - 1
        <4>1. r \in Going(p)
          BY <1>1, <2>6 DEF Going
        <4>2. IsFiniteSet(Going(p))
          BY GoingCounts
        <4>3. Cardinality(Going(p) \ {r}) = Cardinality(Going(p)) - 1
          BY <4>1, <4>2, FS_RemoveElement
        <4> QED
          BY <1>2, <4>3
      <3>3. spill[p] <= spent[p]
            /\ spent[p] - spill[p] + Cardinality(Going(p)) <= Quota[p] + Cardinality(Reqs) - 1
        BY DEF Within
      <3>4. spent[p] <= spent'[p] /\ spent'[p] <= spent[p] + 1 /\ spent'[p] \in Nat
        BY <2>1, <2>2
      <3>5. spill'[p] <= spent'[p]
            /\ spent'[p] - spill'[p] + Cardinality(Going(p)') <= Quota[p] + Cardinality(Reqs) - 1
        BY <2>1, <2>3, <3>1, <3>2, <3>3, <3>4
      <3> QED
        BY <2>4, <3>5 DEF Within
    <2> QED
      BY <2>5, <2>6
  <1> QED
    BY <1>3, <1>4

\* A new window forgets the charges; who is going may still charge it.
LEMMA WindowKeepsWithin ==
  ASSUME ReqTypes, NEW w \in Providers, NewWindow(w), NEW p \in Providers, Within(p)
  PROVE  Within(p)'
  <1>1. Going(p)' = Going(p)
    BY DEF NewWindow, reqVars, Going
  <1>2. CASE p # w
    <2>1. spent'[p] = spent[p] /\ spill'[p] = spill[p]
      BY <1>2 DEF NewWindow, ReqTypes
    <2> QED
      BY <1>1, <2>1, FewerKeepWithin
  <1>3. CASE p = w
    <2> SUFFICES ASSUME Quota[p] # Unlimited PROVE Within(p)'
      BY DEF Within
    <2>1. spent'[p] = 0 /\ spill'[p] = 0
      BY <1>3 DEF NewWindow, ReqTypes
    <2>2. Quota[p] \in Nat
      BY ComboAssumption
    <2>3. Quota[p] = 0 => Cardinality(Going(p)) = 0
      BY FS_EmptySet DEF Within
    <2>4. Cardinality(Going(p)) <= Quota[p] + Cardinality(Reqs) - 1
      BY <2>2, <2>3, GoingCounts
    <2>5. Quota[p] = 0 => Going(p)' = {}
      BY <1>1 DEF Within
    <2>6. spent'[p] - spill'[p] + Cardinality(Going(p)') <= Quota[p] + Cardinality(Reqs) - 1
      BY <1>1, <2>1, <2>4, GoingCounts
    <2> QED
      BY <2>1, <2>5, <2>6 DEF Within
  <1> QED
    BY <1>2, <1>3

LEMMA OvershootStep ==
  ASSUME ReqTypes, Overshoot, [Next]_vars
  PROVE  Overshoot'
  <1> SUFFICES ASSUME NEW p \in Providers PROVE Within(p)'
    BY DEF Overshoot
  <1>w. Within(p)
    BY DEF Overshoot
  <1>1. ASSUME NEW r \in Reqs, Arrive(r) \/ Saver(r) \/ SwitchAccount(r) \/ Refused(r) \/ StreamCut(r) \/ Breaks(r)
        PROVE  Within(p)'
    <2>1. UNCHANGED <<spent, spill, dry>>
      BY <1>1 DEF Arrive, Saver, SwitchAccount, Refused, StreamCut, Breaks
    <2>2. \A s \in Reqs : pc'[s] = "call" => pc[s] = "call"
      BY <1>1 DEF Arrive, Saver, SwitchAccount, Refused, StreamCut, Breaks, ReqTypes
    <2>3. Going(p)' \subseteq Going(p)
      BY <2>1, <2>2 DEF Going
    <2> QED
      BY <1>w, <2>1, <2>3, FewerKeepWithin
  <1>2. ASSUME NEW r \in Reqs, Build(r) PROVE Within(p)'
    BY <1>w, <1>2, BuildKeepsWithin
  <1>3. ASSUME NEW r \in Reqs, Answered(r) PROVE Within(p)'
    BY <1>w, <1>3, AnsweredKeepsWithin
  <1>4. CASE Settings
    <2>1. ASSUME NEW w \in Providers, NewWindow(w) PROVE Within(p)'
      BY <1>w, <2>1, WindowKeepsWithin
    <2>2. CASE UNCHANGED <<spent, spill, pc, dry>>
      <3>1. Going(p)' = Going(p)
        BY <2>2 DEF Going
      <3> QED
        BY <1>w, <2>2, <3>1, FewerKeepWithin
    <2> QED
      BY <1>4, <2>1, <2>2 DEF Settings, EditAccount, ToggleMember, reqVars
  <1>5. CASE UNCHANGED vars
    <2>1. Going(p)' = Going(p) /\ spent' = spent /\ spill' = spill
      BY <1>5 DEF vars, reqVars, Going
    <2> QED
      BY <1>w, <2>1, FewerKeepWithin
  <1> QED
    BY <1>1, <1>2, <1>3, <1>4, <1>5 DEF Next, Handler

\* A provider is charged beyond its quota by no more than the other requests that
\* were under way when it ran out, besides those that took it as a last resort; for
\* every strategy, though only "fallback" orders by quota.
THEOREM OvershootBound == Spec => []QuotaOvershootBounded
  <1>1. Init => ReqTypes /\ Overshoot
    BY TypesInit, OvershootInit
  <1>2. ReqTypes /\ Overshoot /\ [Next]_vars => ReqTypes' /\ Overshoot'
    BY TypesStep, OvershootStep
  <1>3. ReqTypes /\ Overshoot => QuotaOvershootBounded
    <2> SUFFICES ASSUME ReqTypes, Overshoot, NEW p \in Providers, Quota[p] # Unlimited
        PROVE  spent[p] - spill[p] <= Quota[p] + Cardinality(Reqs) - 1
      BY DEF QuotaOvershootBounded
    <2>1. Quota[p] \in Nat /\ spent[p] \in Nat /\ spill[p] \in Nat
      BY ComboAssumption DEF ReqTypes
    <2>2. spent[p] - spill[p] + Cardinality(Going(p)) <= Quota[p] + Cardinality(Reqs) - 1
      BY DEF Overshoot, Within
    <2> QED
      BY <2>1, <2>2, GoingCounts
  <1> QED
    BY <1>1, <1>2, <1>3, PTL DEF Spec

-----------------------------------------------------------------------------
(* The choice                                                              *)

\* A fallback request that streams not has every enabled member for a candidate,
\* those out of quota too (quota_aware_order: "deprioritized, never dropped").
NoneDropped ==
    [][\A r \in Reqs :
          pc[r] = "build" /\ pc'[r] # "build" /\ strategy = "fallback" /\ ~stream[r] =>
             ToSet(cand'[r]) = live]_vars

\* Only the handler of a request that builds its candidates leaves "build".
LEMMA LeavesBuild ==
  ASSUME ReqTypes, [Next]_vars, NEW r \in Reqs, pc[r] = "build", pc'[r] # "build"
  PROVE  Build(r)
  <1>1. ASSUME NEW s \in Reqs, Arrive(s) \/ Saver(s) \/ Answered(s) \/ SwitchAccount(s)
                               \/ Refused(s) \/ StreamCut(s) \/ Breaks(s)
        PROVE FALSE
    <2>1. pc[s] # "build" /\ (pc' = pc \/ \E l : pc' = [pc EXCEPT ![s] = l])
      BY <1>1 DEF Arrive, Saver, Answered, SwitchAccount, Refused, StreamCut, Breaks
    <2> QED
      BY <2>1 DEF ReqTypes
  <1>2. ASSUME NEW s \in Reqs, Build(s) PROVE Build(r)
    <2>1. \E l : pc' = [pc EXCEPT ![s] = l]
      BY <1>2 DEF Build
    <2>2. s = r
      BY <2>1 DEF ReqTypes
    <2> QED
      BY <1>2, <2>2
  <1>3. CASE Settings \/ UNCHANGED vars
    BY <1>3, SettingsKeep DEF vars, reqVars
  <1> QED
    BY <1>1, <1>2, <1>3 DEF Next, Handler

\* No order of the candidates loses a member, for any quotas and usage.
THEOREM QuotaDefersOnly == Spec => NoneDropped
  <1>1. ASSUME ReqTypes, Roster, [Next]_vars, NEW r \in Reqs, pc[r] = "build",
               pc'[r] # "build", strategy = "fallback", ~stream[r]
        PROVE  ToSet(cand'[r]) = live
    <2>1. Build(r)
      BY <1>1, LeavesBuild
    <2>2. PICK try \in Attempts(r, Pool(r)) : cand' = [cand EXCEPT ![r] = try]
      BY <2>1 DEF Build
    <2>3. try = Pool(r)
      BY <1>1, <2>2 DEF Attempts
    <2>4. ToSet(try) = Usable(r)
      BY <1>1, <2>3, PoolLists DEF Roster
    <2>5. Usable(r) = live
      BY <1>1 DEF Usable
    <2> QED
      BY <1>1, <2>2, <2>4, <2>5 DEF ReqTypes
  <1>2. ReqTypes /\ Roster /\ [Next]_vars =>
           (\A r \in Reqs : pc[r] = "build" /\ pc'[r] # "build" /\ strategy = "fallback"
                            /\ ~stream[r] => ToSet(cand'[r]) = live)
    BY <1>1
  <1> QED
    BY <1>2, AlwaysBilling, PTL DEF NoneDropped, Spec

-----------------------------------------------------------------------------
(* The cursor                                                              *)

\* If the last choice was saved, the cursor points past the member chosen, in the list
\* it was chosen from.
Onward ==
    /\ cursor \in Nat /\ rr.list \in Seq(Nat)
    /\ rr.saved /\ Len(rr.list) > 1 =>
          /\ cursor < Len(rr.list)
          /\ rr.list[cursor + 1] # rr.member

LEMMA CursorMoves ==
  ASSUME NEW c \in Nat, NEW n \in Nat, n > 1
  PROVE  /\ c % n \in 0 .. n - 1 /\ (c + 1) % n \in 0 .. n - 1
         /\ (c + 1) % n # c % n
  <1> DEFINE q == c \div n
             r == c % n
             u == (c + 1) \div n
             s == (c + 1) % n
  <1>1. c = n * q + r /\ q \in Int /\ r \in 0 .. n - 1
    OBVIOUS
  <1>2. c + 1 = n * u + s /\ u \in Int /\ s \in 0 .. n - 1
    OBVIOUS
  <1> HIDE DEF q, r, u, s
  <1>3. r # s
    <2> SUFFICES ASSUME r = s PROVE FALSE
      OBVIOUS
    <2>1. n * u = n * q + 1
      BY <1>1, <1>2
    <2>2. n * (u - q) = 1
      <3>1. n * (u - q) = n * u - n * q
        BY <1>1, <1>2
      <3>2. n * u \in Int /\ n * q \in Int
        BY <1>1, <1>2
      <3> QED
        BY <2>1, <3>1, <3>2
    <2>3. u - q \in Int
      BY <1>1, <1>2
    <2>4. CASE u - q <= 0
      <3>1. n * (u - q) <= 0
        BY <2>3, <2>4
      <3> QED
        BY <2>2, <3>1
    <2>5. CASE u - q >= 1
      <3>1. n * (u - q) >= n
        BY <2>3, <2>5
      <3> QED
        BY <2>2, <3>1
    <2> QED
      BY <2>3, <2>4, <2>5
  <1> QED
    BY <1>1, <1>2, <1>3 DEF r, s

LEMMA OnwardInit ==
  ASSUME Init
  PROVE  Onward
  <1>1. 0 .. Cardinality(Members) - 1 \subseteq Nat
    OBVIOUS
  <1>2. rr.list = <<>>
    BY DEF Init
  <1> QED
    BY <1>1, <1>2 DEF Init, Onward

\* What round_robin chooses, from which list, and where it leaves the cursor.
LEMMA RoundRobinChooses ==
  ASSUME Roster, NEW r \in Reqs, Build(r), strategy = "round_robin", Pool(r) # <<>>
  PROVE  /\ rr'.list = Pool(r)
         /\ rr'.member = Pool(r)[(cursor % Len(Pool(r))) + 1]
         /\ cursor' = IF rr'.saved THEN (cursor + 1) % Len(Pool(r)) ELSE cursor
  <1> DEFINE ms == Pool(r)
  <1>1. PICK try \in Attempts(r, ms) : Rotates(ms, try[1])
    BY DEF Build
  <1> HIDE DEF ms
  <1>2. try = <<ms[(cursor % Len(ms)) + 1]>>
    BY <1>1 DEF Attempts, ms
  <1>3. try[1] = ms[(cursor % Len(ms)) + 1]
    BY <1>2
  <1>4. PICK saved \in BOOLEAN :
           /\ cursor' = IF saved THEN NextCursor(Len(ms)) ELSE cursor
           /\ rr' = [member |-> try[1], list |-> ms, saved |-> saved]
    BY <1>1 DEF Rotates
  <1>5. rr'.member = try[1] /\ rr'.list = ms /\ rr'.saved = saved
    BY <1>4
  <1> QED
    BY <1>3, <1>4, <1>5 DEF NextCursor, ms

\* Each member is once in the list that round_robin chooses from.
LEMMA PoolIsOrdered ==
  ASSUME Roster, NEW r \in Reqs, strategy = "round_robin"
  PROVE  /\ Pool(r) \in Seq(Nat)
         /\ \A i, j \in 1 .. Len(Pool(r)) : Pool(r)[i] = Pool(r)[j] => i = j
  <1>1. IsFiniteSet(Usable(r)) /\ Usable(r) \subseteq Nat
    BY UsableIsFinite DEF Roster
  <1>2. Pool(r) = InOrder(Usable(r))
    BY DEF Pool
  <1> QED
    BY <1>1, <1>2, InOrderLists

LEMMA OnwardStep ==
  ASSUME ReqTypes, Roster, Onward, [Next]_vars
  PROVE  Onward'
  <1>1. CASE UNCHANGED <<cursor, rr>>
    BY <1>1 DEF Onward
  <1>2. ASSUME NEW r \in Reqs, Build(r) PROVE Onward'
    <2>1. CASE strategy = "round_robin" /\ Pool(r) # <<>>
      <3> DEFINE ms == Pool(r)
                 n  == Len(ms)
      <3>1. /\ rr'.list = ms /\ rr'.member = ms[(cursor % n) + 1]
            /\ cursor' = IF rr'.saved THEN (cursor + 1) % n ELSE cursor
        BY <1>2, <2>1, RoundRobinChooses
      <3>2. ms \in Seq(Nat) /\ \A i, j \in 1 .. n : ms[i] = ms[j] => i = j
        BY <2>1, PoolIsOrdered
      <3>3. n \in Nat \ {0}
        BY <2>1, <3>2
      <3>4. cursor \in Nat
        BY DEF Onward
      <3> HIDE DEF ms
      <3>e. Len(rr'.list) = n
        BY <3>1
      <3> HIDE DEF n
      <3>5. cursor' \in Nat
        <4>1. (cursor + 1) % n \in Nat
          BY <3>3, <3>4
        <4> QED
          BY <3>1, <3>4, <4>1
      <3>6. ASSUME rr'.saved, n > 1
            PROVE  cursor' < n /\ ms[cursor' + 1] # ms[(cursor % n) + 1]
        <4>1. cursor % n \in 0 .. n - 1 /\ cursor' \in 0 .. n - 1 /\ cursor' # cursor % n
          BY <3>1, <3>3, <3>4, <3>6, CursorMoves
        <4>2. \A i, j \in 0 .. n - 1 : i # j =>
                 i + 1 \in 1 .. n /\ j + 1 \in 1 .. n /\ i + 1 # j + 1
          BY <3>3
        <4>3. ms[cursor' + 1] # ms[(cursor % n) + 1]
          BY <3>2, <4>1, <4>2
        <4> QED
          BY <3>3, <4>1, <4>3
      <3> QED
        BY <3>1, <3>2, <3>e, <3>5, <3>6 DEF Onward
    <2>2. CASE ~(strategy = "round_robin" /\ Pool(r) # <<>>)
      BY <1>1, <1>2, <2>2 DEF Build
    <2> QED
      BY <2>1, <2>2
  <1>3. ASSUME NEW m, ToggleMember(m) PROVE UNCHANGED <<cursor, rr>>
    BY <1>3 DEF ToggleMember
  <1>4. ASSUME NEW r \in Reqs, Arrive(r) \/ Saver(r) \/ Answered(r) \/ SwitchAccount(r)
                               \/ Refused(r) \/ StreamCut(r) \/ Breaks(r)
        PROVE  UNCHANGED <<cursor, rr>>
    BY <1>4 DEF Arrive, Saver, Answered, SwitchAccount, Refused, StreamCut, Breaks
  <1>5. ASSUME NEW a, EditAccount(a) PROVE UNCHANGED <<cursor, rr>>
    BY <1>5 DEF EditAccount
  <1>6. ASSUME NEW p, NewWindow(p) PROVE UNCHANGED <<cursor, rr>>
    BY <1>6 DEF NewWindow
  <1>7. CASE UNCHANGED vars
    BY <1>1, <1>7 DEF vars
  <1> QED
    BY <1>1, <1>2, <1>3, <1>4, <1>5, <1>6, <1>7 DEF Next, Handler, Settings

\* Two round-robin choices in a row from the same list are of different members, for
\* any number of concurrent requests, streams among them, whichever members come and go
\* between other choices and wherever they left the cursor (select_member), provided
\* that the cursor of the first was saved.
THEOREM TurnsMoveOn == Spec => NextMemberDiffers
  <1>1. Init => ReqTypes /\ Roster /\ Onward
    BY TypesInit, RosterInit, OnwardInit
  <1>2. ReqTypes /\ Roster /\ Onward /\ [Next]_vars => ReqTypes' /\ Roster' /\ Onward'
    BY TypesStep, RosterStep, OnwardStep
  <1>3. ASSUME ReqTypes, Roster, Onward, [Next]_vars, NEW r \in Reqs,
               strategy = "round_robin", pc[r] = "build", pc'[r] = "call",
               rr.saved, Pool(r) = rr.list, Len(rr.list) > 1
        PROVE  rr'.member # rr.member
    <2>1. Build(r)
      BY <1>3, LeavesBuild
    <2> DEFINE n == Len(rr.list)
    <2>2. cursor \in Nat /\ n \in Nat /\ n > 1 /\ cursor < n /\ rr.list[cursor + 1] # rr.member
      BY <1>3 DEF Onward
    <2>3. Pool(r) # <<>>
      BY <1>3, <2>2
    <2>4. rr'.member = rr.list[(cursor % n) + 1]
      BY <1>3, <2>1, <2>3, RoundRobinChooses
    <2> HIDE DEF n
    <2>5. cursor % n = cursor
      BY <2>2
    <2> QED
      BY <2>2, <2>4, <2>5
  <1>4. ReqTypes /\ Roster /\ Onward /\ [Next]_vars =>
           (\A r \in Reqs :
              ( /\ strategy = "round_robin" /\ pc[r] = "build" /\ pc'[r] = "call"
                /\ rr.saved /\ Pool(r) = rr.list /\ Len(rr.list) > 1 )
              => rr'.member # rr.member)
    BY <1>3
  <1> QED
    BY <1>1, <1>2, <1>4, PTL DEF Spec, NextMemberDiffers

-----------------------------------------------------------------------------
(* Credentials                                                             *)

\* Every set of accounts has one that was used before the others, so that the choice
\* of the oldest is well defined.
Aligned(b) ==
    \A S \in SUBSET Accounts : S # {} =>
       \E a \in S : \A c \in S \ {a} : <<a, c>> \in b.older

OfProvider(a, p) == a = Legacy \/ (a \in Accounts /\ Owner[a] = p)

\* What the choice for one member leaves.
Goods ==
    {s \in [book : Books, acct : [Members -> AnyAcct]] :
        Aligned(s.book) /\ \A m \in Members : OfProvider(s.acct[m], Via[m])}

LEMMA UpTo ==
  ASSUME NEW L \in Nat, NEW G, 0 \in G, \A i \in 1 .. L : i - 1 \in G => i \in G
  PROVE  0 .. L \subseteq G
  <1> DEFINE Less == {e \in Nat \X Nat : e[1] < e[2]}
             Bad == {i \in 0 .. L : i \notin G}
  <1>1. IsWellFoundedOn(Less, Nat)
    BY NatLessThanWellFounded DEF OpToRel
  <1>2. SUFFICES ASSUME Bad # {} PROVE FALSE
    OBVIOUS
  <1>3. PICK i \in Bad : \A j \in Bad : ~(<<j, i>> \in Less)
    <2>1. Bad \subseteq Nat
      OBVIOUS
    <2> HIDE DEF Less, Bad
    <2> QED
      BY <1>1, <1>2, <2>1, WFMin
  <1>4. i \in 1 .. L /\ i - 1 \in 0 .. L /\ <<i - 1, i>> \in Less
    <2>1. i \in 0 .. L /\ i # 0
      BY <1>3
    <2> QED
      BY <2>1
  <1>5. i - 1 \in G
    BY <1>3, <1>4
  <1> QED
    BY <1>3, <1>4, <1>5

\* A set of numbers that is not empty has a first one.
LEMMA Smallest ==
  ASSUME NEW S \in SUBSET Nat, S # {}
  PROVE  \E a \in S : \A c \in S : a <= c
  <1> DEFINE Less == {e \in Nat \X Nat : e[1] < e[2]}
  <1>1. IsWellFoundedOn(Less, Nat)
    BY NatLessThanWellFounded DEF OpToRel
  <1>2. PICK a \in S : \A c \in S : ~(<<c, a>> \in Less)
    <2> HIDE DEF Less
    <2> QED
      BY <1>1, WFMin
  <1>3. ASSUME NEW c \in S PROVE a <= c
    <2>1. a \in Nat /\ c \in Nat /\ ~(c < a)
      BY <1>2
    <2> QED
      BY <2>1
  <1> QED
    BY <1>3

\* One choice: the account is of the provider, and the book keeps its form.
LEMMA ChosenIsOwn ==
  ASSUME AccountsOK, NEW b \in Books, Aligned(b), NEW granted, NEW p \in Providers
  PROVE  OfProvider(Chosen(b, granted, p, Legacy), p)
  <1> DEFINE S == Offers(b, granted, p)
  <1>1. S \in SUBSET Accounts /\ S \in SUBSET Nat /\ Legacy \notin S
        /\ \A c \in S : Owner[c] = p
    BY AccountAssumption DEF AccountsOK, Offers
  <1>2. Chosen(b, granted, p, Legacy) = IF S = {} THEN Legacy ELSE InTurn(b, p, S)
    BY <1>1 DEF Chosen, PinHolds
  <1> HIDE DEF S
  <1>3. S # {} => First(S) \in S
    BY <1>1, Smallest DEF First
  <1>4. S # {} => Oldest(b, S) \in S
    BY <1>1 DEF Aligned, Oldest
  <1>5. S # {} => InTurn(b, p, S) \in S
    BY <1>3, <1>4 DEF InTurn
  <1> QED
    BY <1>1, <1>2, <1>5 DEF OfProvider

LEMMA RecordedInBooks ==
  ASSUME NEW b \in Books, NEW p \in Providers, NEW a \in AnyAcct
  PROVE  Recorded(b, p, a) \in Books
  <1> USE DEF AnyAcct
  <1>1. CASE a = Legacy
    BY <1>1 DEF Recorded
  <1>2. CASE a \in Accounts /\ a # Legacy
    <2>1. Uses(b, p, a) \in 0 .. StickyLimit
      BY AccountAssumption DEF Books, Uses, OnStreak
    <2>2. Youngest(b, a) \in SUBSET (Accounts \X Accounts)
      BY <1>2 DEF Books, Youngest
    <2>3. [b.token EXCEPT ![a] = "valid"] \in [Accounts -> Tokens]
      BY DEF Books, Tokens
    <2>4. [b.sticky EXCEPT ![p] = [acct |-> a, uses |-> Uses(b, p, a)]]
             \in [Providers -> [acct : Accounts \cup {Legacy}, uses : 0 .. StickyLimit]]
      BY <2>1 DEF Books
    <2>5. b.sticky \in [Providers -> [acct : Accounts \cup {Legacy}, uses : 0 .. StickyLimit]]
      BY DEF Books
    <2> QED
      BY <1>2, <2>2, <2>3, <2>4, <2>5 DEF Books, Recorded
  <1> QED
    BY <1>1, <1>2

LEMMA RecordedAligned ==
  ASSUME NEW b, Aligned(b), NEW p, NEW a \in AnyAcct
  PROVE  Aligned(Recorded(b, p, a))
  <1>1. CASE a = Legacy
    BY <1>1 DEF Recorded
  <1>2. CASE a # Legacy
    <2>1. a \in Accounts /\ Recorded(b, p, a).older = Youngest(b, a)
      BY <1>2 DEF Recorded, AnyAcct
    <2>2. ASSUME NEW S \in SUBSET Accounts, S # {}
          PROVE  \E m \in S : \A c \in S \ {m} : <<m, c>> \in Youngest(b, a)
      <3>1. CASE S = {a}
        BY <3>1
      <3>2. CASE S # {a}
        <4>1. PICK m \in S \ {a} : \A c \in (S \ {a}) \ {m} : <<m, c>> \in b.older
          <5>1. S \ {a} \in SUBSET Accounts /\ S \ {a} # {}
            BY <2>2, <3>2
          <5> QED
            BY <5>1 DEF Aligned
        <4>2. \A c \in S \ {m} : <<m, c>> \in Youngest(b, a)
          BY <4>1 DEF Youngest
        <4> QED
          BY <4>1, <4>2
      <3> QED
        BY <3>1, <3>2
    <2> QED
      BY <2>1, <2>2 DEF Aligned
  <1> QED
    BY <1>1, <1>2

-----------------------------------------------------------------------------
(* The fold over the members                                               *)

Start == [book |-> book, acct |-> [m \in Members |-> Legacy]]

After(granted, s, m) ==
    LET a == Chosen(s.book, granted, Via[m], Legacy)
    IN  [book |-> Recorded(s.book, Via[m], a),
         acct |-> [s.acct EXCEPT ![m] = a]]

LEMMA StartGood ==
  ASSUME AccountsOK, Aligned(book)
  PROVE  Start \in Goods
  <1>1. book \in Books /\ [m \in Members |-> Legacy] \in [Members -> AnyAcct]
    BY DEF AccountsOK, AnyAcct
  <1>2. Start \in [book : Books, acct : [Members -> AnyAcct]]
    BY <1>1 DEF Start
  <1>3. Start.book = book /\ \A m \in Members : Start.acct[m] = Legacy
    BY DEF Start
  <1>4. \A m \in Members : OfProvider(Start.acct[m], Via[m])
    BY <1>3 DEF OfProvider
  <1> QED
    BY <1>2, <1>3, <1>4 DEF Goods

LEMMA AfterGood ==
  ASSUME AccountsOK, NEW granted, NEW s \in Goods, NEW m \in Members
  PROVE  After(granted, s, m) \in Goods
  <1> DEFINE p == Via[m]
             a == Chosen(s.book, granted, p, Legacy)
             t == After(granted, s, m)
  <1>1. /\ s.book \in Books /\ s.acct \in [Members -> AnyAcct] /\ Aligned(s.book)
        /\ \A n \in Members : OfProvider(s.acct[n], Via[n])
    BY DEF Goods
  <1>2. p \in Providers
    BY ComboAssumption
  <1>3. OfProvider(a, p)
    BY <1>1, <1>2, ChosenIsOwn
  <1>4. a \in AnyAcct
    BY <1>3 DEF OfProvider, AnyAcct
  <1>5. t = [book |-> Recorded(s.book, p, a), acct |-> [s.acct EXCEPT ![m] = a]]
    BY DEF After
  <1> HIDE DEF a, t, p
  <1>6. Recorded(s.book, p, a) \in Books /\ Aligned(Recorded(s.book, p, a))
    BY <1>1, <1>2, <1>4, RecordedInBooks, RecordedAligned
  <1>7. t.acct \in [Members -> AnyAcct] /\ t.book = Recorded(s.book, p, a)
    BY <1>1, <1>4, <1>5
  <1>8. t \in [book : Books, acct : [Members -> AnyAcct]]
    BY <1>5, <1>6, <1>7
  <1>9. ASSUME NEW n \in Members PROVE OfProvider(t.acct[n], Via[n])
    <2>1. t.acct[n] = IF n = m THEN a ELSE s.acct[n]
      BY <1>1, <1>5
    <2> QED
      BY <1>1, <1>3, <2>1 DEF p
  <1>10. t \in Goods
    BY <1>6, <1>7, <1>8, <1>9 DEF Goods
  <1> QED
    BY <1>10 DEF t

LEMMA Largest ==
  ASSUME NEW k \in Nat, NEW S \in SUBSET (1 .. k), k \in S
  PROVE  Max(S) = k
  <1>1. \A y \in S : k >= y
    OBVIOUS
  <1>2. ASSUME NEW x \in S, \A y \in S : x >= y PROVE x = k
    BY <1>2
  <1> QED
    BY <1>1, <1>2 DEF Max

LEMMA MaxIn ==
  ASSUME NEW k \in Nat, NEW S \in SUBSET (1 .. k), S # {}
  PROVE  Max(S) \in S
  <1> DEFINE G == {i \in Nat : \A T \in SUBSET (1 .. i) : T # {} => Max(T) \in T}
  <1>1. 0 \in G
    <2>1. 1 .. 0 = {}
      OBVIOUS
    <2> QED
      BY <2>1
  <1>2. ASSUME NEW i \in 1 .. k, i - 1 \in G PROVE i \in G
    <2>1. ASSUME NEW T \in SUBSET (1 .. i), T # {} PROVE Max(T) \in T
      <3>1. CASE i \in T
        BY <3>1, Largest
      <3>2. CASE i \notin T
        <4>1. T \in SUBSET (1 .. i - 1)
          BY <3>2
        <4> QED
          BY <1>2, <2>1, <4>1
      <3> QED
        BY <3>1, <3>2
    <2> QED
      BY <2>1
  <1> HIDE DEF G
  <1>3. k \in G
    BY <1>1, <1>2, UpTo
  <1> QED
    BY <1>3 DEF G

\* The function in the definition of MapThenFoldSet, and what it is for the sets of the
\* first k places.
OneMore(granted, ms, f, s) ==
    IF s = {} THEN Start ELSE After(granted, f[s \ {Max(s)}], ms[Max(s)])
Folds(granted, ms, f) == f = [s \in SUBSET DOMAIN ms |-> OneMore(granted, ms, f, s)]
FoldsTo(granted, ms, f, k) == \A s \in SUBSET (1 .. k) : f[s] = OneMore(granted, ms, f, s)

LEMMA FoldsFurther ==
  ASSUME NEW granted, NEW ms, NEW k \in Nat \ {0}, NEW f, FoldsTo(granted, ms, f, k - 1)
  PROVE  \E g : FoldsTo(granted, ms, g, k)
  <1> DEFINE g == [s \in SUBSET (1 .. k) |->
                     IF k \in s THEN After(granted, f[s \ {k}], ms[k]) ELSE f[s]]
  <1>1. ASSUME NEW s \in SUBSET (1 .. k) PROVE g[s] = OneMore(granted, ms, g, s)
    <2>1. CASE k \in s
      <3>1. Max(s) = k /\ s # {}
        BY <2>1, Largest
      <3>2. g[s \ {k}] = f[s \ {k}] /\ g[s] = After(granted, f[s \ {k}], ms[k])
        BY <2>1
      <3> QED
        BY <3>1, <3>2 DEF OneMore
    <2>2. CASE k \notin s
      <3>1. s \in SUBSET (1 .. (k - 1))
        BY <2>2
      <3>2. g[s] = f[s] /\ f[s] = OneMore(granted, ms, f, s)
        BY <2>2, <3>1 DEF FoldsTo
      <3>3. g[s \ {Max(s)}] = f[s \ {Max(s)}]
        BY <2>2
      <3> QED
        BY <3>2, <3>3 DEF OneMore
    <2> QED
      BY <2>1, <2>2
  <1>2. FoldsTo(granted, ms, g, k)
    BY <1>1 DEF FoldsTo
  <1> QED
    BY <1>2

LEMMA FoldsExists ==
  ASSUME NEW granted, NEW L \in Nat, NEW ms, DOMAIN ms = 1 .. L
  PROVE  \E f : Folds(granted, ms, f)
  <1> DEFINE G == {k \in Nat : \E f : FoldsTo(granted, ms, f, k)}
  <1>1. 0 \in G
    <2> DEFINE f == [s \in SUBSET (1 .. 0) |-> Start]
    <2>1. \A s \in SUBSET (1 .. 0) : s = {}
      OBVIOUS
    <2>2. FoldsTo(granted, ms, f, 0)
      BY <2>1 DEF FoldsTo, OneMore
    <2> QED
      BY <2>2
  <1>2. ASSUME NEW k \in 1 .. L, k - 1 \in G PROVE k \in G
    <2>1. k \in Nat \ {0}
      OBVIOUS
    <2>2. PICK f : FoldsTo(granted, ms, f, k - 1)
      BY <1>2
    <2> QED
      BY <2>1, <2>2, FoldsFurther
  <1> HIDE DEF G
  <1>3. L \in G
    BY <1>1, <1>2, UpTo
  <1>4. PICK f : FoldsTo(granted, ms, f, L)
    BY <1>3 DEF G
  <1> DEFINE g == [s \in SUBSET (1 .. L) |-> f[s]]
  <1>5. ASSUME NEW s \in SUBSET (1 .. L) PROVE g[s] = OneMore(granted, ms, g, s)
    <2>1. s \ {Max(s)} \in SUBSET (1 .. L)
      OBVIOUS
    <2>2. g[s] = f[s] /\ g[s \ {Max(s)}] = f[s \ {Max(s)}]
      BY <2>1
    <2>3. f[s] = OneMore(granted, ms, f, s)
      BY <1>4 DEF FoldsTo
    <2> QED
      BY <2>2, <2>3 DEF OneMore
  <1>6. g = [s \in SUBSET (1 .. L) |-> OneMore(granted, ms, g, s)]
    BY <1>5
  <1> HIDE DEF g
  <1> QED
    BY <1>6 DEF Folds

LEMMA FoldsStay ==
  ASSUME AccountsOK, Aligned(book), NEW granted, NEW L \in Nat,
         NEW ms \in [1 .. L -> Members], NEW f, Folds(granted, ms, f)
  PROVE  f[1 .. L] \in Goods
  <1> DEFINE G == {k \in Nat : k <= L => f[1 .. k] \in Goods}
  <1>1. \A s \in SUBSET (1 .. L) :
           f[s] = IF s = {} THEN Start ELSE After(granted, f[s \ {Max(s)}], ms[Max(s)])
    BY DEF Folds, OneMore
  <1>2. 0 \in G
    <2>1. 1 .. 0 = {} /\ 1 .. 0 \in SUBSET (1 .. L)
      OBVIOUS
    <2>2. f[1 .. 0] = Start
      BY <1>1, <2>1
    <2> QED
      BY <2>2, StartGood
  <1>3. ASSUME NEW k \in 1 .. L, k - 1 \in G PROVE k \in G
    <2>1. k \in Nat /\ k - 1 \in Nat /\ k <= L /\ k - 1 <= L
      OBVIOUS
    <2>a. 1 .. k \in SUBSET (1 .. L) /\ k \in 1 .. k /\ 1 .. k # {}
      BY <2>1
    <2>b. (1 .. k) \ {k} = 1 .. (k - 1)
      BY <2>1
    <2>2. Max(1 .. k) = k
      BY <2>1, <2>a, Largest
    <2>3. f[1 .. k] = After(granted, f[1 .. (k - 1)], ms[k])
      BY <1>1, <2>a, <2>b, <2>2
    <2>4. f[1 .. (k - 1)] \in Goods /\ ms[k] \in Members
      BY <1>3, <2>1
    <2> QED
      BY <2>3, <2>4, AfterGood
  <1> HIDE DEF G
  <1>4. L \in G
    BY <1>2, <1>3, UpTo
  <1> QED
    BY <1>4 DEF G

\* What build_candidates leaves of the accounts, whatever it was asked for.
LEMMA BuiltGood ==
  ASSUME AccountsOK, Aligned(book), live \in SUBSET Members, NEW granted
  PROVE  Built(granted) \in Goods
  <1> DEFINE ms == InOrder(live)
             c  == CHOOSE f : f = [s \in SUBSET DOMAIN ms |->
                       IF s = {} THEN Start ELSE After(granted, f[s \ {Max(s)}], ms[Max(s)])]
  <1>1. IsFiniteSet(live) /\ live \subseteq Nat
    BY UsableIsFinite
  <1>2. ms \in Seq(live)
    BY <1>1, InOrderLists
  <1>3. Built(granted) = c[DOMAIN ms]
    BY DEF Built, FoldLeft, MapThenFoldSet, Start, After
  <1> HIDE DEF ms
  <1>4. Len(ms) \in Nat /\ DOMAIN ms = 1 .. Len(ms) /\ ms \in [1 .. Len(ms) -> Members]
    BY <1>2
  <1>5. \E f : Folds(granted, ms, f)
    BY <1>4, FoldsExists
  <1>6. Folds(granted, ms, c)
    BY <1>5 DEF Folds, OneMore
  <1> HIDE DEF c
  <1>7. c[1 .. Len(ms)] \in Goods
    BY <1>4, <1>6, FoldsStay
  <1> QED
    BY <1>3, <1>4, <1>7

-----------------------------------------------------------------------------
(* A member is asked with a credential of its own provider                 *)

\* target.api_key is never that of another provider's account, whatever requests,
\* switches and settings come between the choice and the call.
OwnCredentials == \A r \in Reqs : \A e \in tried[r] : OfProvider(e[2], Via[e[1]])

\* What a request keeps of the accounts until it calls.
Held(r) ==
    /\ \A m \in Members : OfProvider(acct[r][m], Via[m])
    /\ \A p \in Providers : \A a \in ToSet(creds[r][p]) : OfProvider(a, p)
    /\ switch[r] >= 1
    /\ pc[r] = "call" => OfProvider(key[r], Via[Member(r)])

\* What rr may be.
LastChoices == [member : Members \cup {NoMember}, list : Seq(Nat), saved : BOOLEAN]

CredInv == TypeOK /\ Aligned(book) /\ (\A r \in Reqs : Held(r)) /\ OwnCredentials

LEMMA AlignedAtFirst ==
  ASSUME AccountsInit
  PROVE  AccountsOK /\ Aligned(book)
  <1> USE DEF AccountsInit
  <1>1. /\ book.older = {e \in Accounts \X Accounts : e[1] < e[2]}
        /\ book.sticky = [p \in Providers |-> NoStreak]
        /\ book.token \in [Accounts -> {"valid", "none"}]
    OBVIOUS
  <1>2. book \in Books
    <2>1. NoStreak \in [acct : Accounts \cup {Legacy}, uses : 0 .. StickyLimit]
      BY AccountAssumption DEF NoStreak
    <2>2. book.token \in [Accounts -> Tokens]
      BY <1>1 DEF Tokens
    <2>3. book.older \in SUBSET (Accounts \X Accounts)
      BY <1>1
    <2>4. book.sticky \in [Providers -> [acct : Accounts \cup {Legacy}, uses : 0 .. StickyLimit]]
      BY <1>1, <2>1
    <2> QED
      BY <2>2, <2>3, <2>4 DEF Books
  <1>3. ASSUME NEW S \in SUBSET Accounts, S # {}
        PROVE  \E a \in S : \A c \in S \ {a} : <<a, c>> \in book.older
    <2>1. S \in SUBSET Nat
      BY AccountAssumption
    <2>2. PICK a \in S : \A c \in S : a <= c
      BY <1>3, <2>1, Smallest
    <2>3. ASSUME NEW c \in S \ {a} PROVE <<a, c>> \in book.older
      <3>1. a < c
        BY <2>1, <2>2
      <3> QED
        BY <1>1, <3>1
    <2> QED
      BY <2>3
  <1> QED
    BY <1>2, <1>3 DEF AccountsOK, Aligned

LEMMA CredInit ==
  ASSUME Init
  PROVE  CredInv
  <1>1. AccountsOK /\ Aligned(book)
    BY AlignedAtFirst DEF Init
  <1>2. Legacy \in AnyAcct /\ NoBill \in [prov : Providers \cup {"none"}, acct : AnyAcct]
    BY DEF AnyAcct, NoBill
  <1>3. /\ strategy \in Strategies /\ live \in SUBSET Members
        /\ cursor \in 0 .. Cardinality(Members) - 1
        /\ spent \in [Providers -> 0 .. MaxSpent] /\ spill \in [Providers -> 0 .. MaxSpent]
        /\ turn \in Reqs \cup {NoOne} /\ rr \in LastChoices
    <2>1. rr = [member |-> NoMember, list |-> <<>>, saved |-> TRUE] /\ <<>> \in Seq(Nat)
      BY DEF Init
    <2>2. rr \in LastChoices
      BY <2>1 DEF LastChoices
    <2> QED
      BY <2>2, ComboAssumption DEF Init
  <1>4. /\ pc \in [Reqs -> Places] /\ stream \in [Reqs -> BOOLEAN]
        /\ at \in [Reqs -> Nat] /\ switch \in [Reqs -> Nat]
        /\ key \in [Reqs -> AnyAcct]
        /\ bill \in [Reqs -> [prov : Providers \cup {"none"}, acct : AnyAcct]]
    BY <1>2, Names, ComboAssumption DEF Init
  <1>5. cand \in [Reqs -> Seq(Members)] /\ acct \in [Reqs -> [Members -> AnyAcct]]
    BY <1>2 DEF Init
  <1>6. creds \in [Reqs -> [Providers -> Seq(Accounts)]]
    BY DEF Init
  <1>7. tried \in [Reqs -> SUBSET (Members \X AnyAcct)] /\ dry \in [Reqs -> SUBSET Providers]
    BY DEF Init
  <1>8. TypeOK
    BY <1>1, <1>3, <1>4, <1>5, <1>6, <1>7 DEF TypeOK, LastChoices
  <1>9. ASSUME NEW r \in Reqs PROVE Held(r)
    <2>1. /\ pc[r] = "new" /\ switch[r] = 1
          /\ acct[r] = [m \in Members |-> Legacy] /\ creds[r] = [p \in Providers |-> <<>>]
      BY DEF Init
    <2>2. ToSet(<<>>) = {}
      BY DEF ToSet
    <2> QED
      BY <2>1, <2>2 DEF Held, OfProvider
  <1>10. OwnCredentials
    BY DEF Init, OwnCredentials
  <1> QED
    BY <1>1, <1>8, <1>9, <1>10 DEF CredInv

LEMMA MemberIsOne ==
  ASSUME TypeOK, Billing, NEW r \in Reqs, pc[r] = "call"
  PROVE  /\ at[r] \in 1 .. Len(cand[r]) /\ cand[r] \in Seq(Members)
         /\ Member(r) \in Members /\ Via[Member(r)] \in Providers
  <1>1. at[r] \in 1 .. Len(cand[r]) /\ cand[r] \in Seq(Members)
    BY DEF Billing, Progress, TypeOK
  <1>2. cand[r][at[r]] \in Members
    BY <1>1
  <1> QED
    BY <1>1, <1>2, ComboAssumption DEF Member

LEMMA AskedOwn ==
  ASSUME CredInv, Billing, NEW r \in Reqs, pc[r] = "call", Asked(r)
  PROVE  tried' \in [Reqs -> SUBSET (Members \X AnyAcct)] /\ OwnCredentials'
  <1>1. Member(r) \in Members
    BY MemberIsOne DEF CredInv
  <1>2. OfProvider(key[r], Via[Member(r)]) /\ key[r] \in AnyAcct
    BY DEF CredInv, Held, TypeOK
  <1>3. tried \in [Reqs -> SUBSET (Members \X AnyAcct)] /\ OwnCredentials
    BY DEF CredInv, TypeOK
  <1> DEFINE e == <<Member(r), key[r]>>
  <1>4. e \in Members \X AnyAcct /\ OfProvider(e[2], Via[e[1]])
    BY <1>1, <1>2
  <1>5. tried' = [tried EXCEPT ![r] = tried[r] \cup {e}]
    BY DEF Asked
  <1> HIDE DEF e
  <1>6. tried' \in [Reqs -> SUBSET (Members \X AnyAcct)]
    BY <1>3, <1>4, <1>5
  <1>7. ASSUME NEW s \in Reqs, NEW x \in tried'[s] PROVE OfProvider(x[2], Via[x[1]])
    <2>1. x \in tried[s] \/ x = e
      BY <1>3, <1>5
    <2> QED
      BY <1>3, <1>4, <2>1 DEF OwnCredentials
  <1>8. OwnCredentials'
    BY <1>7 DEF OwnCredentials, OfProvider
  <1> QED
    BY <1>6, <1>8

LEMMA ChargeBounded ==
  ASSUME NEW f \in [Providers -> 0 .. MaxSpent], NEW p \in Providers
  PROVE  Charge(f, p) \in [Providers -> 0 .. MaxSpent]
  <1> DEFINE n == IF f[p] < MaxSpent /\ Quota[p] # Unlimited THEN f[p] + 1 ELSE f[p]
  <1>1. f[p] \in 0 .. MaxSpent /\ MaxSpent \in Nat
    BY ComboAssumption
  <1>2. n \in 0 .. MaxSpent
    BY <1>1
  <1>3. Charge(f, p) = [f EXCEPT ![p] = n]
    BY DEF Charge
  <1> HIDE DEF n
  <1> QED
    BY <1>2, <1>3

LEMMA CheapestIn ==
  ASSUME NEW ms, ToSet(ms) \subseteq Members, ToSet(ms) # {}
  PROVE  Cheapest(ms) \in ToSet(ms)
  <1> DEFINE S == ToSet(ms)
             W == {Weight[m] : m \in S}
  <1> HIDE DEF S
  <1>0. S \subseteq Members /\ S # {}
    BY DEF S
  <1>a. S \in SUBSET Nat /\ \A m \in S : Weight[m] \in Nat
    BY <1>0, ComboAssumption
  <1>1. S \in SUBSET Nat /\ W \in SUBSET Nat /\ W # {} /\ \A m \in S : Weight[m] \in Nat
    BY <1>0, <1>a
  <1> HIDE DEF W
  <1>2. PICK w \in W : \A v \in W : w <= v
    BY <1>1, Smallest
  <1> DEFINE T == {m \in S : Weight[m] = w}
  <1>3. T \in SUBSET Nat /\ T # {}
    BY <1>1 DEF W
  <1> HIDE DEF T
  <1>4. PICK m \in T : \A n \in T : m <= n
    BY <1>3, Smallest
  <1>5. m \in S /\ Weight[m] = w
    BY DEF T
  <1>6. ASSUME NEW n \in S
        PROVE  Weight[m] < Weight[n] \/ (Weight[m] = Weight[n] /\ m <= n)
    <2>1. w <= Weight[n] /\ Weight[n] \in Nat /\ w \in Nat
      BY <1>1, <1>2 DEF W
    <2>2. Weight[n] = w => m <= n
      BY <1>4 DEF T
    <2> QED
      BY <1>5, <2>1, <2>2
  <1> QED
    BY <1>5, <1>6 DEF Cheapest, S

LEMMA AttemptsOfMembers ==
  ASSUME live \in SUBSET Members, cursor \in Nat, NEW r, NEW try \in Attempts(r, Pool(r))
  PROVE  /\ try \in Seq(Members) /\ (try # <<>> => try[1] \in Members)
         /\ strategy = "round_robin" /\ Pool(r) # <<>> =>
               try # <<>> /\ Len(Pool(r)) \in 1 .. Cardinality(Members)
  <1> DEFINE ms == Pool(r)
  <1>1. ms \in Seq(Nat) /\ ToSet(ms) \subseteq Members
    BY PoolLists DEF Usable
  <1>2. /\ strategy = "round_robin" => ms = InOrder(Usable(r))
        /\ IsFiniteSet(Usable(r)) /\ Usable(r) \subseteq Nat /\ Usable(r) \subseteq Members
    BY UsableIsFinite DEF Pool
  <1>3. strategy = "round_robin" => Len(ms) <= Cardinality(Members)
    <2>1. Cardinality(Usable(r)) <= Cardinality(Members)
      BY <1>2, ComboAssumption, FS_Subset
    <2>2. Len(InOrder(Usable(r))) = Cardinality(Usable(r))
      BY <1>2, InOrderLists
    <2> QED
      BY <1>2, <2>1, <2>2
  <1>4. Cardinality(Members) \in Nat
    BY ComboAssumption, FS_CardinalityType
  <1>5. /\ try = <<>> /\ ms = <<>>
        \/ /\ ms # <<>>
           /\ \/ strategy = "round_robin" /\ try = <<ms[(cursor % Len(ms)) + 1]>>
              \/ strategy # "round_robin" /\
                 \/ try = <<ms[1]>> \/ try = ms \/ try = <<Cheapest(ms)>>
                 \/ \E m \in ToSet(ms) : try = <<m>>
    BY DEF Attempts
  <1> HIDE DEF ms
  <1>6. ms \in Seq(Members) /\ \A i \in 1 .. Len(ms) : ms[i] \in ToSet(ms)
    BY <1>1 DEF ToSet
  <1>7. CASE ms = <<>>
    BY <1>5, <1>7 DEF ms
  <1>8. CASE ms # <<>>
    <2>1. Len(ms) \in Nat \ {0}
      BY <1>6, <1>8
    <2>2. (cursor % Len(ms)) + 1 \in 1 .. Len(ms) /\ 1 \in 1 .. Len(ms)
      <3>1. cursor % Len(ms) \in 0 .. Len(ms) - 1
        BY <2>1
      <3> QED
        BY <2>1, <3>1
    <2>3. Cheapest(ms) \in Members
      <3>1. ms[1] \in ToSet(ms)
        BY <1>6, <2>2
      <3> QED
        BY <1>1, <3>1, CheapestIn
    <2>4. try = ms \/ \E m \in Members : try = <<m>>
      BY <1>1, <1>5, <1>6, <1>8, <2>2, <2>3
    <2>5. try \in Seq(Members) /\ try # <<>> /\ try[1] \in Members
      <3>1. CASE try = ms
        BY <1>1, <1>6, <1>8, <2>2, <3>1
      <3>2. CASE \E m \in Members : try = <<m>>
        BY <3>2
      <3> QED
        BY <2>4, <3>1, <3>2
    <2>6. strategy = "round_robin" => Len(ms) \in 1 .. Cardinality(Members)
      BY <1>3, <1>4, <2>1
    <2> QED
      BY <2>5, <2>6 DEF ms
  <1> QED
    BY <1>7, <1>8

LEMMA BuildCreds ==
  ASSUME CredInv, Roster, Billing, ReqTypes, NEW r \in Reqs, Build(r)
  PROVE  CredInv'
  <1> USE DEF CredInv
  <1>1. PICK granted \in SUBSET Refreshable :
          LET b  == Built(granted)
              cs == [p \in Providers |->
                        IF stream[r] \/ p \notin Used THEN <<>>
                        ELSE InOrder(Resolvable(b.book, granted, p))]
          IN  \E try \in Attempts(r, Pool(r)) :
                 /\ book' = [b.book EXCEPT !.token =
                                [a \in Accounts |->
                                    IF a \in Refreshable /\ a \in ToSet(cs[Owner[a]])
                                    THEN "valid" ELSE b.book.token[a]]]
                 /\ acct' = [acct EXCEPT ![r] = b.acct]
                 /\ cand' = [cand EXCEPT ![r] = try]
                 /\ creds' = [creds EXCEPT ![r] = cs]
                 /\ pc' = [pc EXCEPT ![r] = IF try = <<>> THEN "failed" ELSE "call"]
                 /\ key' = [key EXCEPT ![r] = IF try = <<>> THEN Legacy ELSE b.acct[try[1]]]
                 /\ IF strategy = "round_robin" /\ Pool(r) # <<>>
                    THEN Rotates(Pool(r), try[1])
                    ELSE UNCHANGED <<cursor, rr>>
    BY DEF Build
  <1> DEFINE b  == Built(granted)
             cs == [p \in Providers |->
                       IF stream[r] \/ p \notin Used THEN <<>>
                       ELSE InOrder(Resolvable(b.book, granted, p))]
             tk == [a \in Accounts |->
                       IF a \in Refreshable /\ a \in ToSet(cs[Owner[a]])
                       THEN "valid" ELSE b.book.token[a]]
  <1>2. PICK try \in Attempts(r, Pool(r)) :
          /\ book' = [b.book EXCEPT !.token = tk]
          /\ acct' = [acct EXCEPT ![r] = b.acct]
          /\ cand' = [cand EXCEPT ![r] = try]
          /\ creds' = [creds EXCEPT ![r] = cs]
          /\ pc' = [pc EXCEPT ![r] = IF try = <<>> THEN "failed" ELSE "call"]
          /\ key' = [key EXCEPT ![r] = IF try = <<>> THEN Legacy ELSE b.acct[try[1]]]
          /\ IF strategy = "round_robin" /\ Pool(r) # <<>>
             THEN Rotates(Pool(r), try[1])
             ELSE UNCHANGED <<cursor, rr>>
    BY <1>1
  <1>3. b \in Goods
    BY BuiltGood DEF TypeOK
  <1>4. ASSUME NEW p \in Providers
        PROVE  cs[p] \in Seq(Accounts) /\ \A a \in ToSet(cs[p]) : OfProvider(a, p)
    <2> DEFINE S == Resolvable(b.book, granted, p)
    <2>1. S \subseteq Accounts /\ \A a \in S : Owner[a] = p
      BY DEF Resolvable, TypeOK, AccountsOK
    <2>2. IsFiniteSet(S) /\ S \subseteq Nat
      BY <2>1, AccountAssumption, FS_Subset
    <2>3. cs[p] = <<>> \/ cs[p] = InOrder(S)
      OBVIOUS
    <2> HIDE DEF S, cs
    <2>4. InOrder(S) \in Seq(S) /\ ToSet(InOrder(S)) = S
      BY <2>2, InOrderLists
    <2>5. ToSet(<<>>) = {}
      BY DEF ToSet
    <2>6. InOrder(S) \in Seq(Accounts)
      BY <2>1, <2>4
    <2>7. \A a \in ToSet(cs[p]) : a \in S
      BY <2>3, <2>4, <2>5
    <2>8. cs[p] \in Seq(Accounts)
      <3>1. <<>> \in Seq(Accounts)
        OBVIOUS
      <3> QED
        BY <2>3, <2>6, <3>1
    <2>9. \A a \in S : OfProvider(a, p)
      BY <2>1 DEF OfProvider
    <2> QED
      BY <2>7, <2>8, <2>9
  <1>5. cs \in [Providers -> Seq(Accounts)]
    BY <1>4
  <1>6. tk \in [Accounts -> Tokens]
    <2>1. b.book.token \in [Accounts -> Tokens]
      BY <1>3 DEF Goods, Books
    <2> QED
      BY <2>1 DEF Tokens
  <1>t. TypeOK /\ cursor \in Nat
    BY DEF TypeOK
  <1>7. /\ try \in Seq(Members) /\ (try # <<>> => try[1] \in Members)
        /\ strategy = "round_robin" /\ Pool(r) # <<>> =>
              try # <<>> /\ Len(Pool(r)) \in 1 .. Cardinality(Members)
    BY <1>t, AttemptsOfMembers DEF TypeOK
  <1>8. /\ pc[r] = "build" /\ dry' = [dry EXCEPT ![r] = {p \in Providers : Drained(p)}]
        /\ turn' = NoOne
        /\ UNCHANGED <<enabled, strategy, live, spent, spill, stream, at, switch, tried, bill>>
    BY DEF Build
  <1> HIDE DEF b, cs, tk
  <1>9. AccountsOK' /\ Aligned(book)'
    <2>1. b.book \in Books /\ Aligned(b.book)
      BY <1>3 DEF Goods
    <2>2. book' \in Books /\ book'.older = b.book.older
      BY <1>2, <1>6, <2>1 DEF Books
    <2>3. Aligned(book')
      BY <2>1, <2>2 DEF Aligned
    <2> QED
      BY <1>8, <1>t, <2>2, <2>3 DEF TypeOK, AccountsOK, Aligned
  <1>10. b.acct \in [Members -> AnyAcct] /\ \A m \in Members : OfProvider(b.acct[m], Via[m])
    BY <1>3 DEF Goods
  <1>11. cursor' \in 0 .. Cardinality(Members) - 1 /\ rr' \in LastChoices
    <2>1. CASE strategy = "round_robin" /\ Pool(r) # <<>>
      <3> DEFINE n == Len(Pool(r))
      <3>1. /\ cursor' = (cursor + 1) % n \/ cursor' = cursor
            /\ n \in 1 .. Cardinality(Members)
        BY <1>2, <1>7, <2>1 DEF NextCursor, Rotates
      <3>4. rr' \in LastChoices
        <4>1. PICK saved \in BOOLEAN : rr' = [member |-> try[1], list |-> Pool(r), saved |-> saved]
          BY <1>2, <2>1 DEF Rotates
        <4>2. Pool(r) \in Seq(Nat)
          BY PoolLists DEF Roster
        <4> QED
          BY <1>7, <2>1, <4>1, <4>2 DEF LastChoices
      <3>2. Cardinality(Members) \in Nat
        BY ComboAssumption, FS_CardinalityType
      <3> HIDE DEF n
      <3>3. (cursor + 1) % n \in 0 .. n - 1
        BY <1>t, <3>1, <3>2
      <3> QED
        BY <1>t, <3>1, <3>2, <3>3, <3>4 DEF TypeOK
    <2>2. CASE ~(strategy = "round_robin" /\ Pool(r) # <<>>)
      BY <1>2, <1>t, <2>2 DEF TypeOK, LastChoices
    <2> QED
      BY <2>1, <2>2
  <1>12. Legacy \in AnyAcct /\ (try # <<>> => b.acct[try[1]] \in AnyAcct)
    BY <1>7, <1>10 DEF AnyAcct
  <1>13. /\ pc' \in [Reqs -> Places] /\ cand' \in [Reqs -> Seq(Members)]
         /\ key' \in [Reqs -> AnyAcct]
    BY <1>2, <1>7, <1>12, <1>t, Names DEF TypeOK
  <1>14. /\ acct' \in [Reqs -> [Members -> AnyAcct]]
         /\ creds' \in [Reqs -> [Providers -> Seq(Accounts)]]
         /\ dry' \in [Reqs -> SUBSET Providers]
    BY <1>2, <1>5, <1>8, <1>10, <1>t DEF TypeOK
  <1>15. TypeOK'
    BY <1>8, <1>9, <1>11, <1>13, <1>14, <1>t DEF TypeOK, LastChoices
  <1>16. ASSUME NEW s \in Reqs PROVE Held(s)'
    <2>1. CASE s = r
      <3>1. acct'[r] = b.acct /\ creds'[r] = cs /\ switch'[r] >= 1
        BY <1>2, <1>8, <1>t DEF Held, TypeOK
      <3>2. pc'[r] = "call" =>
               try # <<>> /\ key'[r] = b.acct[try[1]] /\ Member(r)' = try[1]
        <4>1. pc'[r] = "call" => try # <<>>
          BY <1>2, <1>t DEF TypeOK
        <4>2. at'[r] = 1 /\ cand'[r] = try
          BY <1>2, <1>8, <1>t DEF Billing, Progress, TypeOK
        <4> QED
          BY <1>2, <1>t, <4>1, <4>2 DEF Member, TypeOK
      <3>3. pc'[r] = "call" => OfProvider(key'[r], Via[Member(r)'])
        BY <1>7, <1>10, <3>2
      <3> QED
        BY <1>4, <1>10, <2>1, <3>1, <3>3 DEF Held, OfProvider
    <2>2. CASE s # r
      <3>1. /\ acct'[s] = acct[s] /\ creds'[s] = creds[s] /\ switch'[s] = switch[s]
            /\ pc'[s] = pc[s] /\ key'[s] = key[s] /\ Member(s)' = Member(s)
        BY <1>2, <1>8, <1>t, <2>2 DEF TypeOK, Member
      <3> QED
        BY <3>1 DEF Held, OfProvider
    <2> QED
      BY <2>1, <2>2
  <1>17. OwnCredentials'
    BY <1>8 DEF OwnCredentials, OfProvider
  <1> QED
    BY <1>9, <1>15, <1>16, <1>17

\* A request that keeps its accounts and its place holds what it held.
LEMMA HeldStays ==
  ASSUME NEW s, Held(s), acct'[s] = acct[s], creds'[s] = creds[s], switch'[s] = switch[s],
         pc'[s] = "call" => pc[s] = "call" /\ key'[s] = key[s] /\ Member(s)' = Member(s)
  PROVE  Held(s)'
  BY DEF Held, OfProvider

LEMMA ArriveCreds ==
  ASSUME CredInv, NEW r \in Reqs, Arrive(r)
  PROVE  CredInv'
  <1>1. /\ turn' = r /\ pc' = [pc EXCEPT ![r] = "saver"]
        /\ UNCHANGED <<enabled, book, strategy, live, cursor, spent, spill, stream, cand, acct,
                       creds, at, switch, key, tried, bill, dry, rr>>
    BY DEF Arrive, acctVars
  <1>2. TypeOK'
    BY <1>1, Names DEF CredInv, TypeOK, AccountsOK
  <1>3. \A s \in Reqs : Held(s)'
    <2>1. \A s \in Reqs : pc'[s] = "call" => pc[s] = "call"
      BY <1>1 DEF CredInv, TypeOK
    <2> QED
      BY <1>1, <2>1, HeldStays DEF CredInv, Member
  <1> QED
    BY <1>1, <1>2, <1>3 DEF CredInv, Aligned, OwnCredentials, OfProvider

LEMMA SaverCreds ==
  ASSUME CredInv, NEW r \in Reqs, Saver(r)
  PROVE  CredInv'
  <1>1. PICK granted \in SUBSET Refreshable : book' = Built(granted).book
    BY DEF Saver
  <1>2. /\ pc' = [pc EXCEPT ![r] = "build"]
        /\ UNCHANGED <<enabled, strategy, live, cursor, spent, spill, turn, stream, cand, acct,
                       creds, at, switch, key, tried, bill, dry, rr>>
    BY DEF Saver
  <1>3. Built(granted) \in Goods
    BY BuiltGood DEF CredInv, TypeOK
  <1>4. AccountsOK' /\ Aligned(book)'
    <2>1. book' \in Books /\ Aligned(book')
      BY <1>1, <1>3 DEF Goods
    <2> QED
      BY <1>2, <2>1 DEF CredInv, TypeOK, AccountsOK, Aligned
  <1>5. TypeOK'
    BY <1>2, <1>4, Names DEF CredInv, TypeOK
  <1>6. \A s \in Reqs : Held(s)'
    <2>1. \A s \in Reqs : pc'[s] = "call" => pc[s] = "call"
      BY <1>2 DEF CredInv, TypeOK
    <2> QED
      BY <1>2, <2>1, HeldStays DEF CredInv, Member
  <1> QED
    BY <1>2, <1>4, <1>5, <1>6 DEF CredInv, OwnCredentials, OfProvider

LEMMA AnsweredCreds ==
  ASSUME CredInv, Billing, NEW r \in Reqs, Answered(r)
  PROVE  CredInv'
  <1>1. /\ pc[r] = "call" /\ pc' = [pc EXCEPT ![r] = "done"] /\ Asked(r)
        /\ bill' = [bill EXCEPT ![r] = Billed(r)]
        /\ spent' = Charge(spent, Billed(r).prov)
        /\ spill' \in {spill, Charge(spill, Billed(r).prov)}
        /\ UNCHANGED <<enabled, book, strategy, live, cursor, turn, stream, cand, acct, creds,
                       at, switch, key, dry, rr>>
    BY DEF Answered, acctVars
  <1>2. tried' \in [Reqs -> SUBSET (Members \X AnyAcct)] /\ OwnCredentials'
    BY <1>1, AskedOwn
  <1>3. Member(r) \in Members /\ Via[Member(r)] \in Providers
    BY <1>1, MemberIsOne DEF CredInv
  <1>4. /\ Billed(r) \in [prov : Providers \cup {"none"}, acct : AnyAcct]
        /\ Billed(r).prov \in Providers
    <2>1. acct[r][Member(r)] \in AnyAcct
      BY <1>3 DEF CredInv, TypeOK
    <2> QED
      BY <1>3, <2>1 DEF Billed
  <1>5. spent' \in [Providers -> 0 .. MaxSpent] /\ spill' \in [Providers -> 0 .. MaxSpent]
    <2> DEFINE p == Billed(r).prov
    <2>1. spent' = Charge(spent, p) /\ spill' \in {spill, Charge(spill, p)} /\ p \in Providers
      BY <1>1, <1>4
    <2>2. spent \in [Providers -> 0 .. MaxSpent] /\ spill \in [Providers -> 0 .. MaxSpent]
      BY DEF CredInv, TypeOK
    <2> HIDE DEF p
    <2>3. /\ Charge(spent, p) \in [Providers -> 0 .. MaxSpent]
          /\ Charge(spill, p) \in [Providers -> 0 .. MaxSpent]
      BY <2>1, <2>2, ChargeBounded
    <2> QED
      BY <2>1, <2>2, <2>3
  <1>6. TypeOK'
    BY <1>1, <1>2, <1>4, <1>5, Names DEF CredInv, TypeOK, AccountsOK
  <1>7. \A s \in Reqs : Held(s)'
    <2>1. \A s \in Reqs : pc'[s] = "call" => pc[s] = "call"
      BY <1>1 DEF CredInv, TypeOK
    <2> QED
      BY <1>1, <2>1, HeldStays DEF CredInv, Member
  <1> QED
    BY <1>1, <1>2, <1>6, <1>7 DEF CredInv, Aligned

\* The next account of execute_combo is another one of the member's provider.
LEMMA SwitchCreds ==
  ASSUME CredInv, Billing, NEW r \in Reqs, SwitchAccount(r)
  PROVE  CredInv'
  <1> DEFINE p == Via[Member(r)]
             c == creds[r][p][switch[r] + 1]
  <1>1. /\ pc[r] = "call" /\ CanSwitch(r) /\ Asked(r)
        /\ switch' = [switch EXCEPT ![r] = switch[r] + 1]
        /\ key' = [key EXCEPT ![r] = creds[r][p][switch'[r]]]
        /\ UNCHANGED <<enabled, book, strategy, live, cursor, spent, spill, turn, pc, stream,
                       cand, acct, creds, at, bill, dry, rr>>
    BY DEF SwitchAccount, acctVars
  <1>2. tried' \in [Reqs -> SUBSET (Members \X AnyAcct)] /\ OwnCredentials'
    BY <1>1, AskedOwn
  <1>3. p \in Providers
    BY <1>1, MemberIsOne DEF CredInv
  <1>4. /\ creds[r][p] \in Seq(Accounts) /\ switch[r] \in Nat /\ switch[r] >= 1
        /\ \A a \in ToSet(creds[r][p]) : OfProvider(a, p)
    BY <1>3 DEF CredInv, Held, TypeOK
  <1>5. switch[r] < Len(creds[r][p])
    BY <1>1 DEF CanSwitch
  <1>6. key' = [key EXCEPT ![r] = c] /\ switch'[r] = switch[r] + 1
    BY <1>1 DEF CredInv, TypeOK
  <1>m. Member(r)' = Member(r)
    BY <1>1 DEF Member
  <1> HIDE DEF p
  <1>7. switch[r] + 1 \in 1 .. Len(creds[r][p])
    BY <1>4, <1>5
  <1>8. c \in Accounts /\ c \in ToSet(creds[r][p])
    BY <1>4, <1>7 DEF ToSet
  <1>9. c \in AnyAcct /\ OfProvider(c, p)
    BY <1>4, <1>8 DEF AnyAcct
  <1> HIDE DEF c
  <1>10. switch' \in [Reqs -> Nat] /\ key' \in [Reqs -> AnyAcct]
    <2>1. switch \in [Reqs -> Nat] /\ key \in [Reqs -> AnyAcct] /\ switch[r] + 1 \in Nat
      BY <1>4 DEF CredInv, TypeOK
    <2> QED
      BY <1>1, <1>6, <1>9, <2>1
  <1>11. TypeOK'
    BY <1>1, <1>2, <1>10 DEF CredInv, TypeOK, AccountsOK
  <1>12. ASSUME NEW s \in Reqs PROVE Held(s)'
    <2>1. CASE s = r
      <3>1. key'[r] = c /\ switch'[r] >= 1
        BY <1>4, <1>6 DEF CredInv, TypeOK
      <3>2. OfProvider(key'[r], Via[Member(r)'])
        BY <1>9, <1>m, <3>1 DEF p
      <3>3. Held(r) /\ acct'[r] = acct[r] /\ creds'[r] = creds[r]
        BY <1>1 DEF CredInv
      <3> QED
        BY <2>1, <3>1, <3>2, <3>3 DEF Held, OfProvider
    <2>2. CASE s # r
      <3>1. key'[s] = key[s] /\ switch'[s] = switch[s]
        BY <1>1, <1>6, <2>2 DEF CredInv, TypeOK
      <3> QED
        BY <1>1, <3>1, HeldStays DEF CredInv, Member
    <2> QED
      BY <2>1, <2>2
  <1> QED
    BY <1>1, <1>2, <1>11, <1>12 DEF CredInv, Aligned

LEMMA RefusedCreds ==
  ASSUME CredInv, Billing, NEW r \in Reqs, Refused(r)
  PROVE  CredInv'
  <1>1. /\ pc[r] = "call" /\ Asked(r)
        /\ UNCHANGED <<enabled, book, strategy, live, cursor, spent, spill, turn, stream, cand,
                       acct, creds, bill, dry, rr>>
    BY DEF Refused, acctVars
  <1>2. \/ /\ HasNext(r) /\ pc' = pc /\ at' = [at EXCEPT ![r] = at[r] + 1]
           /\ switch' = [switch EXCEPT ![r] = 1]
           /\ key' = [key EXCEPT ![r] = acct[r][cand[r][at[r] + 1]]]
        \/ pc' = [pc EXCEPT ![r] = "failed"] /\ UNCHANGED <<at, switch, key>>
    BY DEF Refused, NextAt
  <1>3. tried' \in [Reqs -> SUBSET (Members \X AnyAcct)] /\ OwnCredentials'
    BY <1>1, AskedOwn
  <1>4. at[r] \in 1 .. Len(cand[r]) /\ cand[r] \in Seq(Members)
    BY <1>1, MemberIsOne DEF CredInv
  <1>5. CASE /\ HasNext(r) /\ pc' = pc /\ at' = [at EXCEPT ![r] = at[r] + 1]
             /\ switch' = [switch EXCEPT ![r] = 1]
             /\ key' = [key EXCEPT ![r] = acct[r][cand[r][at[r] + 1]]]
    <2> DEFINE m == cand[r][at[r] + 1]
               a == acct[r][m]
    <2>1. m \in Members
      <3>1. at[r] + 1 \in 1 .. Len(cand[r])
        BY <1>4, <1>5 DEF HasNext
      <3> QED
        BY <1>4, <3>1
    <2>m. Member(r)' = m
      BY <1>1, <1>5 DEF CredInv, TypeOK, Member
    <2>2. a \in AnyAcct /\ OfProvider(a, Via[m])
      BY <2>1 DEF CredInv, Held, TypeOK
    <2>3. key' = [key EXCEPT ![r] = a]
      BY <1>5
    <2> HIDE DEF a, m
    <2>4. /\ at' \in [Reqs -> Nat] /\ switch' \in [Reqs -> Nat] /\ key' \in [Reqs -> AnyAcct]
      BY <1>5, <2>2, <2>3 DEF CredInv, TypeOK
    <2>5. TypeOK'
      BY <1>1, <1>3, <1>5, <2>4 DEF CredInv, TypeOK, AccountsOK
    <2>6. ASSUME NEW s \in Reqs PROVE Held(s)'
      <3>1. CASE s = r
        <4>1. key'[r] = a /\ switch'[r] >= 1
          BY <1>5, <2>3 DEF CredInv, TypeOK
        <4>2. OfProvider(key'[r], Via[Member(r)'])
          BY <2>2, <2>m, <4>1
        <4>3. Held(r) /\ acct'[r] = acct[r] /\ creds'[r] = creds[r]
          BY <1>1 DEF CredInv
        <4> QED
          BY <3>1, <4>1, <4>2, <4>3 DEF Held, OfProvider
      <3>2. CASE s # r
        <4>1. key'[s] = key[s] /\ switch'[s] = switch[s] /\ at'[s] = at[s]
          BY <1>5, <2>3, <3>2 DEF CredInv, TypeOK
        <4> QED
          BY <1>1, <1>5, <4>1, HeldStays DEF CredInv, Member
      <3> QED
        BY <3>1, <3>2
    <2> QED
      BY <1>1, <1>3, <2>5, <2>6 DEF CredInv, Aligned
  <1>6. CASE pc' = [pc EXCEPT ![r] = "failed"] /\ UNCHANGED <<at, switch, key>>
    <2>1. TypeOK'
      BY <1>1, <1>3, <1>6, Names DEF CredInv, TypeOK, AccountsOK
    <2>2. \A s \in Reqs : Held(s)'
      <3>1. \A s \in Reqs : pc'[s] = "call" => pc[s] = "call"
        BY <1>6 DEF CredInv, TypeOK
      <3> QED
        BY <1>1, <1>6, <3>1, HeldStays DEF CredInv, Member
    <2> QED
      BY <1>1, <1>3, <2>1, <2>2 DEF CredInv, Aligned
  <1> QED
    BY <1>2, <1>5, <1>6

LEMMA CutCreds ==
  ASSUME CredInv, Billing, NEW r \in Reqs, StreamCut(r)
  PROVE  CredInv'
  <1>1. /\ pc[r] = "call" /\ pc' = [pc EXCEPT ![r] = "cut"] /\ Asked(r)
        /\ UNCHANGED <<enabled, book, strategy, live, cursor, spent, spill, turn, stream, cand,
                       acct, creds, at, switch, key, bill, dry, rr>>
    BY DEF StreamCut, acctVars
  <1>2. tried' \in [Reqs -> SUBSET (Members \X AnyAcct)] /\ OwnCredentials'
    BY <1>1, AskedOwn
  <1>3. TypeOK'
    BY <1>1, <1>2, Names DEF CredInv, TypeOK, AccountsOK
  <1>4. \A s \in Reqs : Held(s)'
    <2>1. \A s \in Reqs : pc'[s] = "call" => pc[s] = "call"
      BY <1>1 DEF CredInv, TypeOK
    <2> QED
      BY <1>1, <2>1, HeldStays DEF CredInv, Member
  <1> QED
    BY <1>1, <1>2, <1>3, <1>4 DEF CredInv, Aligned

LEMMA BreakCreds ==
  ASSUME CredInv, Billing, NEW r \in Reqs, Breaks(r)
  PROVE  CredInv'
  <1>1. /\ pc[r] = "call" /\ pc' = [pc EXCEPT ![r] = "broken"] /\ (Asked(r) \/ UNCHANGED tried)
        /\ UNCHANGED <<enabled, book, strategy, live, cursor, spent, spill, turn, stream, cand,
                       acct, creds, at, switch, key, bill, dry, rr>>
    BY DEF Breaks, acctVars
  <1>2. tried' \in [Reqs -> SUBSET (Members \X AnyAcct)] /\ OwnCredentials'
    <2>1. CASE Asked(r)
      BY <1>1, <2>1, AskedOwn
    <2>2. CASE UNCHANGED tried
      BY <2>2 DEF CredInv, TypeOK, OwnCredentials, OfProvider
    <2> QED
      BY <1>1, <2>1, <2>2
  <1>3. TypeOK'
    BY <1>1, <1>2, Names DEF CredInv, TypeOK, AccountsOK
  <1>4. \A s \in Reqs : Held(s)'
    <2>1. \A s \in Reqs : pc'[s] = "call" => pc[s] = "call"
      BY <1>1 DEF CredInv, TypeOK
    <2> QED
      BY <1>1, <2>1, HeldStays DEF CredInv, Member
  <1> QED
    BY <1>1, <1>2, <1>3, <1>4 DEF CredInv, Aligned

\* PUT /api/accounts/{id} and the passing of expires_at leave the order of use alone.
LEMMA EditKeepsForm ==
  ASSUME AccountsOK, NEW a \in Accounts, Edit(a) \/ Expires(a)
  PROVE  AccountsOK' /\ book'.older = book.older
  <1> USE DEF AccountsOK, Books
  <1>1. CASE enabled' \in {enabled \ {a}, enabled \cup {a}} /\ book' = book
    BY <1>1
  <1>2. ASSUME NEW t \in Tokens, book' = [book EXCEPT !.token[a] = t], enabled' = enabled
        PROVE  AccountsOK' /\ book'.older = book.older
    <2>1. [book.token EXCEPT ![a] = t] \in [Accounts -> Tokens]
      OBVIOUS
    <2>2. book' = [book EXCEPT !.token = [book.token EXCEPT ![a] = t]]
      BY <1>2
    <2> QED
      BY <1>2, <2>1, <2>2
  <1> QED
    BY <1>1, <1>2 DEF Edit, Expires, Tokens

LEMMA SettingsCreds ==
  ASSUME CredInv, Settings
  PROVE  CredInv'
  <1>1. reqVars' = reqVars /\ UNCHANGED <<strategy, cursor, turn>>
    BY DEF Settings, EditAccount, ToggleMember, NewWindow
  <1>2. /\ UNCHANGED <<pc, stream, cand, acct, creds, at, switch, key, tried, bill, dry>>
        /\ UNCHANGED <<strategy, cursor, turn>>
    BY <1>1 DEF reqVars
  <1>3. AccountsOK' /\ Aligned(book)'
    <2>1. CASE UNCHANGED acctVars
      BY <2>1 DEF acctVars, CredInv, TypeOK, AccountsOK, Aligned
    <2>2. ASSUME NEW a \in EditedAccounts, EditAccount(a) PROVE AccountsOK' /\ Aligned(book)'
      <3>1. AccountsOK' /\ book'.older = book.older
        BY <2>2, EditKeepsForm, ComboAssumption DEF EditAccount, CredInv, TypeOK
      <3> QED
        BY <3>1 DEF CredInv, Aligned
    <2> QED
      BY <2>1, <2>2 DEF Settings, ToggleMember, NewWindow
  <1>4. /\ live' \in SUBSET Members /\ rr' \in LastChoices
        /\ spent' \in [Providers -> 0 .. MaxSpent] /\ spill' \in [Providers -> 0 .. MaxSpent]
    <2>1. ASSUME NEW a, EditAccount(a) PROVE UNCHANGED <<live, rr, spent, spill>>
      BY <2>1 DEF EditAccount
    <2>2. ASSUME NEW m \in EditedMembers, ToggleMember(m)
          PROVE  /\ live' \in SUBSET Members /\ rr' \in LastChoices
                 /\ UNCHANGED <<spent, spill>>
      BY <2>2, ComboAssumption DEF ToggleMember, CredInv, TypeOK, LastChoices
    <2>3. ASSUME NEW p \in Providers, NewWindow(p)
          PROVE  /\ spent' \in [Providers -> 0 .. MaxSpent] /\ spill' \in [Providers -> 0 .. MaxSpent]
                 /\ UNCHANGED <<live, rr>>
      <3>1. 0 \in 0 .. MaxSpent
        BY ComboAssumption
      <3> QED
        BY <2>3, <3>1 DEF NewWindow, CredInv, TypeOK
    <2> QED
      BY <2>1, <2>2, <2>3 DEF Settings, CredInv, TypeOK, LastChoices
  <1>5. TypeOK'
    BY <1>2, <1>3, <1>4 DEF CredInv, TypeOK, LastChoices
  <1>6. \A s \in Reqs : Held(s)'
    BY <1>2, HeldStays DEF CredInv, Member
  <1> QED
    BY <1>2, <1>3, <1>5, <1>6 DEF CredInv, OwnCredentials, OfProvider

LEMMA CredStep ==
  ASSUME ReqTypes, Roster, Billing, CredInv, [Next]_vars
  PROVE  CredInv'
  <1>1. CASE UNCHANGED vars
    <2>1. UNCHANGED <<enabled, book, strategy, live, cursor, spent, spill, turn, pc, stream, cand,
                      acct, creds, at, switch, key, tried, bill, dry, rr>>
      BY <1>1 DEF vars, acctVars, reqVars
    <2>2. TypeOK'
      BY <2>1 DEF CredInv, TypeOK, AccountsOK
    <2>3. \A s \in Reqs : Held(s)'
      BY <2>1, HeldStays DEF CredInv, Member
    <2> QED
      BY <2>1, <2>2, <2>3 DEF CredInv, Aligned, OwnCredentials, OfProvider
  <1> QED
    BY <1>1, ArriveCreds, SaverCreds, BuildCreds, AnsweredCreds, SwitchCreds, RefusedCreds,
       CutCreds, BreakCreds, SettingsCreds DEF Next, Handler

LEMMA AlwaysOwn == Spec => []CredInv
  <1>1. Init => CredInv
    BY CredInit
  <1>2. ReqTypes /\ Roster /\ Billing /\ CredInv /\ [Next]_vars => CredInv'
    BY CredStep
  <1> QED
    BY <1>1, <1>2, AlwaysBilling, PTL DEF Spec

\* A combo member is never asked with the credential of another provider's account, for
\* any number of requests and accounts: neither the choice that build_candidates makes
\* for a member, nor account_creds and the switches of execute_combo, nor settings that
\* change meanwhile put one into target.api_key.
THEOREM CredentialsAreOwn == Spec => []OwnCredentials
  <1>1. CredInv => OwnCredentials
    BY DEF CredInv
  <1> QED
    BY <1>1, AlwaysOwn, PTL

\* The variables of ComboRouting keep their types; in particular the cursor of a combo
\* (last_used_index) stays below the number of its members, and a quota window within
\* its bound.
THEOREM RoutingTyped == Spec => []TypeOK
  <1>1. CredInv => TypeOK
    BY DEF CredInv
  <1> QED
    BY <1>1, AlwaysOwn, PTL
=============================================================================
