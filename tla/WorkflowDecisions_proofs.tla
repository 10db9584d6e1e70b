----------------------- MODULE WorkflowDecisions_proofs -----------------------
(* Proofs about what the workflow decides: the arithmetic of its epoch cron, for *)
(* every word size and any precisions (EpochAccounting), and the choices of its  *)
(* rebalance cron, for any configurations, catalogues of the relay and rates     *)
(* (PoolSelection).                                                              *)
EXTENDS EpochAccounting, PoolSelection, SumsAndQuotients

----------------------------------------------------------------------------
(* The epoch cron. *)

\* An amount that fits a word is a natural number.
LEMMA WordNat == \A v : Uint256(v) => v \in Nat
BY DEF Uint256, Word

\* The two closings agree on any queue: the workflow's conditions, tested on
\* unbounded integers, are those under which the contract neither refuses nor
\* leaves the word.
LEMMA ClosingsAgree ==
    ASSUME NEW deposit \in Nat, NEW burn \in Nat, NEW shares \in Nat, NEW value \in Nat,
           NEW local \in BOOLEAN
    PROVE  calculateEpochClose(deposit, burn, shares, value, local)
             = ContractCloses(deposit, burn, shares, value, local)
<1> DEFINE price == MulDivDown(value, SharePrecision, shares)
           withdraw == TotalWithdraw(burn, value, shares)
           newShares == NewShares(deposit, value, shares)
           go == /\ deposit # 0 \/ burn # 0
                 /\ IF shares # 0
                    THEN value # 0 /\ price # 0 /\ Uint256(price) /\ Uint256(withdraw)
                    ELSE burn = 0
                 /\ Uint256(newShares) /\ Int256(deposit) /\ Int256(withdraw)
                 /\ deposit # 0 => /\ Uint256(newShares * AssetPrecision)
                                   /\ newShares * AssetPrecision >= deposit
                 /\ ~local /\ withdraw > deposit => withdraw - deposit >= AssetPrecision
                 /\ Uint256(shares + newShares)
                 /\ shares + newShares >= burn
           contract == /\ SettlementAllowed(deposit, burn, value, shares, local)
                       /\ CloseFitsWord(deposit, burn, shares, value)
           result == [ok |-> TRUE, withdraw |-> withdraw, newShares |-> newShares,
                      totalShares |-> shares + newShares - burn]
<1>1. calculateEpochClose(deposit, burn, shares, value, local)
        = IF go THEN result ELSE Refused
  BY DEF calculateEpochClose, TotalWithdraw, NewShares
<1>2. ContractCloses(deposit, burn, shares, value, local)
        = IF contract THEN result ELSE Refused
  BY DEF ContractCloses
<1>3. (shares + newShares >= burn) = (burn <= shares + newShares)
  OBVIOUS
<1>4. go <=> contract
  BY <1>3, MinimumAssumption, Zenon DEF SettlementAllowed, CloseFitsWord
<1> HIDE DEF go, contract, result
<1> QED
  BY <1>1, <1>2, <1>4

\* The two reconciliations agree on any executing deposit and any amount.
LEMMA ReconciliationsAgree ==
    ASSUME NEW e, e.deposit \in Nat, e.withdrawClaim \in Nat,
           NEW shares, NEW actual \in Nat
    PROVE  reconcileEpochDeposit(e, shares, actual) = ContractReconciles(e, shares, actual)
<1> DEFINE expected == e.deposit - e.withdrawClaim
           adjusted == MulDivDown(e.mint, e.deposit - (expected - actual), e.deposit)
           enough == adjusted # 0 /\ e.mint - adjusted <= shares
           go == /\ e.deposit > e.withdrawClaim
                 /\ actual \in 1..expected
                 /\ actual < expected => enough
           refused == e.deposit <= e.withdrawClaim \/ actual = 0 \/ actual > expected
<1>1. reconcileEpochDeposit(e, shares, actual)
        = IF go THEN [ok |-> TRUE, mint |-> IF actual = expected THEN e.mint ELSE adjusted]
                ELSE Refused
  BY DEF reconcileEpochDeposit
<1>2. ContractReconciles(e, shares, actual)
        = IF refused THEN Refused
          ELSE IF actual = expected THEN [ok |-> TRUE, mint |-> e.mint]
          ELSE IF enough THEN [ok |-> TRUE, mint |-> adjusted] ELSE Refused
  BY DEF ContractReconciles, AdjustedShares
<1> HIDE DEF adjusted, enough
<1>3. CASE refused
  <2>1. ~go
    BY <1>3
  <2> HIDE DEF go, refused
  <2> QED
    BY <1>1, <1>2, <1>3, <2>1
<1>4. CASE ~refused /\ actual = expected
  <2>1. go
    BY <1>4
  <2> HIDE DEF go, refused
  <2> QED
    BY <1>1, <1>2, <1>4, <2>1
<1>5. CASE ~refused /\ actual # expected
  <2>1. go <=> enough
    BY <1>5
  <2> HIDE DEF go, refused
  <2> QED
    BY <1>1, <1>2, <1>5, <2>1
<1> QED
  BY <1>3, <1>4, <1>5

----------------------------------------------------------------------------
(* The inductive invariant. *)

\* Amounts are natural numbers as long as something is computed from them: the
\* queue until it is closed, and the closed epoch while its deposit is away.
AccountingInv ==
    /\ status = "open" =>
         /\ queue.deposit \in Nat /\ queue.burn \in Nat
         /\ totalShares \in Nat /\ tvl \in Nat /\ isLocal \in BOOLEAN
    /\ status = "executing" =>
         closed.deposit \in Nat /\ closed.withdrawClaim \in Nat

\* Initially every amount is in a word.
LEMMA AccountingInitially == AccountingInit => AccountingInv
<1> SUFFICES ASSUME AccountingInit PROVE AccountingInv
  OBVIOUS
<1>1. \A v \in Word : v \in Nat
  BY DEF Word
<1>2. isLocal \in BOOLEAN
  BY DEF AccountingInit
<1>3. /\ queue.deposit \in Nat /\ queue.burn \in Nat /\ totalShares \in Nat /\ tvl \in Nat
      /\ status = "open"
  BY <1>1 DEF AccountingInit
<1> QED
  BY <1>2, <1>3 DEF AccountingInv

\* What the contract takes a closed epoch to owe fits a word.
LEMMA AccountingStep == AccountingInv /\ [AccountingNext]_accountingVars => AccountingInv'
<1> SUFFICES ASSUME AccountingInv, [AccountingNext]_accountingVars PROVE AccountingInv'
  OBVIOUS
<1>1. CASE CronCloses
  <2> DEFINE withdraw == TotalWithdraw(queue.burn, tvl, totalShares)
  <2>1. /\ status = "open" /\ queue.deposit \in Nat
        /\ ContractCloses(queue.deposit, queue.burn, totalShares, tvl, isLocal).ok
    BY <1>1 DEF CronCloses, AccountingInv
  <2>2. /\ CloseFitsWord(queue.deposit, queue.burn, totalShares, tvl)
        /\ ContractCloses(queue.deposit, queue.burn, totalShares, tvl, isLocal).withdraw
             = withdraw
    BY <2>1 DEF ContractCloses, Refused
  <2>3. withdraw \in Nat
    <3>1. CASE totalShares = 0
      BY <3>1 DEF TotalWithdraw
    <3>2. CASE totalShares # 0
      BY <2>2, <3>2, WordNat DEF CloseFitsWord
    <3> QED
      BY <3>1, <3>2
  <2>4. /\ closed'.deposit = queue.deposit /\ closed'.withdrawClaim = withdraw
    BY <1>1, <2>2 DEF CronCloses
  <2>5. status' # "open"
    BY <1>1 DEF CronCloses
  <2> QED
    BY <2>1, <2>3, <2>4, <2>5 DEF AccountingInv
<1>2. ASSUME NEW actual \in Word, LogCompletes(actual)
      PROVE  AccountingInv'
  BY <1>2 DEF LogCompletes, AccountingInv
<1>3. CASE UNCHANGED accountingVars
  BY <1>3 DEF accountingVars, AccountingInv
<1> QED
  BY <1>1, <1>2, <1>3 DEF AccountingNext

\* The invariant holds throughout.
LEMMA AccountingInvAlways == AccountingSpec => []AccountingInv
BY AccountingInitially, AccountingStep, PTL DEF AccountingSpec

----------------------------------------------------------------------------
(* Theorems. *)

\* On words of any size the workflow closes exactly the epochs the contract would
\* close, with the same amounts.
THEOREM ClosesAreMirrored == AccountingSpec => []CloseMirrorsContract
<1>1. ASSUME AccountingInv
      PROVE  CloseMirrorsContract
  <2> SUFFICES ASSUME status = "open"
               PROVE  calculateEpochClose(queue.deposit, queue.burn, totalShares, tvl, isLocal)
                        = ContractCloses(queue.deposit, queue.burn, totalShares, tvl, isLocal)
    BY DEF CloseMirrorsContract
  <2>1. /\ queue.deposit \in Nat /\ queue.burn \in Nat
        /\ totalShares \in Nat /\ tvl \in Nat
    BY <1>1 DEF AccountingInv
  <2>2. isLocal \in BOOLEAN
    BY <1>1 DEF AccountingInv
  <2>3. PICK deposit \in Nat, burn \in Nat, shares \in Nat, value \in Nat :
          deposit = queue.deposit /\ burn = queue.burn /\ shares = totalShares /\ value = tvl
    BY <2>1
  <2>4. PICK here \in BOOLEAN : here = isLocal
    BY <2>2
  <2>5. calculateEpochClose(deposit, burn, shares, value, here)
          = ContractCloses(deposit, burn, shares, value, here)
    BY ClosingsAgree
  <2> QED
    BY <2>3, <2>4, <2>5, Zenon
<1> QED
  BY <1>1, AccountingInvAlways, PTL

\* So it does for a deposit that arrives short, whatever arrives of it.
THEOREM ReconciliationsAreMirrored == AccountingSpec => []ReconcileMirrorsContract
<1>1. ASSUME AccountingInv
      PROVE  ReconcileMirrorsContract
  <2> SUFFICES ASSUME status = "executing", NEW actual \in Word
               PROVE  reconcileEpochDeposit(closed, totalShares, actual)
                        = ContractReconciles(closed, totalShares, actual)
    BY DEF ReconcileMirrorsContract
  <2>1. closed.deposit \in Nat /\ closed.withdrawClaim \in Nat
    BY <1>1 DEF AccountingInv
  <2>2. actual \in Nat
    BY DEF Word
  <2> QED
    BY <2>1, <2>2, ReconciliationsAgree
<1> QED
  BY <1>1, AccountingInvAlways, PTL

----------------------------------------------------------------------------
(* The order of the pools. *)

\* A strict total order on a nonempty finite set has a first element.
LEMMA FirstExists ==
    ASSUME NEW S, IsFiniteSet(S), S # {}, NEW R,
           \A a \in S : <<a, a>> \notin R,
           \A a, b \in S : a = b \/ <<a, b>> \in R \/ <<b, a>> \in R,
           \A a, b, c \in S : <<a, b>> \in R /\ <<b, c>> \in R => <<a, c>> \in R
    PROVE  \E a \in S : \A b \in S : <<b, a>> \notin R
<1> DEFINE Bad == {T \in SUBSET S : T # {} /\ ~(\E a \in T : \A b \in T : <<b, a>> \notin R)}
<1>1. SUFFICES ASSUME Bad # {} PROVE FALSE
  <2>1. S \notin Bad
    BY <1>1
  <2> QED
    BY <2>1
<1>2. PICK T \in Bad : \A U \in Bad : U \subseteq T => U = T
  <2>1. Bad \in SUBSET (SUBSET S)
    OBVIOUS
  <2> HIDE DEF Bad
  <2> QED
    BY <1>1, <2>1, MinimalSubset
<1>3. /\ T \subseteq S /\ T # {}
      /\ ~(\E a \in T : \A b \in T : <<b, a>> \notin R)
  BY <1>2
<1>4. PICK t \in T : TRUE
  BY <1>3
<1>5. T \ {t} \notin Bad
  <2>1. T \ {t} \subseteq T /\ T \ {t} # T
    BY <1>4
  <2> HIDE DEF Bad
  <2> QED
    BY <1>2, <2>1
<1>6. PICK u \in T \ {t} : \A b \in T \ {t} : <<b, u>> \notin R
  <2>1. T \ {t} # {}
    BY <1>3, <1>4
  <2> QED
    BY <1>3, <1>5, <2>1
<1>7. CASE <<t, u>> \in R
  <2>1. \A b \in T : <<b, t>> \notin R
    <3> TAKE b \in T
    <3>1. CASE b = t
      BY <1>3, <3>1
    <3>2. CASE b # t
      BY <1>3, <1>6, <1>7, <3>2
    <3> QED
      BY <3>1, <3>2
  <2> QED
    BY <1>3, <1>4, <2>1
<1>8. CASE <<t, u>> \notin R
  BY <1>3, <1>6, <1>8
<1> QED
  BY <1>7, <1>8

\* The keys the pools are sorted by.
Keyed(p) ==
    /\ p.apy \in MinPoolApy..MaxPoolApy
    /\ p.chain.canonical \in Nat /\ p.project.canonical \in Nat
    /\ p.symbol.canonical \in Nat /\ p.pool.canonical \in Nat

\* The order written out.
LEMMA PrecedesUnfolds ==
    ASSUME NEW p, NEW q
    PROVE  Precedes(p, q) <=>
             LET P == SortKey(p)
                 Q == SortKey(q)
             IN  \/ P[1] < Q[1]
                 \/ P[1] = Q[1] /\ P[2] < Q[2]
                 \/ P[1] = Q[1] /\ P[2] = Q[2] /\ P[3] < Q[3]
                 \/ P[1] = Q[1] /\ P[2] = Q[2] /\ P[3] = Q[3] /\ P[4] < Q[4]
                 \/ /\ P[1] = Q[1] /\ P[2] = Q[2] /\ P[3] = Q[3] /\ P[4] = Q[4]
                    /\ P[5] < Q[5]
<1> DEFINE P == SortKey(p)
           Q == SortKey(q)
           At(k) == P[k] < Q[k] /\ \A j \in 1..(k - 1) : P[j] = Q[j]
<1> HIDE DEF P, Q
<1>1. Precedes(p, q) <=> \E k \in 1..5 : At(k)
  BY DEF Precedes, P, Q
<1>2. /\ 1..(1 - 1) = {} /\ 1..(2 - 1) = {1} /\ 1..(3 - 1) = {1, 2}
      /\ 1..(4 - 1) = {1, 2, 3} /\ 1..(5 - 1) = {1, 2, 3, 4}
      /\ 1..5 = {1, 2, 3, 4, 5}
  OBVIOUS
<1>3. /\ At(1) <=> P[1] < Q[1]
      /\ At(2) <=> (P[1] = Q[1] /\ P[2] < Q[2])
      /\ At(3) <=> (P[1] = Q[1] /\ P[2] = Q[2] /\ P[3] < Q[3])
      /\ At(4) <=> (P[1] = Q[1] /\ P[2] = Q[2] /\ P[3] = Q[3] /\ P[4] < Q[4])
      /\ At(5) <=> (P[1] = Q[1] /\ P[2] = Q[2] /\ P[3] = Q[3] /\ P[4] = Q[4] /\ P[5] < Q[5])
  BY <1>2
<1>4. (\E k \in 1..5 : At(k)) <=> (At(1) \/ At(2) \/ At(3) \/ At(4) \/ At(5))
  <2> HIDE DEF At
  <2> QED
    BY <1>2
<1> HIDE DEF At
<1>5. Precedes(p, q) <=> (At(1) \/ At(2) \/ At(3) \/ At(4) \/ At(5))
  BY <1>1, <1>4
<1> QED
  BY <1>3, <1>5 DEF P, Q

\* The order in numbers.
LEMMA PrecedesByKeys ==
    ASSUME NEW p, NEW q, Keyed(p), Keyed(q)
    PROVE  Precedes(p, q) <=>
             \/ p.apy > q.apy
             \/ p.apy = q.apy /\ p.chain.canonical < q.chain.canonical
             \/ /\ p.apy = q.apy /\ p.chain.canonical = q.chain.canonical
                /\ p.project.canonical < q.project.canonical
             \/ /\ p.apy = q.apy /\ p.chain.canonical = q.chain.canonical
                /\ p.project.canonical = q.project.canonical
                /\ p.symbol.canonical < q.symbol.canonical
             \/ /\ p.apy = q.apy /\ p.chain.canonical = q.chain.canonical
                /\ p.project.canonical = q.project.canonical
                /\ p.symbol.canonical = q.symbol.canonical
                /\ p.pool.canonical < q.pool.canonical
<1>1. /\ SortKey(p)[1] = MaxPoolApy - p.apy /\ SortKey(q)[1] = MaxPoolApy - q.apy
      /\ SortKey(p)[2] = p.chain.canonical /\ SortKey(q)[2] = q.chain.canonical
      /\ SortKey(p)[3] = p.project.canonical /\ SortKey(q)[3] = q.project.canonical
      /\ SortKey(p)[4] = p.symbol.canonical /\ SortKey(q)[4] = q.symbol.canonical
      /\ SortKey(p)[5] = p.pool.canonical /\ SortKey(q)[5] = q.pool.canonical
  BY DEF SortKey
<1>2. PICK m \in Nat, a \in Nat, b \in Nat :
        m = MaxPoolApy /\ a = p.apy /\ b = q.apy /\ a <= m /\ b <= m
  BY PolicyAssumption DEF Keyed
<1>3. /\ MaxPoolApy - p.apy < MaxPoolApy - q.apy <=> p.apy > q.apy
      /\ MaxPoolApy - p.apy = MaxPoolApy - q.apy <=> p.apy = q.apy
  BY <1>2
<1> QED
  BY <1>1, <1>3, PrecedesUnfolds

\* It is a strict weak order.
LEMMA PrecedesIrreflexive ==
    ASSUME NEW p, Keyed(p)
    PROVE  ~Precedes(p, p)
<1>1. /\ ~(p.apy > p.apy) /\ ~(p.chain.canonical < p.chain.canonical)
      /\ ~(p.project.canonical < p.project.canonical)
      /\ ~(p.symbol.canonical < p.symbol.canonical)
      /\ ~(p.pool.canonical < p.pool.canonical)
  BY PolicyAssumption DEF Keyed
<1> QED
  BY <1>1, PrecedesByKeys

\* Two pools neither of which comes first have the same key.
LEMMA TiesHaveEqualKeys ==
    ASSUME NEW p, NEW q, Keyed(p), Keyed(q), ~Precedes(p, q), ~Precedes(q, p)
    PROVE  /\ p.apy = q.apy /\ p.chain.canonical = q.chain.canonical
           /\ p.project.canonical = q.project.canonical
           /\ p.symbol.canonical = q.symbol.canonical
           /\ p.pool.canonical = q.pool.canonical
<1>1. PICK a \in Nat, b \in Nat : a = p.apy /\ b = q.apy
  BY PolicyAssumption DEF Keyed
<1> QED
  BY <1>1, PrecedesByKeys DEF Keyed

\* Two pools cannot each come before the other ...
LEMMA PrecedesAsymmetric ==
    ASSUME NEW p, NEW q, Keyed(p), Keyed(q), Precedes(p, q)
    PROVE  ~Precedes(q, p)
<1>1. PICK a \in Nat, b \in Nat : a = p.apy /\ b = q.apy
  BY PolicyAssumption DEF Keyed
<1> QED
  BY <1>1, PrecedesByKeys DEF Keyed

\* ... ties compose ...
LEMMA TiesCompose ==
    ASSUME NEW p, NEW q, NEW r, Keyed(p), Keyed(q), Keyed(r),
           ~Precedes(q, p), ~Precedes(r, q)
    PROVE  ~Precedes(r, p)
<1>1. PICK a \in Nat, b \in Nat, c \in Nat : a = p.apy /\ b = q.apy /\ c = r.apy
  BY PolicyAssumption DEF Keyed
<1> QED
  BY <1>1, PrecedesByKeys DEF Keyed

\* ... and so does coming before, with a tie or without.
LEMMA PrecedesTransitive ==
    ASSUME NEW p, NEW q, NEW r, Keyed(p), Keyed(q), Keyed(r),
           ~Precedes(q, p), ~Precedes(r, q), Precedes(p, q) \/ Precedes(q, r)
    PROVE  Precedes(p, r) /\ ~Precedes(r, p)
<1>1. PICK a \in Nat, b \in Nat, c \in Nat : a = p.apy /\ b = q.apy /\ c = r.apy
  BY PolicyAssumption DEF Keyed
<1> QED
  BY <1>1, PrecedesByKeys DEF Keyed

----------------------------------------------------------------------------
(* The head of the sorted list. *)

\* A list of pools with keys, at finitely many places.
Sortable(list) ==
    /\ IsFiniteSet(DOMAIN list) /\ DOMAIN list \subseteq Nat
    /\ \A i \in DOMAIN list : Keyed(list[i])

\* A nonempty list has a head: the first pool, and among ties the first place.
LEMMA HeadExists ==
    ASSUME NEW list, Sortable(list), DOMAIN list # {}
    PROVE  \E i \in DOMAIN list : IsFirst(list, i)
<1> DEFINE S == DOMAIN list
           Before(i, j) == \/ Precedes(list[i], list[j])
                           \/ ~Precedes(list[j], list[i]) /\ i < j
           R == {e \in S \X S : Before(e[1], e[2])}
<1>0. IsFiniteSet(S) /\ S \subseteq Nat /\ \A i \in S : Keyed(list[i])
  BY DEF Sortable
<1>1. \A a, b \in S : <<a, b>> \in R <=> Before(a, b)
  OBVIOUS
<1>2. \A a \in S : <<a, a>> \notin R
  <2> TAKE a \in S
  <2>1. ~Precedes(list[a], list[a]) /\ ~(a < a)
    BY <1>0, PrecedesIrreflexive
  <2> QED
    BY <1>1, <2>1
<1>3. \A a, b \in S : a = b \/ <<a, b>> \in R \/ <<b, a>> \in R
  <2> TAKE a, b \in S
  <2>1. a = b \/ a < b \/ b < a
    BY <1>0
  <2> QED
    BY <1>1, <2>1
<1>4. \A a, b, c \in S : <<a, b>> \in R /\ <<b, c>> \in R => <<a, c>> \in R
  <2> SUFFICES ASSUME NEW a \in S, NEW b \in S, NEW c \in S, Before(a, b), Before(b, c)
               PROVE  Before(a, c)
    BY <1>1
  <2>1. Keyed(list[a]) /\ Keyed(list[b]) /\ Keyed(list[c])
    BY <1>0
  <2>2. ~Precedes(list[b], list[a]) /\ ~Precedes(list[c], list[b])
    BY <2>1, PrecedesAsymmetric
  <2>3. CASE Precedes(list[a], list[b]) \/ Precedes(list[b], list[c])
    BY <2>1, <2>2, <2>3, PrecedesTransitive
  <2>4. CASE ~(Precedes(list[a], list[b]) \/ Precedes(list[b], list[c]))
    <3>1. ~Precedes(list[c], list[a])
      BY <2>1, <2>2, <2>4, TiesCompose
    <3>2. a < b /\ b < c
      BY <2>4
    <3>3. a < c
      BY <1>0, <3>2
    <3> QED
      BY <3>1, <3>3
  <2> QED
    BY <2>3, <2>4
<1> HIDE DEF R
<1>5. PICK a \in S : \A b \in S : <<b, a>> \notin R
  BY <1>0, <1>2, <1>3, <1>4, FirstExists
<1>6. \A b \in S : ~Before(b, a)
  BY <1>1, <1>5
<1> QED
  BY <1>5, <1>6 DEF IsFirst

\* What the selection returns is a pool of the list that no other precedes.
LEMMA HeadIsFirst ==
    ASSUME NEW list, Sortable(list), FirstOf(list).has
    PROVE  /\ FirstOf(list).has = TRUE
           /\ \E i \in DOMAIN list :
                /\ FirstOf(list).pool = list[i]
                /\ \A j \in DOMAIN list : ~Precedes(list[j], list[i])
<1>1. DOMAIN list # {}
  BY DEF FirstOf, NoPool
<1>2. PICK i \in DOMAIN list :
        i = (CHOOSE k \in DOMAIN list : IsFirst(list, k)) /\ IsFirst(list, i)
  BY <1>1, HeadExists
<1>3. FirstOf(list) = [has |-> TRUE, pool |-> list[i]]
  BY <1>1, <1>2 DEF FirstOf
<1>4. FirstOf(list).has = TRUE /\ FirstOf(list).pool = list[i]
  BY <1>3
<1> QED
  BY <1>2, <1>4 DEF IsFirst

\* Two lists of the same pools have the same head, where a tie is between equals.
LEMMA HeadsAgree ==
    ASSUME NEW list, NEW other, Sortable(list), Sortable(other),
           \A i \in DOMAIN list : \E j \in DOMAIN other : list[i] = other[j],
           \A j \in DOMAIN other : \E i \in DOMAIN list : list[i] = other[j],
           \A i \in DOMAIN list : \A j \in DOMAIN other :
             ~Precedes(list[i], other[j]) /\ ~Precedes(other[j], list[i])
               => list[i] = other[j]
    PROVE  FirstOf(list) = FirstOf(other)
<1>1. CASE DOMAIN list = {}
  <2>1. DOMAIN other = {}
    BY <1>1
  <2> QED
    BY <1>1, <2>1 DEF FirstOf
<1>2. CASE DOMAIN list # {}
  <2>1. DOMAIN other # {}
    BY <1>2
  <2>2. PICK i \in DOMAIN list :
          i = (CHOOSE k \in DOMAIN list : IsFirst(list, k)) /\ IsFirst(list, i)
    BY <1>2, HeadExists
  <2>3. PICK j \in DOMAIN other :
          j = (CHOOSE k \in DOMAIN other : IsFirst(other, k)) /\ IsFirst(other, j)
    BY <2>1, HeadExists
  <2>4. ~Precedes(list[i], other[j])
    <3>1. PICK k \in DOMAIN other : list[i] = other[k]
      OBVIOUS
    <3> QED
      BY <2>3, <3>1 DEF IsFirst
  <2>5. ~Precedes(other[j], list[i])
    <3>1. PICK k \in DOMAIN list : list[k] = other[j]
      OBVIOUS
    <3> QED
      BY <2>2, <3>1 DEF IsFirst
  <2>6. list[i] = other[j]
    BY <2>4, <2>5
  <2> QED
    BY <1>2, <2>1, <2>2, <2>3, <2>6 DEF FirstOf
<1> QED
  BY <1>1, <1>2

----------------------------------------------------------------------------
(* Candidates. *)

Entries == [pool : Texts, chain : Texts, project : Texts, symbol : Texts, apy : Rates]

\* The spelling of an approved text is one of the configuration, for the same
\* canonical value, and depends on that value alone.
LEMMA SpellingFacts ==
    ASSUME NEW values, NEW text, Approved(values, text) # {}
    PROVE  /\ Spelling(values, text) \in values
           /\ Spelling(values, text).canonical = text.canonical
<1>1. Spelling(values, text) \in Approved(values, text)
  BY DEF Spelling
<1> QED
  BY <1>1 DEF Approved, canonicalDefiLlamaValue

LEMMA SpellingByCanonical ==
    ASSUME NEW values, NEW text, NEW other, text.canonical = other.canonical
    PROVE  Spelling(values, text) = Spelling(values, other)
BY DEF Spelling, Approved, canonicalDefiLlamaValue

\* A candidate keeps its rate and the canonical values of its texts.
LEMMA CandidateFacts ==
    ASSUME NEW p \in Entries, IsCandidate(p)
    PROVE  /\ Keyed(Canonical(p))
           /\ Canonical(p).apy = p.apy
           /\ Canonical(p).chain.canonical = p.chain.canonical
           /\ Canonical(p).project.canonical = p.project.canonical
           /\ Canonical(p).symbol.canonical = p.symbol.canonical
           /\ Canonical(p).pool.canonical = p.pool.canonical
           /\ Canonical(p).chain \in ChainNames
           /\ Canonical(p).project \in Projects
<1>1. /\ Canonical(p).apy = p.apy
      /\ Canonical(p).chain = Spelling(ChainNames, p.chain)
      /\ Canonical(p).project = Spelling(Projects, p.project)
      /\ Canonical(p).symbol = Spelling(Symbols, p.symbol)
      /\ Canonical(p).pool = Spelling(PoolIds, p.pool)
  BY DEF Canonical
<1>2. /\ Canonical(p).chain.canonical = p.chain.canonical
      /\ Canonical(p).chain \in ChainNames
  BY <1>1, SpellingFacts DEF IsCandidate
<1>3. /\ Canonical(p).project.canonical = p.project.canonical
      /\ Canonical(p).project \in Projects
  BY <1>1, SpellingFacts DEF IsCandidate
<1>4. Canonical(p).symbol.canonical = p.symbol.canonical
  BY <1>1, SpellingFacts DEF IsCandidate
<1>5. Canonical(p).pool.canonical = p.pool.canonical
  BY <1>1, SpellingFacts DEF IsCandidate
<1>6. /\ p.chain.canonical \in Nat /\ p.project.canonical \in Nat
      /\ p.symbol.canonical \in Nat /\ p.pool.canonical \in Nat
  BY DEF Entries, Texts
<1>7. p.apy \in MinPoolApy..MaxPoolApy
  BY DEF IsCandidate, ValidPoolAPY
<1> QED
  BY <1>1, <1>2, <1>3, <1>4, <1>5, <1>6, <1>7 DEF Keyed

\* Candidates that tie are the same pool.
LEMMA TiesAreEqual ==
    ASSUME NEW p \in Entries, NEW q \in Entries, IsCandidate(p), IsCandidate(q),
           ~Precedes(Canonical(p), Canonical(q)), ~Precedes(Canonical(q), Canonical(p))
    PROVE  Canonical(p) = Canonical(q)
<1>1. /\ p.apy = q.apy /\ p.chain.canonical = q.chain.canonical
      /\ p.project.canonical = q.project.canonical
      /\ p.symbol.canonical = q.symbol.canonical
      /\ p.pool.canonical = q.pool.canonical
  BY CandidateFacts, TiesHaveEqualKeys
<1>2. /\ Spelling(ChainNames, p.chain) = Spelling(ChainNames, q.chain)
      /\ Spelling(Projects, p.project) = Spelling(Projects, q.project)
      /\ Spelling(Symbols, p.symbol) = Spelling(Symbols, q.symbol)
      /\ Spelling(PoolIds, p.pool) = Spelling(PoolIds, q.pool)
  BY <1>1, SpellingByCanonical
<1> QED
  BY <1>1, <1>2 DEF Canonical

\* The places of a response.
LEMMA DataPlaces ==
    ASSUME NEW data \in Seq(Entries)
    PROVE  /\ IsFiniteSet(DOMAIN data) /\ DOMAIN data \subseteq Nat
           /\ \A i \in DOMAIN data : data[i] \in Entries
<1>1. DOMAIN data = 1..Len(data) /\ Len(data) \in Nat
  OBVIOUS
<1>2. IsFiniteSet(1..Len(data))
  BY <1>1, FS_Interval
<1> QED
  BY <1>1, <1>2

\* The candidates of a response, or some of them, can be sorted.
LEMMA CandidatesSortable ==
    ASSUME NEW data, IsFiniteSet(DOMAIN data), DOMAIN data \subseteq Nat,
           \A i \in DOMAIN data : data[i] \in Entries
    PROVE  /\ DOMAIN Candidate(data) = {i \in DOMAIN data : IsCandidate(data[i])}
           /\ \A i \in DOMAIN Candidate(data) : Candidate(data)[i] = Canonical(data[i])
           /\ Sortable(Candidate(data))
           /\ \A A \in SUBSET (DOMAIN Candidate(data)) :
                Sortable(Restrict(Candidate(data), A))
<1>1. /\ DOMAIN Candidate(data) = {i \in DOMAIN data : IsCandidate(data[i])}
      /\ \A i \in DOMAIN Candidate(data) : Candidate(data)[i] = Canonical(data[i])
  BY DEF Candidate
<1>2. \A i \in DOMAIN Candidate(data) : Keyed(Candidate(data)[i])
  BY <1>1, CandidateFacts
<1>3. ASSUME NEW A \in SUBSET (DOMAIN Candidate(data))
      PROVE  /\ IsFiniteSet(A) /\ A \subseteq Nat
             /\ Sortable(Restrict(Candidate(data), A))
  <2>1. IsFiniteSet(A) /\ A \subseteq Nat
    BY <1>1, FS_Subset
  <2>2. /\ DOMAIN Restrict(Candidate(data), A) = A
        /\ \A i \in A : Restrict(Candidate(data), A)[i] = Candidate(data)[i]
    BY DEF Restrict
  <2> QED
    BY <1>2, <2>1, <2>2 DEF Sortable
<1>4. Sortable(Candidate(data))
  BY <1>2, <1>3 DEF Sortable
<1> QED
  BY <1>1, <1>3, <1>4

----------------------------------------------------------------------------
(* The order of the response. *)

\* A node's result is the same for every order of the same entries.
LEMMA ParseIgnoresOrder ==
    ASSUME NEW data \in Seq(Entries), NEW f \in Bijection(DOMAIN data, DOMAIN data)
    PROVE  parsePools([i \in DOMAIN data |-> data[f[i]]]) = parsePools(data)
<1> DEFINE D == DOMAIN data
           other == [i \in D |-> data[f[i]]]
           C == Candidate(data)
           O == Candidate(other)
           A == {i \in DOMAIN C : IsCurrent(C[i])}
           B == {i \in DOMAIN O : IsCurrent(O[i])}
<1>1. /\ IsFiniteSet(D) /\ D \subseteq Nat
      /\ \A i \in D : data[i] \in Entries
  BY DataPlaces
<1>2. /\ \A i \in D : f[i] \in D
      /\ \A j \in D : \E i \in D : f[i] = j
  BY DEF Bijection, Injection, Surjection
<1>3. /\ DOMAIN other = D
      /\ \A i \in D : other[i] = data[f[i]] /\ other[i] \in Entries
  BY <1>1, <1>2
<1> HIDE DEF other, D
<1>4. /\ DOMAIN C = {i \in D : IsCandidate(data[i])}
      /\ \A i \in DOMAIN C : C[i] = Canonical(data[i])
      /\ Sortable(C) /\ \A S \in SUBSET (DOMAIN C) : Sortable(Restrict(C, S))
  BY <1>1, CandidatesSortable DEF D
<1>5. /\ DOMAIN O = {i \in D : IsCandidate(other[i])}
      /\ \A i \in DOMAIN O : O[i] = Canonical(other[i])
      /\ Sortable(O) /\ \A S \in SUBSET (DOMAIN O) : Sortable(Restrict(O, S))
  BY <1>1, <1>3, CandidatesSortable
<1> HIDE DEF C, O
<1>6. \A i \in DOMAIN O : f[i] \in DOMAIN C /\ O[i] = C[f[i]]
  BY <1>2, <1>3, <1>4, <1>5
<1>7. \A j \in DOMAIN C : \E i \in DOMAIN O : f[i] = j /\ O[i] = C[j]
  BY <1>2, <1>3, <1>4, <1>5
<1>8. \A i \in DOMAIN O : \A j \in DOMAIN C :
        ~Precedes(O[i], C[j]) /\ ~Precedes(C[j], O[i]) => O[i] = C[j]
  <2> SUFFICES ASSUME NEW i \in DOMAIN O, NEW j \in DOMAIN C,
                      ~Precedes(O[i], C[j]), ~Precedes(C[j], O[i])
               PROVE  O[i] = C[j]
    OBVIOUS
  <2>1. /\ other[i] \in Entries /\ IsCandidate(other[i]) /\ O[i] = Canonical(other[i])
        /\ data[j] \in Entries /\ IsCandidate(data[j]) /\ C[j] = Canonical(data[j])
    BY <1>1, <1>3, <1>4, <1>5
  <2> QED
    BY <2>1, TiesAreEqual
<1>9. FirstOf(O) = FirstOf(C)
  <2>1. /\ \A i \in DOMAIN O : \E j \in DOMAIN C : O[i] = C[j]
        /\ \A j \in DOMAIN C : \E i \in DOMAIN O : O[i] = C[j]
    BY <1>6, <1>7
  <2> QED
    BY <1>4, <1>5, <1>8, <2>1, HeadsAgree
<1>10. FirstOf(Restrict(O, B)) = FirstOf(Restrict(C, A))
  <2> DEFINE RO == Restrict(O, B)
             RC == Restrict(C, A)
  <2>1. /\ DOMAIN RO = B /\ \A i \in B : RO[i] = O[i]
        /\ DOMAIN RC = A /\ \A j \in A : RC[j] = C[j]
    BY DEF Restrict
  <2>2. Sortable(RO) /\ Sortable(RC)
    BY <1>4, <1>5
  <2>3. /\ \A i \in B : \E j \in A : O[i] = C[j]
        /\ \A j \in A : \E i \in B : O[i] = C[j]
    BY <1>6, <1>7
  <2> HIDE DEF RO, RC
  <2>4. /\ \A i \in DOMAIN RO : \E j \in DOMAIN RC : RO[i] = RC[j]
        /\ \A j \in DOMAIN RC : \E i \in DOMAIN RO : RO[i] = RC[j]
    BY <2>1, <2>3
  <2>5. \A i \in DOMAIN RO : \A j \in DOMAIN RC :
          ~Precedes(RO[i], RC[j]) /\ ~Precedes(RC[j], RO[i]) => RO[i] = RC[j]
    BY <1>8, <2>1
  <2>6. FirstOf(RO) = FirstOf(RC)
    BY <2>2, <2>4, <2>5, HeadsAgree
  <2> QED
    BY <2>6 DEF RO, RC
<1>11. /\ parsePools(other) = [best |-> FirstOf(O), current |-> FirstOf(Restrict(O, B))]
       /\ parsePools(data) = [best |-> FirstOf(C), current |-> FirstOf(Restrict(C, A))]
  BY DEF parsePools, O, C
<1> QED
  BY <1>9, <1>10, <1>11 DEF other, D

----------------------------------------------------------------------------
(* The decision. *)

\* In a validated configuration a DefiLlama name has one vault ...
LEMMA NamesUnique ==
    ASSUME ValidateConfig(config), NEW e \in Named(config.evms),
           NEW f \in Named(config.evms),
           e.defiLlamaChainName.canonical = f.defiLlamaChainName.canonical
    PROVE  e = f
BY DEF ValidateConfig, IsInjective, canonicalDefiLlamaValue

\* ... so a chain name stands for one selector ...
LEMMA SelectorOfName ==
    ASSUME ValidateConfig(config), NEW e \in Named(config.evms), NEW text,
           text.canonical = e.defiLlamaChainName.canonical
    PROVE  PoolToChainSelector(text) = {e.chainSelector}
<1>1. \A f \in Named(config.evms) :
        canonicalDefiLlamaValue(f.defiLlamaChainName) = canonicalDefiLlamaValue(text)
          <=> f = e
  BY NamesUnique DEF canonicalDefiLlamaValue
<1> QED
  BY <1>1 DEF PoolToChainSelector

\* ... and a project has one spelling.
LEMMA ProjectsUnique ==
    ASSUME ValidateConfig(config), NEW u \in Projects, NEW v \in Projects,
           u.canonical = v.canonical
    PROVE  u = v
<1>1. IsInjective([i \in DOMAIN config.defiLlama.projects |->
                     canonicalDefiLlamaValue(config.defiLlama.projects[i])])
  BY DEF ValidateConfig, validateDefiLlamaConfig, validateUniqueNonEmptyStrings
<1>2. PICK i \in DOMAIN config.defiLlama.projects : u = config.defiLlama.projects[i]
  BY DEF Projects, Range
<1>3. PICK j \in DOMAIN config.defiLlama.projects : v = config.defiLlama.projects[j]
  BY DEF Projects, Range
<1> QED
  BY <1>1, <1>2, <1>3 DEF IsInjective, canonicalDefiLlamaValue

\* The rates of a strategy, place by place.
LEMMA RatesOfPlaces ==
    ASSUME NEW s, NEW strategy, NEW r
    PROVE  r \in RatesOf(s, strategy) <=>
             \E i \in DOMAIN s.data :
               /\ r = s.data[i].apy
               /\ IsCandidate(s.data[i])
               /\ s.data[i].project.canonical = strategy[1].canonical
               /\ PoolToChainSelector(s.data[i].chain) = {strategy[2]}
BY DEF RatesOf, Range, canonicalDefiLlamaValue

\* The reason of a move, in one snapshot.
JustifiedBy(s, strategy) ==
    /\ RatesOf(s, active) # {}
    /\ \E best \in RatesOf(s, strategy) :
         /\ \A old \in RatesOf(s, active) : best >= old + DifferentialThreshold
         /\ \A p \in Range(s.data) : IsCandidate(p) => p.apy <= best

\* What the policy decides from a snapshot is justified by that snapshot.
LEMMA DecisionJustified ==
    ASSUME ValidateConfig(config), NEW s, s.data \in Seq(Entries), NEW result,
           result = parsePools(s.data), NeedRebalance(result.best, result.current),
           NEW selector \in PoolToChainSelector(result.best.pool.chain)
    PROVE  JustifiedBy(s, StrategyOf(result.best.pool.project, selector))
<1> DEFINE data == s.data
           C == Candidate(data)
           A == {i \in DOMAIN C : IsCurrent(C[i])}
           RC == Restrict(C, A)
<1>1. /\ IsFiniteSet(DOMAIN data) /\ DOMAIN data \subseteq Nat
      /\ \A i \in DOMAIN data : data[i] \in Entries
  BY DataPlaces
<1>2. /\ DOMAIN C = {i \in DOMAIN data : IsCandidate(data[i])}
      /\ \A i \in DOMAIN C : C[i] = Canonical(data[i])
      /\ Sortable(C) /\ Sortable(RC)
  BY <1>1, CandidatesSortable
<1>3. /\ result.best = FirstOf(C) /\ result.current = FirstOf(RC)
      /\ FirstOf(C).has /\ FirstOf(RC).has
      /\ FirstOf(C).pool.apy >= FirstOf(RC).pool.apy + DifferentialThreshold
  BY DEF parsePools, NeedRebalance
<1>4. /\ DOMAIN RC = A /\ \A i \in A : RC[i] = C[i]
  BY DEF Restrict
<1>0. \A st, r : r \in RatesOf(s, st) <=>
             \E i \in DOMAIN data :
               /\ r = data[i].apy
               /\ IsCandidate(data[i])
               /\ data[i].project.canonical = st[1].canonical
               /\ PoolToChainSelector(data[i].chain) = {st[2]}
  BY RatesOfPlaces
<1> HIDE DEF C, RC, data
<1>5. PICK b \in DOMAIN C : /\ FirstOf(C).pool = C[b]
                            /\ \A j \in DOMAIN C : ~Precedes(C[j], C[b])
  BY <1>2, <1>3, HeadIsFirst
<1>6. PICK c \in A : /\ FirstOf(RC).pool = C[c]
                     /\ \A j \in A : ~Precedes(C[j], C[c])
  <2>1. PICK c \in DOMAIN RC : /\ FirstOf(RC).pool = RC[c]
                               /\ \A j \in DOMAIN RC : ~Precedes(RC[j], RC[c])
    BY <1>2, <1>3, HeadIsFirst
  <2> QED
    BY <1>4, <2>1
<1>7. /\ c \in DOMAIN C
      /\ \A i \in DOMAIN C :
           /\ i \in DOMAIN data /\ data[i] \in Entries /\ IsCandidate(data[i])
           /\ C[i] = Canonical(data[i]) /\ Keyed(C[i])
           /\ C[i].apy = data[i].apy /\ C[i].apy \in Nat
           /\ C[i].chain.canonical = data[i].chain.canonical
           /\ C[i].project.canonical = data[i].project.canonical
           /\ C[i].chain \in ChainNames /\ C[i].project \in Projects
  <2>1. c \in DOMAIN C
    OBVIOUS
  <2>2. \A i \in DOMAIN C : i \in DOMAIN data /\ data[i] \in Entries
                            /\ IsCandidate(data[i]) /\ C[i] = Canonical(data[i])
    BY <1>1, <1>2
  <2>3. \A i \in DOMAIN C :
           /\ Keyed(C[i]) /\ C[i].apy = data[i].apy
           /\ C[i].chain.canonical = data[i].chain.canonical
           /\ C[i].project.canonical = data[i].project.canonical
           /\ C[i].chain \in ChainNames /\ C[i].project \in Projects
    BY <2>2, CandidateFacts
  <2>4. \A i \in DOMAIN C : C[i].apy \in Nat
    BY <2>3, PolicyAssumption DEF Keyed
  <2> QED
    BY <2>1, <2>2, <2>3, <2>4
<1>8. \A i \in DOMAIN C : C[i].apy <= C[b].apy
  <2> TAKE i \in DOMAIN C
  <2>1. ~(C[i].apy > C[b].apy)
    BY <1>5, <1>7, PrecedesByKeys
  <2> QED
    BY <1>7, <2>1
<1>9. \A i \in A : C[i].apy <= C[c].apy
  <2> TAKE i \in A
  <2>1. i \in DOMAIN C /\ ~(C[i].apy > C[c].apy)
    BY <1>6, <1>7, PrecedesByKeys
  <2> QED
    BY <1>7, <2>1
<1>10. PICK e \in Named(config.evms) :
         /\ e.chainSelector = active[2] /\ C[c].chain = e.defiLlamaChainName
         /\ C[c].project = active[1]
  BY DEF IsCurrent
<1>11. data[c].apy \in RatesOf(s, active)
  <2>1. PoolToChainSelector(data[c].chain) = {active[2]}
    BY <1>7, <1>10, SelectorOfName
  <2> QED
    <3>1. /\ c \in DOMAIN data /\ IsCandidate(data[c])
          /\ data[c].project.canonical = active[1].canonical
      BY <1>7, <1>10
    <3> QED
      BY <1>0, <2>1, <3>1
<1>12. data[b].apy \in RatesOf(s, StrategyOf(result.best.pool.project, selector))
  <2>1. PICK f \in Named(config.evms) : C[b].chain = f.defiLlamaChainName
    BY <1>7 DEF ChainNames
  <2>2. PoolToChainSelector(C[b].chain) = {f.chainSelector}
    BY <2>1, SelectorOfName
  <2>3. PoolToChainSelector(data[b].chain) = {f.chainSelector}
    BY <1>7, <2>1, SelectorOfName
  <2>4. selector = f.chainSelector /\ result.best.pool.project = C[b].project
    BY <1>3, <1>5, <2>2
  <2> DEFINE st == StrategyOf(result.best.pool.project, selector)
  <2>5. st[1] = C[b].project /\ st[2] = f.chainSelector
    BY <2>4 DEF StrategyOf
  <2> HIDE DEF st
  <2>6. /\ b \in DOMAIN data /\ IsCandidate(data[b])
        /\ data[b].project.canonical = st[1].canonical
    BY <1>7, <2>5
  <2>7. data[b].apy \in RatesOf(s, st)
    BY <1>0, <2>3, <2>5, <2>6
  <2> QED
    BY <2>7 DEF st
<1>13. ASSUME NEW old \in RatesOf(s, active)
       PROVE  data[b].apy >= old + DifferentialThreshold
  <2>1. PICK i \in DOMAIN data :
          /\ old = data[i].apy /\ IsCandidate(data[i])
          /\ data[i].project.canonical = active[1].canonical
          /\ PoolToChainSelector(data[i].chain) = {active[2]}
    BY <1>0, <1>13
  <2>2. i \in DOMAIN C
    BY <1>2, <2>1
  <2>3. C[i].project = active[1]
    <3>1. C[i].project.canonical = C[c].project.canonical
      BY <1>7, <1>10, <2>1, <2>2
    <3> QED
      BY <1>7, <1>10, <2>2, <3>1, ProjectsUnique
  <2>4. PICK f \in Named(config.evms) : C[i].chain = f.defiLlamaChainName
    BY <1>7, <2>2 DEF ChainNames
  <2>5. f.chainSelector = active[2]
    <3>1. PoolToChainSelector(data[i].chain) = {f.chainSelector}
      BY <1>7, <2>2, <2>4, SelectorOfName
    <3> QED
      BY <2>1, <3>1
  <2>6. i \in A
    BY <2>2, <2>3, <2>4, <2>5 DEF IsCurrent
  <2>7. data[i].apy <= C[c].apy /\ C[b].apy >= C[c].apy + DifferentialThreshold
    BY <1>3, <1>5, <1>6, <1>7, <1>9, <2>2, <2>6
  <2> QED
    BY <1>7, <2>1, <2>2, <2>7, PolicyAssumption
<1>14. ASSUME NEW p \in Range(s.data), IsCandidate(p)
       PROVE  p.apy <= data[b].apy
  <2>1. PICK i \in DOMAIN data : p = data[i]
    BY DEF Range, data
  <2>2. i \in DOMAIN C
    BY <1>2, <1>14, <2>1
  <2> QED
    BY <1>7, <1>8, <2>1, <2>2
<1> QED
  BY <1>11, <1>12, <1>13, <1>14 DEF JustifiedBy

----------------------------------------------------------------------------
(* The invariant. *)

Snapshots == [refreshedAt : Nat, data : Seq(Entries)]

\* The times, and what the store holds.
RelayInv ==
    /\ now \in Nat /\ lastCompleted \in Nat /\ nonce \in Nat /\ lastCompleted <= now
    /\ fetchStart # NoFetch => fetchStart \in Nat
    /\ latest \in Snapshots /\ lagging \subseteq Snapshots
    /\ \A r \in basis : r \in Nat /\ r <= lastCompleted

\* Nothing is decided before there is a configuration, and it is a validated one.
DeployInv ==
    /\ config # NoConfig => ValidateConfig(config)
    /\ config = NoConfig => choices = {} /\ moving = NoChoice

\* A choice was made from snapshots that were fresh then; one for the present nonce
\* was made a cooldown after the last move, and its reason still holds.
ChoiceInv(c) ==
    /\ c.nonce \in Nat /\ c.observedAt \in Nat
    /\ c.nonce <= nonce /\ c.observedAt <= now
    /\ \A s \in c.seen : /\ s \in Snapshots
                         /\ s.refreshedAt <= c.observedAt
                         /\ c.observedAt - s.refreshedAt <= MaxSnapshotAge
    /\ c.nonce = nonce =>
         /\ c.observedAt >= lastCompleted + MinRebalancePeriod
         /\ \A s \in c.seen : JustifiedBy(s, c.strategy)

PoolInv ==
    /\ RelayInv
    /\ DeployInv
    /\ \A c \in choices : ChoiceInv(c)
    /\ moving # NoChoice => ChoiceInv(moving) /\ moving.nonce = nonce

\* A refresh publishes a snapshot of entries.
LEMMA SnapshotTyped ==
    ASSUME NEW cat \in Catalogues, NEW rate \in [DOMAIN cat -> Rates], NEW t \in Nat
    PROVE  [refreshedAt |-> t, data |-> [i \in DOMAIN cat |-> RelayPool(cat[i], rate[i])]]
             \in Snapshots
<1> DEFINE E == [pool : Texts, chain : Texts, project : Texts, symbol : Texts, apy : Nat]
<1>1. cat \in Seq(E)
  BY CatalogueAssumption
<1> HIDE DEF E
<1>2. PICK n \in Nat : DOMAIN cat = 1..n /\ \A i \in 1..n : cat[i] \in E
  BY <1>1
<1>3. \A i \in 1..n : RelayPool(cat[i], rate[i]) \in Entries
  BY <1>2 DEF RelayPool, Entries, E
<1>4. [i \in DOMAIN cat |-> RelayPool(cat[i], rate[i])] \in Seq(Entries)
  BY <1>2, <1>3
<1> QED
  BY <1>4 DEF Snapshots

\* The parts of the state a choice depends on.
LEMMA ChoiceKept ==
    ASSUME NEW c, ChoiceInv(c), UNCHANGED <<config, active, lastCompleted, nonce>>,
           now \in Nat, now' \in Nat, now <= now'
    PROVE  ChoiceInv(c)'
<1>1. ASSUME NEW s, NEW st, JustifiedBy(s, st) PROVE JustifiedBy(s, st)'
  <2>1. /\ PoolIds' = PoolIds /\ ChainNames' = ChainNames
        /\ Projects' = Projects /\ Symbols' = Symbols
    BY DEF PoolIds, ChainNames, Projects, Symbols
  <2>2. \A p : IsCandidate(p)' <=> IsCandidate(p)
    BY <2>1 DEF IsCandidate
  <2>3. \A t : PoolToChainSelector(t)' = PoolToChainSelector(t)
    BY DEF PoolToChainSelector
  <2>4. \A t : RatesOf(s, t)' = RatesOf(s, t)
    BY <2>2, <2>3 DEF RatesOf
  <2>5. RatesOf(s, active)' = RatesOf(s, active)
    BY <2>2, <2>3 DEF RatesOf
  <2> QED
    BY <1>1, <2>2, <2>4, <2>5 DEF JustifiedBy
<1>2. c.observedAt \in Nat /\ c.observedAt <= now'
  BY DEF ChoiceInv
<1> QED
  BY <1>1, <1>2 DEF ChoiceInv

\* The steps that leave the vault and the configuration alone, and drop choices at
\* most.
LEMMA ChoicesKept ==
    ASSUME PoolInv, UNCHANGED <<config, vaultVars>>, choices' \subseteq choices,
           RelayInv', now <= now'
    PROVE  PoolInv'
<1>1. /\ now \in Nat /\ now' \in Nat
      /\ UNCHANGED <<config, active, lastCompleted, nonce, moving>>
  BY DEF PoolInv, RelayInv, vaultVars
<1>2. \A c : ChoiceInv(c) => ChoiceInv(c)'
  BY <1>1, ChoiceKept
<1>3. DeployInv'
  BY <1>1 DEF PoolInv, DeployInv
<1>4. \A c \in choices' : ChoiceInv(c)'
  BY <1>2 DEF PoolInv
<1>5. moving' # NoChoice => ChoiceInv(moving)' /\ moving'.nonce = nonce'
  BY <1>1, <1>2 DEF PoolInv
<1> QED
  BY <1>3, <1>4, <1>5 DEF PoolInv

\* The relay refreshes, fails and converges.
LEMMA RelayStep ==
    ASSUME PoolInv, RelaySteps
    PROVE  PoolInv'
<1>1. UNCHANGED <<config, vaultVars, choices, basis>> /\ now' = now
  BY DEF RelaySteps, RefreshStarts, RefreshEnds, RefreshFails, StoreConverges
<1>2. now \in Nat /\ RelayInv
  BY DEF PoolInv, RelayInv
<1>3. NoSnapshot \in Snapshots
  BY DEF NoSnapshot, Snapshots
<1>4. (fetchStart' # NoFetch => fetchStart' \in Nat)
  BY <1>2 DEF RelaySteps, RefreshStarts, RefreshEnds, RefreshFails, StoreConverges, RelayInv
<1>5. latest' \in Snapshots /\ lagging' \subseteq Snapshots
  <2>1. CASE RefreshEnds
    <3>1. fetchStart \in Nat
      BY <1>2, <2>1 DEF RefreshEnds, RelayInv
    <3>2. latest' \in Snapshots
      BY <2>1, <3>1, SnapshotTyped DEF RefreshEnds
    <3> QED
      BY <1>2, <2>1, <3>2 DEF RefreshEnds, RelayInv
  <2>2. CASE RefreshStarts \/ RefreshFails \/ StoreConverges
    BY <1>2, <2>2 DEF RefreshStarts, RefreshFails, StoreConverges, RelayInv
  <2> QED
    BY <2>1, <2>2 DEF RelaySteps
<1>6. RelayInv'
  BY <1>1, <1>2, <1>4, <1>5 DEF RelayInv, vaultVars
<1> QED
  BY <1>1, <1>2, <1>6, ChoicesKept

\* Time passes and reports expire.
LEMMA TimeStep ==
    ASSUME PoolInv, TimePasses
    PROVE  PoolInv'
<1>1. /\ UNCHANGED <<config, vaultVars, basis, relayVars>> /\ now' = now + 1
      /\ choices' \subseteq choices
  BY DEF TimePasses, Tick
<1>2. RelayInv /\ now \in Nat
  BY DEF PoolInv, RelayInv
<1>3. RelayInv'
  BY <1>1, <1>2 DEF RelayInv, vaultVars, relayVars
<1> QED
  BY <1>1, <1>2, <1>3, ChoicesKept

\* A configuration is deployed once.
LEMMA DeployStep ==
    ASSUME PoolInv, Deploys
    PROVE  PoolInv'
<1>1. /\ UNCHANGED <<now, fetchStart, latest, lagging, active, lastCompleted, nonce,
                     moving, choices, basis>>
      /\ config = NoConfig /\ ValidateConfig(config')
  BY DEF Deploys, InitWorkflow, relayVars, vaultVars
<1>2. choices' = {} /\ moving' = NoChoice
  BY <1>1 DEF PoolInv, DeployInv
<1>3. RelayInv'
  BY <1>1 DEF PoolInv, RelayInv
<1>4. DeployInv'
  BY <1>1, <1>2 DEF DeployInv
<1> QED
  BY <1>2, <1>3, <1>4 DEF PoolInv

\* The cron adds a choice that is fresh and justified.
LEMMA CronStep ==
    ASSUME PoolInv, RebalanceCron
    PROVE  PoolInv'
<1>1. /\ config # NoConfig /\ now >= lastCompleted + MinRebalancePeriod
      /\ UNCHANGED <<config, now, fetchStart, latest, lagging, active, lastCompleted,
                     nonce, moving, basis>>
  BY DEF RebalanceCron, relayVars, vaultVars
<1>2. PICK seen, result, selector :
        /\ seen \subseteq Visible
        /\ \A s \in seen : validateSnapshotFreshness(s) /\ parsePools(s.data) = result
        /\ NeedRebalance(result.best, result.current)
        /\ selector \in PoolToChainSelector(result.best.pool.chain)
        /\ choices' = choices \union
             {[nonce |-> nonce, observedAt |-> now, seen |-> seen,
               strategy |-> StrategyOf(result.best.pool.project, selector)]}
  <2>1. PICK fetched \in FetchAndSelectPools :
          /\ NeedRebalance(fetched.result.best, fetched.result.current)
          /\ \E selector \in PoolToChainSelector(fetched.result.best.pool.chain) :
               choices' = choices \union
                 {[nonce |-> nonce, observedAt |-> now, seen |-> fetched.seen,
                   strategy |-> StrategyOf(fetched.result.best.pool.project, selector)]}
    BY DEF RebalanceCron
  <2>2. PICK seen \in SUBSET (Visible \ {NoSnapshot}) :
          /\ seen # {}
          /\ \A s \in seen : validateSnapshotFreshness(s)
          /\ \A s, t \in seen : parsePools(s.data) = parsePools(t.data)
          /\ fetched = [seen |-> seen, result |-> parsePools((CHOOSE s \in seen : TRUE).data)]
    BY DEF FetchAndSelectPools
  <2>3. \A s \in seen : parsePools(s.data) = fetched.result
    <3>1. (CHOOSE s \in seen : TRUE) \in seen
      BY <2>2
    <3> QED
      BY <2>2, <3>1
  <2>4. fetched.seen = seen
    BY <2>2
  <2>5. PICK selector \in PoolToChainSelector(fetched.result.best.pool.chain) :
          choices' = choices \union
            {[nonce |-> nonce, observedAt |-> now, seen |-> seen,
              strategy |-> StrategyOf(fetched.result.best.pool.project, selector)]}
    BY <2>1, <2>4
  <2>6. seen \subseteq Visible
    OBVIOUS
  <2> WITNESS seen, fetched.result, selector
  <2> QED
    BY <2>1, <2>2, <2>3, <2>5, <2>6
<1> DEFINE strategy == StrategyOf(result.best.pool.project, selector)
           new == [nonce |-> nonce, observedAt |-> now, seen |-> seen, strategy |-> strategy]
<1>3. /\ RelayInv /\ DeployInv /\ ValidateConfig(config)
      /\ now \in Nat /\ nonce \in Nat /\ lastCompleted \in Nat
  BY <1>1 DEF PoolInv, DeployInv, RelayInv
<1>4. \A s \in seen : /\ s \in Snapshots /\ s.refreshedAt <= now
                      /\ now - s.refreshedAt <= MaxSnapshotAge
  BY <1>2, <1>3 DEF Visible, RelayInv, validateSnapshotFreshness
<1>5. \A s \in seen : JustifiedBy(s, strategy)
  <2> TAKE s \in seen
  <2>1. s.data \in Seq(Entries) /\ result = parsePools(s.data)
    BY <1>2, <1>4 DEF Snapshots
  <2> QED
    BY <1>2, <1>3, <2>1, DecisionJustified
<1>6. ChoiceInv(new)
  <2>1. /\ new.nonce = nonce /\ new.observedAt = now /\ new.seen = seen
        /\ new.strategy = strategy
    OBVIOUS
  <2> HIDE DEF new, strategy
  <2> QED
    BY <1>1, <1>3, <1>4, <1>5, <2>1 DEF ChoiceInv
<1>7. RelayInv' /\ DeployInv'
  BY <1>1, <1>3 DEF RelayInv, DeployInv
<1>8. \A c : ChoiceInv(c) => ChoiceInv(c)'
  BY <1>1, <1>3, ChoiceKept
<1>9. \A c \in choices' : ChoiceInv(c)'
  <2> HIDE DEF new
  <2>1. choices' = choices \union {new}
    BY <1>2 DEF new
  <2> QED
    BY <1>6, <1>8, <2>1 DEF PoolInv
<1>10. moving' # NoChoice => ChoiceInv(moving)' /\ moving'.nonce = nonce'
  BY <1>1, <1>8 DEF PoolInv
<1> QED
  BY <1>7, <1>9, <1>10 DEF PoolInv

\* The vault starts on a choice for its nonce.
LEMMA InitiateStep ==
    ASSUME PoolInv, NEW c \in choices, InitiateRebalance(c)
    PROVE  PoolInv'
<1>1. /\ UNCHANGED <<config, now, fetchStart, latest, lagging, active, lastCompleted,
                     nonce, choices, basis>>
      /\ moving' = c /\ c.nonce = nonce
  BY DEF InitiateRebalance, relayVars
<1>2. RelayInv /\ now \in Nat /\ ChoiceInv(c)
  BY DEF PoolInv, RelayInv
<1>3. \A d : ChoiceInv(d) => ChoiceInv(d)'
  BY <1>1, <1>2, ChoiceKept
<1>4. RelayInv'
  BY <1>1, <1>2 DEF RelayInv
<1>5. DeployInv'
  BY <1>1 DEF PoolInv, DeployInv
<1>6. ChoiceInv(moving)'
  BY <1>1, <1>2, <1>3
<1> QED
  BY <1>1, <1>3, <1>4, <1>5, <1>6 DEF PoolInv

\* The snapshots of a move under way are newer than the move before.
LEMMA MovingIsNewer ==
    ASSUME PoolInv, moving # NoChoice, NEW s \in moving.seen
    PROVE  /\ s.refreshedAt \in Nat /\ s.refreshedAt <= now
           /\ s.refreshedAt > lastCompleted
<1>1. /\ ChoiceInv(moving) /\ moving.nonce = nonce
      /\ now \in Nat /\ lastCompleted \in Nat
  BY DEF PoolInv, RelayInv
<1>2. PICK o \in Nat, r \in Nat, a \in Nat, m \in Nat :
        /\ o = moving.observedAt /\ r = s.refreshedAt
        /\ a = MaxSnapshotAge /\ m = MinRebalancePeriod /\ a < m
        /\ r <= o /\ o <= now /\ o - r <= a /\ o >= lastCompleted + m
  <2>1. /\ moving.observedAt \in Nat /\ moving.observedAt <= now
        /\ s \in Snapshots /\ s.refreshedAt <= moving.observedAt
        /\ moving.observedAt - s.refreshedAt <= MaxSnapshotAge
        /\ moving.observedAt >= lastCompleted + MinRebalancePeriod
    BY <1>1 DEF ChoiceInv
  <2>2. s.refreshedAt \in Nat
    BY <2>1 DEF Snapshots
  <2> QED
    BY <2>1, <2>2, PolicyAssumption, CooldownAssumption
<1> QED
  BY <1>1, <1>2

\* The move completes: every choice outstanding is of an earlier nonce.
LEMMA CompleteStep ==
    ASSUME PoolInv, CompleteRebalance
    PROVE  PoolInv'
<1>1. /\ UNCHANGED <<config, now, fetchStart, latest, lagging, choices>>
      /\ moving # NoChoice /\ lastCompleted' = now /\ nonce' = nonce + 1
      /\ basis' = {s.refreshedAt : s \in moving.seen} /\ moving' = NoChoice
  BY DEF CompleteRebalance, relayVars
<1>2. /\ now \in Nat /\ nonce \in Nat /\ RelayInv /\ DeployInv
  BY DEF PoolInv, RelayInv
<1>3. \A r \in basis' : r \in Nat /\ r <= now
  BY <1>1, MovingIsNewer
<1>4. RelayInv'
  BY <1>1, <1>2, <1>3 DEF RelayInv
<1>5. DeployInv'
  BY <1>1, <1>2 DEF DeployInv
<1>6. ASSUME NEW c \in choices PROVE ChoiceInv(c)'
  <2>1. ChoiceInv(c) /\ c.nonce \in Nat /\ c.nonce <= nonce
    BY DEF PoolInv, ChoiceInv
  <2>2. c.nonce <= nonce' /\ c.nonce # nonce'
    BY <1>1, <1>2, <2>1
  <2> QED
    BY <1>1, <2>1, <2>2 DEF ChoiceInv
<1> QED
  BY <1>1, <1>4, <1>5, <1>6 DEF PoolInv

\* Every step keeps the invariant.
LEMMA PoolInvStep == PoolInv /\ [Next]_vars => PoolInv'
<1> SUFFICES ASSUME PoolInv, [Next]_vars PROVE PoolInv'
  OBVIOUS
<1>1. CASE UNCHANGED vars
  <2>1. UNCHANGED <<config, now, fetchStart, latest, lagging, active, lastCompleted,
                    nonce, moving, choices, basis>>
    BY <1>1 DEF vars, relayVars, vaultVars
  <2>2. RelayInv' /\ now \in Nat
    BY <2>1 DEF PoolInv, RelayInv
  <2> QED
    BY <2>1, <2>2, ChoicesKept DEF vaultVars
<1>2. CASE Next
  BY <1>2, DeployStep, RelayStep, CronStep, InitiateStep, CompleteStep, TimeStep DEF Next
<1> QED
  BY <1>1, <1>2

LEMMA PoolInvInit == Init => PoolInv
<1> SUFFICES ASSUME Init PROVE PoolInv
  OBVIOUS
<1>1. NoSnapshot \in Snapshots
  BY DEF NoSnapshot, Snapshots
<1>2. RelayInv
  BY <1>1 DEF Init, RelayInit, RelayInv
<1> QED
  BY <1>2 DEF Init, ConfigInit, PoolInv, DeployInv

LEMMA PoolInvAlways == Spec => []PoolInv
BY PoolInvInit, PoolInvStep, PTL DEF Spec

----------------------------------------------------------------------------
(* Theorems. *)

\* Every node makes the same of the same entries, whatever their order and however
\* they tie, in every deployment of the workflow and of the relay.
THEOREM SelectionIsOrderFree == Spec => []SelectionIgnoresOrder
<1>1. PoolInv => SelectionIgnoresOrder
  <2> SUFFICES ASSUME PoolInv PROVE SelectionIgnoresOrder
    OBVIOUS
  <2>1. latest.data \in Seq(Entries)
    BY DEF PoolInv, RelayInv, Snapshots
  <2> QED
    BY <2>1, ParseIgnoresOrder DEF SelectionIgnoresOrder
<1> QED
  BY <1>1, PoolInvAlways, PTL

\* Each move is decided from rates fetched after the move before was complete.
THEOREM MovesGoForward == Spec => MovesUseNewerRates
<1>1. PoolInv /\ [Next]_vars =>
        [basis' # basis => \A old \in basis, new \in basis' : old < new]_vars
  <2> SUFFICES ASSUME PoolInv, Next, basis' # basis,
                      NEW old \in basis, NEW new \in basis'
               PROVE  old < new
    BY DEF vars
  <2>1. CompleteRebalance
    BY DEF Next, Deploys, RelaySteps, RebalanceCron, InitiateRebalance, TimePasses
  <2>2. PICK s \in moving.seen : new = s.refreshedAt
    BY <2>1 DEF CompleteRebalance
  <2>3. new \in Nat /\ new > lastCompleted
    BY <2>1, <2>2, MovingIsNewer DEF CompleteRebalance
  <2>4. old \in Nat /\ old <= lastCompleted /\ lastCompleted \in Nat
    BY DEF PoolInv, RelayInv
  <2> QED
    BY <2>3, <2>4
<1> QED
  BY <1>1, PoolInvAlways, PTL DEF Spec, MovesUseNewerRates

\* A move is started only for a reason that still holds, in every snapshot it was
\* decided from.
THEOREM MovesAreJustified == Spec => MoveJustified
<1>1. ASSUME PoolInv, [Next]_vars, moving' # NoChoice, moving' # moving
      PROVE  \A s \in moving'.seen :
               now - s.refreshedAt <= MaxSnapshotAge + MaxReportAge /\ JustifiedBy(s, moving'.strategy)
  <2>1. PICK c \in choices : InitiateRebalance(c)
    BY <1>1 DEF Next, vars, Deploys, RelaySteps, RebalanceCron, CompleteRebalance,
                TimePasses, vaultVars
  <2>2. /\ moving' = c /\ c.nonce = nonce /\ now - c.observedAt <= MaxReportAge
        /\ ChoiceInv(c) /\ now \in Nat
    BY <1>1, <2>1 DEF InitiateRebalance, PoolInv, RelayInv
  <2> TAKE s \in moving'.seen
  <2>3. /\ s \in Snapshots /\ s.refreshedAt <= c.observedAt
        /\ c.observedAt - s.refreshedAt <= MaxSnapshotAge
        /\ JustifiedBy(s, c.strategy)
    BY <2>2 DEF ChoiceInv
  <2>4. s.refreshedAt \in Nat /\ c.observedAt \in Nat
    BY <2>2, <2>3 DEF ChoiceInv, Snapshots
  <2>5. now - s.refreshedAt <= MaxSnapshotAge + MaxReportAge
    BY <2>2, <2>3, <2>4, PolicyAssumption
  <2> QED
    BY <2>2, <2>3, <2>5
<1>2. PoolInv /\ [Next]_vars =>
        [moving' # NoChoice /\ moving' # moving =>
          \A s \in moving'.seen :
            /\ now - s.refreshedAt <= MaxSnapshotAge + MaxReportAge
            /\ RatesOf(s, active) # {}
            /\ \E best \in RatesOf(s, moving'.strategy) :
                 /\ \A old \in RatesOf(s, active) : best >= old + DifferentialThreshold
                 /\ \A p \in Range(s.data) : IsCandidate(p) => p.apy <= best]_vars
  BY <1>1 DEF JustifiedBy
<1> QED
  BY <1>2, PoolInvAlways, PTL DEF Spec, MoveJustified
===============================================================================
