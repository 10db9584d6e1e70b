------------------------- MODULE ParentEpochs_proofs -------------------------
(* Proofs about ParentEpochs, for any number of users and epochs, any amounts, *)
(* precisions, losses, yields and fees, and any order of claims.               *)
EXTENDS ParentEpochs, SumsAndQuotients

----------------------------------------------------------------------------
(* The inductive invariant. *)

\* Epochs open, execute and become claimable one after the other.
EpochSequence ==
    \A n \in Nonces :
        /\ n < epochNonce => Closed(n)
        /\ n = epochNonce => epochs[n].status = "OPEN"
        /\ n > epochNonce => /\ epochs[n].status = "NONE"
                             /\ epochs[n].totalDeposit = 0 /\ epochs[n].totalBurn = 0

\* Nothing is claimed of an executing epoch.
ExecutingUntouched ==
    \A n \in Nonces : epochs[n].status = "EXECUTING" =>
        epochs[n].remainingWithdraw = epochs[n].withdrawClaim

\* The shares of epoch n that totalShares counts besides the users' balances: to
\* be minted once it is closed, still to be burnt before.
Counted(n) == IF Closed(n) THEN epochs[n].remainingMint ELSE epochs[n].totalBurn
SharesCounted ==
    totalShares = SumFunction(balance) + SumFunction([n \in Nonces |-> Counted(n)])

\* The pools of an epoch without claims are empty from its closing on.
PoolsEmptyOnceClosed ==
    \A n \in Nonces : Closed(n) =>
        /\ epochs[n].remainingDeposit = 0 => epochs[n].remainingMint = 0
        /\ epochs[n].remainingBurn = 0 => epochs[n].remainingWithdraw = 0

Books == Solvent /\ EscrowCoversWithdrawals /\ SharesCounted

EpochInv ==
    /\ TypeOK
    /\ EpochSequence
    /\ ExecutingUntouched
    /\ Books
    /\ TotalsAreSums
    /\ PoolsEmptyOnceClosed

----------------------------------------------------------------------------
(* What the sums say of their parts. *)

\* The epochs are finitely many.
LEMMA NoncesFinite == IsFiniteSet(Nonces) /\ Nonces \subseteq Nat
BY UserAssumption, FS_Interval DEF Nonces

\* The fields of an epoch record.
LEMMA EpochFields ==
    ASSUME TypeOK, NEW n \in Nonces
    PROVE  /\ epochs[n] \in EpochRecords
           /\ epochs[n].status \in {"NONE", "OPEN", "EXECUTING", "CLAIMABLE"}
           /\ epochs[n].totalDeposit \in Nat /\ epochs[n].totalBurn \in Nat
           /\ epochs[n].withdrawClaim \in Nat
           /\ epochs[n].remainingDeposit \in Nat /\ epochs[n].remainingMint \in Nat
           /\ epochs[n].remainingBurn \in Nat /\ epochs[n].remainingWithdraw \in Nat
BY DEF TypeOK, EpochRecords

\* What is summed over the epochs is natural.
LEMMA PartsNat ==
    ASSUME TypeOK, NEW n \in Nonces
    PROVE  /\ AssetsHeldFor(n) \in Nat /\ Escrowed(n) \in Nat /\ Counted(n) \in Nat
           /\ Queued(n) \in Nat /\ Unclaimed(n) \in Nat /\ SettledBurn(n) \in Nat
BY EpochFields
   DEF AssetsHeldFor, Escrowed, Counted, Queued, Unclaimed, SettledBurn

\* The vault holds at least the assets and shares of any one epoch.
LEMMA PartsCovered ==
    ASSUME TypeOK, Books, NEW n \in Nonces
    PROVE  /\ AssetsHeldFor(n) <= assets
           /\ Escrowed(n) <= escrow
           /\ Counted(n) <= totalShares
<1> DEFINE H == [m \in Nonces |-> AssetsHeldFor(m)]
           E == [m \in Nonces |-> Escrowed(m)]
           C == [m \in Nonces |-> Counted(m)]
<1>1. H \in [Nonces -> Nat] /\ E \in [Nonces -> Nat] /\ C \in [Nonces -> Nat]
  BY PartsNat
<1>2. H[n] = AssetsHeldFor(n) /\ E[n] = Escrowed(n) /\ C[n] = Counted(n)
  OBVIOUS
<1>3. assets = SumFunction(H) /\ escrow = SumFunction(E)
  BY DEF Books, Solvent, EscrowCoversWithdrawals
<1>4. totalShares = SumFunction(balance) + SumFunction(C)
  BY DEF Books, SharesCounted
<1>5. SumFunction(balance) \in Nat
  BY TotalNat, UserAssumption DEF TypeOK
<1> HIDE DEF H, E, C
<1>6. H[n] <= SumFunction(H) /\ E[n] <= SumFunction(E)
  BY <1>1, TotalNat, NoncesFinite
<1>7. C[n] <= SumFunction(C) /\ SumFunction(C) \in Nat /\ C[n] \in Nat
  BY <1>1, TotalNat, NoncesFinite
<1>8. C[n] <= SumFunction(balance) + SumFunction(C)
  BY <1>5, <1>7
<1> QED
  BY <1>2, <1>3, <1>4, <1>6, <1>8

\* The total of an epoch is at least any user's entry in it.
LEMMA EntriesCovered ==
    ASSUME TypeOK, TotalsAreSums, NEW u \in Users, NEW n \in Nonces
    PROVE  deposits[u][n] <= Queued(n) /\ withdraws[u][n] <= Escrowed(n)
<1> DEFINE D == [v \in Users |-> deposits[v][n]]
           W == [v \in Users |-> withdraws[v][n]]
<1>1. D \in [Users -> Nat] /\ W \in [Users -> Nat]
  BY DEF TypeOK
<1>2. D[u] = deposits[u][n] /\ W[u] = withdraws[u][n]
  OBVIOUS
<1>3. SumFunction(D) = Queued(n) /\ SumFunction(W) = Escrowed(n)
  BY DEF TotalsAreSums
<1> HIDE DEF D, W
<1> QED
  BY <1>1, <1>2, <1>3, TotalNat, UserAssumption

\* A step that changes one epoch keeps the books when what it adds to the vault's
\* assets, escrow and shares is what it adds to that epoch.
LEMMA BooksStep ==
    ASSUME TypeOK, TypeOK', Books, NEW n \in Nonces,
           \A m \in Nonces : m # n =>
                /\ AssetsHeldFor(m)' = AssetsHeldFor(m)
                /\ Escrowed(m)' = Escrowed(m)
                /\ Counted(m)' = Counted(m),
           assets' + AssetsHeldFor(n) = assets + AssetsHeldFor(n)',
           escrow' + Escrowed(n) = escrow + Escrowed(n)',
           totalShares' + SumFunction(balance) + Counted(n)
             = totalShares + SumFunction(balance') + Counted(n)'
    PROVE  Books'
<1> DEFINE H == [m \in Nonces |-> AssetsHeldFor(m)]
           E == [m \in Nonces |-> Escrowed(m)]
           C == [m \in Nonces |-> Counted(m)]
<1>1. /\ H \in [Nonces -> Nat] /\ E \in [Nonces -> Nat] /\ C \in [Nonces -> Nat]
  BY PartsNat
<1>2. H' \in [Nonces -> Nat] /\ E' \in [Nonces -> Nat] /\ C' \in [Nonces -> Nat]
  <2>1. \A m \in Nonces : epochs'[m] \in EpochRecords
    BY DEF TypeOK
  <2>2. \A m \in Nonces : /\ AssetsHeldFor(m)' \in Nat
                          /\ Escrowed(m)' \in Nat /\ Counted(m)' \in Nat
    BY <2>1 DEF AssetsHeldFor, Escrowed, Counted, Closed, EpochRecords
  <2> QED
    BY <2>2
<1>3. /\ H[n] = AssetsHeldFor(n) /\ H'[n] = AssetsHeldFor(n)'
      /\ E[n] = Escrowed(n) /\ E'[n] = Escrowed(n)'
      /\ C[n] = Counted(n) /\ C'[n] = Counted(n)'
  OBVIOUS
<1>4. \A m \in Nonces : m # n => H'[m] = H[m] /\ E'[m] = E[m] /\ C'[m] = C[m]
  OBVIOUS
<1>5. assets = SumFunction(H) /\ escrow = SumFunction(E)
  BY DEF Books, Solvent, EscrowCoversWithdrawals
<1>6. totalShares = SumFunction(balance) + SumFunction(C)
  BY DEF Books, SharesCounted
<1>7. /\ SumFunction(balance) \in Nat /\ SumFunction(balance') \in Nat
  BY TotalNat, UserAssumption DEF TypeOK
<1>8. /\ assets \in Nat /\ assets' \in Nat /\ escrow \in Nat /\ escrow' \in Nat
      /\ totalShares \in Nat /\ totalShares' \in Nat
  BY DEF TypeOK
<1>9. assets' = SumFunction(H') /\ escrow' = SumFunction(E')
     /\ totalShares' = SumFunction(balance') + SumFunction(C')
  <2> HIDE DEF H, E, C
  <2>9. IsFiniteSet(Nonces)
    BY NoncesFinite
  <2>1. SumFunction(H') + H[n] = SumFunction(H) + H'[n]
    BY <1>1, <1>2, <1>4, <2>9, TotalUpdate
  <2>7. SumFunction(E') + E[n] = SumFunction(E) + E'[n]
    BY <1>1, <1>2, <1>4, <2>9, TotalUpdate
  <2>8. SumFunction(C') + C[n] = SumFunction(C) + C'[n]
    BY <1>1, <1>2, <1>4, <2>9, TotalUpdate
  <2>2. /\ SumFunction(H) \in Nat /\ SumFunction(H') \in Nat
        /\ SumFunction(E) \in Nat /\ SumFunction(E') \in Nat
        /\ SumFunction(C) \in Nat /\ SumFunction(C') \in Nat
    BY <1>1, <1>2, TotalNat, NoncesFinite
  <2>3. /\ H[n] \in Nat /\ H'[n] \in Nat /\ E[n] \in Nat /\ E'[n] \in Nat
        /\ C[n] \in Nat /\ C'[n] \in Nat
    BY <1>1, <1>2
  <2>4. assets' = SumFunction(H')
    BY <1>3, <1>5, <1>8, <2>1, <2>2, <2>3
  <2>5. escrow' = SumFunction(E')
    BY <1>3, <1>5, <1>8, <2>7, <2>2, <2>3
  <2>6. totalShares' = SumFunction(balance') + SumFunction(C')
    BY <1>3, <1>6, <1>7, <1>8, <2>8, <2>2, <2>3
  <2> QED
    BY <2>4, <2>5, <2>6
<1> QED
  BY <1>9 DEF Books, Solvent, EscrowCoversWithdrawals, SharesCounted

\* A step that changes one user's entries in one epoch keeps the totals when it
\* changes that epoch's totals by as much.
LEMMA TotalsStep ==
    ASSUME TypeOK, TypeOK', TotalsAreSums, NEW u \in Users, NEW n \in Nonces,
           \A v \in Users, m \in Nonces : v # u \/ m # n =>
                /\ deposits'[v][m] = deposits[v][m]
                /\ withdraws'[v][m] = withdraws[v][m],
           \A m \in Nonces : m # n =>
                Queued(m)' = Queued(m) /\ Escrowed(m)' = Escrowed(m),
           Queued(n)' + deposits[u][n] = Queued(n) + deposits'[u][n],
           Escrowed(n)' + withdraws[u][n] = Escrowed(n) + withdraws'[u][n]
    PROVE  TotalsAreSums'
<1>1. ASSUME NEW m \in Nonces, m # n
      PROVE  /\ SumFunction([v \in Users |-> deposits'[v][m]]) = Queued(m)'
             /\ SumFunction([v \in Users |-> withdraws'[v][m]]) = Escrowed(m)'
  <2>1. /\ [v \in Users |-> deposits'[v][m]] = [v \in Users |-> deposits[v][m]]
        /\ [v \in Users |-> withdraws'[v][m]] = [v \in Users |-> withdraws[v][m]]
    BY <1>1
  <2> QED
    BY <1>1, <2>1 DEF TotalsAreSums
<1>2. /\ SumFunction([v \in Users |-> deposits'[v][n]]) = Queued(n)'
      /\ SumFunction([v \in Users |-> withdraws'[v][n]]) = Escrowed(n)'
  <2> DEFINE D == [v \in Users |-> deposits[v][n]]
             W == [v \in Users |-> withdraws[v][n]]
  <2>1. /\ D \in [Users -> Nat] /\ W \in [Users -> Nat]
        /\ D' \in [Users -> Nat] /\ W' \in [Users -> Nat]
    BY DEF TypeOK
  <2>2. SumFunction(D) = Queued(n) /\ SumFunction(W) = Escrowed(n)
    BY DEF TotalsAreSums
  <2>3. \A v \in Users : v # u => D'[v] = D[v] /\ W'[v] = W[v]
    OBVIOUS
  <2>4. /\ D[u] = deposits[u][n] /\ D'[u] = deposits'[u][n]
        /\ W[u] = withdraws[u][n] /\ W'[u] = withdraws'[u][n]
    OBVIOUS
  <2>5. epochs'[n] \in EpochRecords
    BY DEF TypeOK
  <2>6. Queued(n)' \in Nat /\ Escrowed(n)' \in Nat
    BY <2>5 DEF Queued, Escrowed, Closed, EpochRecords
  <2> HIDE DEF D, W
  <2>7. SumFunction(D') + D[u] = SumFunction(D) + D'[u]
    BY <2>1, <2>3, TotalUpdate, UserAssumption
  <2>8. SumFunction(W') + W[u] = SumFunction(W) + W'[u]
    BY <2>1, <2>3, TotalUpdate, UserAssumption
  <2>9. /\ SumFunction(D) \in Nat /\ SumFunction(D') \in Nat
        /\ SumFunction(W) \in Nat /\ SumFunction(W') \in Nat
        /\ D[u] \in Nat /\ D'[u] \in Nat /\ W[u] \in Nat /\ W'[u] \in Nat
    BY <2>1, TotalNat, UserAssumption
  <2>10. SumFunction(D') = Queued(n)' /\ SumFunction(W') = Escrowed(n)'
    BY <2>2, <2>4, <2>6, <2>7, <2>8, <2>9
  <2> QED
    BY <2>10 DEF D, W
<1> QED
  BY <1>1, <1>2 DEF TotalsAreSums

\* The step changes no part of a sum but those of epoch n ...
OthersKept(n) ==
    \A m \in Nonces : m # n =>
        /\ AssetsHeldFor(m)' = AssetsHeldFor(m)
        /\ Escrowed(m)' = Escrowed(m)
        /\ Counted(m)' = Counted(m)
        /\ Queued(m)' = Queued(m)

\* ... and no entry but those of user u in it.
EntriesKept(u, n) ==
    \A v \in Users, m \in Nonces : v # u \/ m # n =>
        /\ deposits'[v][m] = deposits[v][m]
        /\ withdraws'[v][m] = withdraws[v][m]

\* An epoch whose record is left alone keeps its part of every sum.
LEMMA OtherEpochs ==
    ASSUME NEW n, \A m \in Nonces : m # n => epochs'[m] = epochs[m]
    PROVE  OthersKept(n)
BY DEF OthersKept, AssetsHeldFor, Escrowed, Counted, Queued, Closed

----------------------------------------------------------------------------
(* Initially. *)

\* A vault without users, epochs or shares satisfies the invariant.
LEMMA EpochInvInit == Init => EpochInv
<1> SUFFICES ASSUME Init PROVE EpochInv
  OBVIOUS
<1>1. Nonces \subseteq Nat /\ 1 \in Nonces /\ IsFiniteSet(Nonces)
  BY UserAssumption, NoncesFinite DEF Nonces
<1>2. TypeOK
  <2>1. EmptyEpoch \in EpochRecords
    BY DEF EmptyEpoch, EpochRecords
  <2>2. [EmptyEpoch EXCEPT !.status = "OPEN"] \in EpochRecords
    BY DEF EmptyEpoch, EpochRecords
  <2>3. epochs \in [Nonces -> EpochRecords]
    BY <2>1, <2>2 DEF Init
  <2>4. local \in BOOLEAN
    BY DEF Init
  <2>5. /\ epochNonce \in Nonces /\ totalShares \in Nat /\ escrow \in Nat
        /\ assets \in Nat /\ tvl \in Nat
        /\ report \in [epochNonce : Nat, tvl : Nat] /\ earned \in Nat
    BY <1>1 DEF Init
  <2>6. deposits \in [Users -> [Nonces -> Nat]] /\ withdraws \in [Users -> [Nonces -> Nat]]
    BY DEF Init
  <2>7. balance \in [Users -> Nat]
    BY DEF Init
  <2> QED
    BY <2>3, <2>4, <2>5, <2>6, <2>7 DEF TypeOK
<1>3. \A n \in Nonces :
        /\ epochs[n].totalDeposit = 0 /\ epochs[n].totalBurn = 0
        /\ epochs[n].status = IF n = 1 THEN "OPEN" ELSE "NONE"
  BY DEF Init, EmptyEpoch
<1>4. EpochSequence
  BY <1>3, UserAssumption DEF EpochSequence, Init, Nonces
<1>5. ExecutingUntouched /\ PoolsEmptyOnceClosed
  BY <1>3 DEF ExecutingUntouched, PoolsEmptyOnceClosed, Closed
<1>6. \A n \in Nonces :
        /\ AssetsHeldFor(n) = 0 /\ Escrowed(n) = 0 /\ Counted(n) = 0 /\ Queued(n) = 0
  BY <1>3 DEF AssetsHeldFor, Escrowed, Counted, Queued, Closed
<1>7. \A f : f \in [Nonces -> Nat] /\ (\A n \in Nonces : f[n] = 0) => SumFunction(f) = 0
  BY <1>1, TotalZero
<1>8. \A f : f \in [Users -> Nat] /\ (\A u \in Users : f[u] = 0) => SumFunction(f) = 0
  BY UserAssumption, TotalZero
<1>9. Books
  <2>1. SumFunction([n \in Nonces |-> AssetsHeldFor(n)]) = 0
    BY <1>6, <1>7
  <2>2. SumFunction([n \in Nonces |-> Escrowed(n)]) = 0
    BY <1>6, <1>7
  <2>3. SumFunction([n \in Nonces |-> Counted(n)]) = 0
    BY <1>6, <1>7
  <2>4. SumFunction(balance) = 0
    BY <1>8 DEF Init
  <2> QED
    BY <2>1, <2>2, <2>3, <2>4
    DEF Books, Solvent, EscrowCoversWithdrawals, SharesCounted, Init
<1>10. TotalsAreSums
  <2> SUFFICES ASSUME NEW n \in Nonces
               PROVE  /\ SumFunction([u \in Users |-> deposits[u][n]]) = 0
                      /\ SumFunction([u \in Users |-> withdraws[u][n]]) = 0
    BY <1>6 DEF TotalsAreSums
  <2>1. /\ \A u \in Users : deposits[u][n] = 0
        /\ \A u \in Users : withdraws[u][n] = 0
    BY DEF Init
  <2>2. SumFunction([u \in Users |-> deposits[u][n]]) = 0
    BY <1>8, <2>1
  <2>3. SumFunction([u \in Users |-> withdraws[u][n]]) = 0
    BY <1>8, <2>1
  <2> QED
    BY <2>2, <2>3
<1> QED
  BY <1>2, <1>4, <1>5, <1>9, <1>10 DEF EpochInv

----------------------------------------------------------------------------
(* Steps on one epoch. *)

\* What a step on one epoch has to add up to for books and totals to be kept.
LEMMA OneEpochStep ==
    ASSUME EpochInv, TypeOK', NEW n \in Nonces, NEW u \in Users,
           OthersKept(n), EntriesKept(u, n),
           assets' + AssetsHeldFor(n) = assets + AssetsHeldFor(n)',
           escrow' + Escrowed(n) = escrow + Escrowed(n)',
           totalShares' + SumFunction(balance) + Counted(n)
             = totalShares + SumFunction(balance') + Counted(n)',
           Queued(n)' + deposits[u][n] = Queued(n) + deposits'[u][n],
           Escrowed(n)' + withdraws[u][n] = Escrowed(n) + withdraws'[u][n]
    PROVE  Books' /\ TotalsAreSums'
<1>1. TypeOK /\ Books /\ TotalsAreSums
  BY DEF EpochInv
<1>2. Books'
  BY <1>1, BooksStep DEF OthersKept
<1>3. TotalsAreSums'
  BY <1>1, TotalsStep DEF OthersKept, EntriesKept
<1> QED
  BY <1>2, <1>3

\* The sum of the balances when one of them changes.
LEMMA BalanceStep ==
    ASSUME TypeOK, TypeOK', NEW p \in Users, \A v \in Users : v # p => balance'[v] = balance[v]
    PROVE  /\ SumFunction(balance) \in Nat /\ SumFunction(balance') \in Nat
           /\ balance[p] \in Nat /\ balance'[p] \in Nat
           /\ SumFunction(balance') + balance[p] = SumFunction(balance) + balance'[p]
<1>1. balance \in [Users -> Nat] /\ balance' \in [Users -> Nat] /\ IsFiniteSet(Users)
  BY UserAssumption DEF TypeOK
<1>2. SumFunction(balance') + balance[p] = SumFunction(balance) + balance'[p]
  BY <1>1, TotalUpdate
<1> QED
  BY <1>1, <1>2, TotalNat

\* The sequence of the epochs only depends on their status and on what the ones
\* that are not open yet have queued.
LEMMA SequenceKept ==
    ASSUME EpochSequence, UNCHANGED epochNonce,
           \A m \in Nonces : m # epochNonce =>
                /\ epochs'[m].totalDeposit = epochs[m].totalDeposit
                /\ epochs'[m].totalBurn = epochs[m].totalBurn,
           \A m \in Nonces : \/ epochs'[m].status = epochs[m].status
                             \/ epochs[m].status = "EXECUTING" /\ epochs'[m].status = "CLAIMABLE"
    PROVE  EpochSequence'
BY DEF EpochSequence, Closed

----------------------------------------------------------------------------
(* The queue. *)

\* A deposit.
LEMMA DepositStep ==
    ASSUME EpochInv, NEW u \in Users, NEW amount \in Nat, Deposit(u, amount)
    PROVE  EpochInv'
<1> USE DEF EpochInv
<1>1. PICK n \in Nonces : n = epochNonce
  BY DEF TypeOK
<1> DEFINE e == epochs[n]
           d == [e EXCEPT !.totalDeposit = e.totalDeposit + amount]
<1>2. /\ e.status = "OPEN" /\ e \in EpochRecords
      /\ e.totalDeposit \in Nat /\ deposits[u][n] \in Nat
  BY <1>1, EpochFields DEF EpochSequence, TypeOK
<1>3. d \in EpochRecords
  BY <1>2 DEF EpochRecords
<1>4. epochs' = [epochs EXCEPT ![n] = d]
  BY <1>1 DEF Deposit
<1>5. /\ epochs' \in [Nonces -> EpochRecords]
      /\ epochs'[n] = d
      /\ \A m \in Nonces : m # n => epochs'[m] = epochs[m]
  BY <1>3, <1>4 DEF TypeOK
<1>6. /\ epochs'[n].status = "OPEN"
      /\ epochs'[n].totalDeposit = e.totalDeposit + amount
      /\ epochs'[n].totalBurn = e.totalBurn
  BY <1>2, <1>5 DEF EpochRecords
<1>7. TypeOK'
  BY <1>1, <1>5 DEF TypeOK, Deposit, shareVars, strategyVars, reportVars
<1>8. EpochSequence'
  BY <1>1, <1>2, <1>5, <1>6, SequenceKept DEF Deposit
<1>9. ExecutingUntouched' /\ PoolsEmptyOnceClosed'
  BY <1>5, <1>6 DEF ExecutingUntouched, PoolsEmptyOnceClosed, Closed
<1>10. /\ AssetsHeldFor(n) = e.totalDeposit
       /\ AssetsHeldFor(n)' = e.totalDeposit + amount
       /\ Queued(n) = e.totalDeposit /\ Queued(n)' = e.totalDeposit + amount
       /\ Escrowed(n)' = Escrowed(n) /\ Counted(n)' = Counted(n)
  BY <1>2, <1>6 DEF AssetsHeldFor, Queued, Escrowed, Counted, Closed
<1>11. Books' /\ TotalsAreSums'
  <2>1. EntriesKept(u, n)
    BY <1>1 DEF Deposit, TypeOK, EntriesKept
  <2>2. assets' + AssetsHeldFor(n) = assets + AssetsHeldFor(n)'
    BY <1>2, <1>10 DEF Deposit, TypeOK
  <2>3. /\ escrow' + Escrowed(n) = escrow + Escrowed(n)'
        /\ totalShares' + SumFunction(balance) + Counted(n)
             = totalShares + SumFunction(balance') + Counted(n)'
        /\ Escrowed(n)' + withdraws[u][n] = Escrowed(n) + withdraws'[u][n]
    BY <1>10 DEF Deposit, shareVars
  <2>4. Queued(n)' + deposits[u][n] = Queued(n) + deposits'[u][n]
    BY <1>1, <1>2, <1>10 DEF Deposit, TypeOK
  <2>5. OthersKept(n)
    BY <1>5, OtherEpochs
  <2> QED
    BY <1>7, <2>1, <2>2, <2>3, <2>4, <2>5, OneEpochStep
<1> QED
  BY <1>7, <1>8, <1>9, <1>11

\* A cancelled deposit: the totals cover the entry, and the assets the totals.
LEMMA CancelDepositStep ==
    ASSUME EpochInv, NEW u \in Users, CancelDeposit(u)
    PROVE  EpochInv'
<1> USE DEF EpochInv
<1>1. PICK n \in Nonces : n = epochNonce
  BY DEF TypeOK
<1> DEFINE e == epochs[n]
           amount == deposits[u][n]
           d == [e EXCEPT !.totalDeposit = e.totalDeposit - amount]
<1>2. /\ e.status = "OPEN" /\ e \in EpochRecords
      /\ e.totalDeposit \in Nat /\ amount \in Nat
  BY <1>1, EpochFields DEF EpochSequence, TypeOK
<1>3. AssetsHeldFor(n) = e.totalDeposit /\ Queued(n) = e.totalDeposit
  BY <1>2 DEF AssetsHeldFor, Queued, Closed
<1>4. amount <= e.totalDeposit /\ e.totalDeposit <= assets
  BY <1>3, EntriesCovered, PartsCovered
<1>5. e.totalDeposit - amount \in Nat /\ assets - amount \in Nat
  BY <1>2, <1>4 DEF TypeOK
<1>6. d \in EpochRecords
  BY <1>2, <1>5 DEF EpochRecords
<1>7. epochs' = [epochs EXCEPT ![n] = d]
  BY <1>1 DEF CancelDeposit
<1>8. /\ epochs' \in [Nonces -> EpochRecords]
      /\ epochs'[n] = d
      /\ \A m \in Nonces : m # n => epochs'[m] = epochs[m]
  BY <1>6, <1>7 DEF TypeOK
<1>9. /\ epochs'[n].status = "OPEN"
      /\ epochs'[n].totalDeposit = e.totalDeposit - amount
      /\ epochs'[n].totalBurn = e.totalBurn
  BY <1>2, <1>8 DEF EpochRecords
<1>10. assets' = assets - amount /\ deposits' = [deposits EXCEPT ![u][n] = 0]
  BY <1>1 DEF CancelDeposit
<1>11. TypeOK'
  BY <1>5, <1>8, <1>10 DEF TypeOK, CancelDeposit, shareVars, strategyVars, reportVars
<1>12. EpochSequence'
  BY <1>1, <1>2, <1>8, <1>9, SequenceKept DEF CancelDeposit
<1>13. ExecutingUntouched' /\ PoolsEmptyOnceClosed'
  BY <1>8, <1>9 DEF ExecutingUntouched, PoolsEmptyOnceClosed, Closed
<1>14. /\ AssetsHeldFor(n)' = e.totalDeposit - amount
       /\ Queued(n)' = e.totalDeposit - amount
       /\ Escrowed(n)' = Escrowed(n) /\ Counted(n)' = Counted(n)
  BY <1>2, <1>9 DEF AssetsHeldFor, Queued, Escrowed, Counted, Closed
<1>15. Books' /\ TotalsAreSums'
  <2>1. EntriesKept(u, n)
    BY <1>10 DEF CancelDeposit, TypeOK, EntriesKept
  <2>2. assets' + AssetsHeldFor(n) = assets + AssetsHeldFor(n)'
    BY <1>2, <1>3, <1>10, <1>14 DEF TypeOK
  <2>3. /\ escrow' + Escrowed(n) = escrow + Escrowed(n)'
        /\ totalShares' + SumFunction(balance) + Counted(n)
             = totalShares + SumFunction(balance') + Counted(n)'
        /\ Escrowed(n)' + withdraws[u][n] = Escrowed(n) + withdraws'[u][n]
    BY <1>14 DEF CancelDeposit, shareVars
  <2>4. Queued(n)' + deposits[u][n] = Queued(n) + deposits'[u][n]
    <3>1. deposits'[u][n] = 0
      BY <1>10 DEF TypeOK
    <3> QED
      BY <1>2, <1>3, <1>14, <3>1
  <2>5. OthersKept(n)
    BY <1>8, OtherEpochs
  <2> QED
    BY <1>11, <2>1, <2>2, <2>3, <2>4, <2>5, OneEpochStep
<1> QED
  BY <1>11, <1>12, <1>13, <1>15

\* A queued withdrawal moves shares from the payer's balance to the escrow.
LEMMA WithdrawStep ==
    ASSUME EpochInv, NEW p \in Users, NEW u \in Users, NEW amount \in Nat,
           Withdraw(p, u, amount)
    PROVE  EpochInv'
<1> USE DEF EpochInv
<1>1. PICK n \in Nonces : n = epochNonce
  BY DEF TypeOK
<1> DEFINE e == epochs[n]
           d == [e EXCEPT !.totalBurn = e.totalBurn + amount]
<1>2. /\ e.status = "OPEN" /\ e \in EpochRecords
      /\ e.totalBurn \in Nat /\ withdraws[u][n] \in Nat /\ balance[p] \in Nat
  BY <1>1, EpochFields DEF EpochSequence, TypeOK
<1>3. d \in EpochRecords
  BY <1>2 DEF EpochRecords
<1>4. epochs' = [epochs EXCEPT ![n] = d]
  BY <1>1 DEF Withdraw
<1>5. /\ epochs' \in [Nonces -> EpochRecords]
      /\ epochs'[n] = d
      /\ \A m \in Nonces : m # n => epochs'[m] = epochs[m]
  BY <1>3, <1>4 DEF TypeOK
<1>6. /\ epochs'[n].status = "OPEN"
      /\ epochs'[n].totalDeposit = e.totalDeposit
      /\ epochs'[n].totalBurn = e.totalBurn + amount
  BY <1>2, <1>5 DEF EpochRecords
<1>7. /\ balance' = [balance EXCEPT ![p] = balance[p] - amount]
      /\ balance[p] - amount \in Nat
      /\ withdraws' = [withdraws EXCEPT ![u][n] = withdraws[u][n] + amount]
      /\ escrow' = escrow + amount
  BY <1>1, <1>2 DEF Withdraw
<1>8. TypeOK'
  BY <1>2, <1>5, <1>7 DEF TypeOK, Withdraw, strategyVars, reportVars
<1>9. EpochSequence'
  BY <1>1, <1>2, <1>5, <1>6, SequenceKept DEF Withdraw
<1>10. ExecutingUntouched' /\ PoolsEmptyOnceClosed'
  BY <1>5, <1>6 DEF ExecutingUntouched, PoolsEmptyOnceClosed, Closed
<1>11. /\ Escrowed(n) = e.totalBurn /\ Escrowed(n)' = e.totalBurn + amount
       /\ Counted(n) = e.totalBurn /\ Counted(n)' = e.totalBurn + amount
       /\ AssetsHeldFor(n)' = AssetsHeldFor(n) /\ Queued(n)' = Queued(n)
  BY <1>2, <1>6 DEF AssetsHeldFor, Queued, Escrowed, Counted, Closed
<1>12. Books' /\ TotalsAreSums'
  <2>1. EntriesKept(u, n)
    BY <1>7 DEF Withdraw, TypeOK, EntriesKept
  <2>2. /\ assets' + AssetsHeldFor(n) = assets + AssetsHeldFor(n)'
        /\ Queued(n)' + deposits[u][n] = Queued(n) + deposits'[u][n]
    BY <1>11 DEF Withdraw
  <2>3. escrow' + Escrowed(n) = escrow + Escrowed(n)'
    BY <1>2, <1>7, <1>11 DEF TypeOK
  <2>4. Escrowed(n)' + withdraws[u][n] = Escrowed(n) + withdraws'[u][n]
    <3>1. withdraws'[u][n] = withdraws[u][n] + amount
      BY <1>7 DEF TypeOK
    <3> QED
      BY <1>2, <1>11, <3>1
  <2>5. OthersKept(n)
    BY <1>5, OtherEpochs
  <2>6. totalShares' + SumFunction(balance) + Counted(n)
          = totalShares + SumFunction(balance') + Counted(n)'
    <3>1. \A v \in Users : v # p => balance'[v] = balance[v]
      BY <1>7 DEF TypeOK
    <3>2. balance'[p] = balance[p] - amount
      BY <1>7 DEF TypeOK
    <3>3. totalShares' = totalShares /\ totalShares \in Nat
      BY DEF Withdraw, TypeOK
    <3>4. /\ SumFunction(balance) \in Nat /\ SumFunction(balance') \in Nat
          /\ SumFunction(balance') + balance[p] = SumFunction(balance) + balance'[p]
      BY <1>8, <3>1, BalanceStep
    <3> QED
      BY <1>2, <1>11, <3>2, <3>3, <3>4
  <2> QED
    BY <1>8, <2>1, <2>2, <2>3, <2>4, <2>5, <2>6, OneEpochStep
<1> QED
  BY <1>8, <1>9, <1>10, <1>12

\* A cancelled withdrawal: the escrow covers it.
LEMMA CancelWithdrawStep ==
    ASSUME EpochInv, NEW u \in Users, CancelWithdraw(u)
    PROVE  EpochInv'
<1> USE DEF EpochInv
<1>1. PICK n \in Nonces : n = epochNonce
  BY DEF TypeOK
<1> DEFINE e == epochs[n]
           amount == withdraws[u][n]
           d == [e EXCEPT !.totalBurn = e.totalBurn - amount]
<1>2. /\ e.status = "OPEN" /\ e \in EpochRecords
      /\ e.totalBurn \in Nat /\ amount \in Nat /\ balance[u] \in Nat
  BY <1>1, EpochFields DEF EpochSequence, TypeOK
<1>3. Escrowed(n) = e.totalBurn /\ Counted(n) = e.totalBurn
  BY <1>2 DEF Escrowed, Counted, Closed
<1>4. amount <= e.totalBurn /\ e.totalBurn <= escrow
  BY <1>3, EntriesCovered, PartsCovered
<1>5. e.totalBurn - amount \in Nat /\ escrow - amount \in Nat
  BY <1>2, <1>4 DEF TypeOK
<1>6. d \in EpochRecords
  BY <1>2, <1>5 DEF EpochRecords
<1>7. epochs' = [epochs EXCEPT ![n] = d]
  BY <1>1 DEF CancelWithdraw
<1>8. /\ epochs' \in [Nonces -> EpochRecords]
      /\ epochs'[n] = d
      /\ \A m \in Nonces : m # n => epochs'[m] = epochs[m]
  BY <1>6, <1>7 DEF TypeOK
<1>9. /\ epochs'[n].status = "OPEN"
      /\ epochs'[n].totalDeposit = e.totalDeposit
      /\ epochs'[n].totalBurn = e.totalBurn - amount
  BY <1>2, <1>8 DEF EpochRecords
<1>10. /\ escrow' = escrow - amount /\ withdraws' = [withdraws EXCEPT ![u][n] = 0]
       /\ balance' = [balance EXCEPT ![u] = balance[u] + amount]
  BY <1>1 DEF CancelWithdraw
<1>11. TypeOK'
  BY <1>2, <1>5, <1>8, <1>10 DEF TypeOK, CancelWithdraw, strategyVars, reportVars
<1>12. EpochSequence'
  BY <1>1, <1>2, <1>8, <1>9, SequenceKept DEF CancelWithdraw
<1>13. ExecutingUntouched' /\ PoolsEmptyOnceClosed'
  BY <1>8, <1>9 DEF ExecutingUntouched, PoolsEmptyOnceClosed, Closed
<1>14. /\ Escrowed(n)' = e.totalBurn - amount /\ Counted(n)' = e.totalBurn - amount
       /\ AssetsHeldFor(n)' = AssetsHeldFor(n) /\ Queued(n)' = Queued(n)
  BY <1>2, <1>9 DEF AssetsHeldFor, Queued, Escrowed, Counted, Closed
<1>15. Books' /\ TotalsAreSums'
  <2>1. EntriesKept(u, n)
    BY <1>10 DEF CancelWithdraw, TypeOK, EntriesKept
  <2>2. /\ assets' + AssetsHeldFor(n) = assets + AssetsHeldFor(n)'
        /\ Queued(n)' + deposits[u][n] = Queued(n) + deposits'[u][n]
    BY <1>14 DEF CancelWithdraw
  <2>3. escrow' + Escrowed(n) = escrow + Escrowed(n)'
    BY <1>2, <1>3, <1>10, <1>14 DEF TypeOK
  <2>4. Escrowed(n)' + withdraws[u][n] = Escrowed(n) + withdraws'[u][n]
    <3>1. withdraws'[u][n] = 0
      BY <1>10 DEF TypeOK
    <3> QED
      BY <1>2, <1>3, <1>14, <3>1
  <2>5. OthersKept(n)
    BY <1>8, OtherEpochs
  <2>6. totalShares' + SumFunction(balance) + Counted(n)
          = totalShares + SumFunction(balance') + Counted(n)'
    <3>1. \A v \in Users : v # u => balance'[v] = balance[v]
      BY <1>10 DEF TypeOK
    <3>2. balance'[u] = balance[u] + amount
      BY <1>10 DEF TypeOK
    <3>3. totalShares' = totalShares /\ totalShares \in Nat
      BY DEF CancelWithdraw, TypeOK
    <3>4. /\ SumFunction(balance) \in Nat /\ SumFunction(balance') \in Nat
          /\ SumFunction(balance') + balance[u] = SumFunction(balance) + balance'[u]
      BY <1>11, <3>1, BalanceStep
    <3> QED
      BY <1>2, <1>3, <1>14, <3>2, <3>3, <3>4
  <2> QED
    BY <1>11, <2>1, <2>2, <2>3, <2>4, <2>5, <2>6, OneEpochStep
<1> QED
  BY <1>11, <1>12, <1>13, <1>15

----------------------------------------------------------------------------
(* Completion of a remote epoch. *)

\* A share of a pool, given to a claim of at most all the claims, is at most the
\* pool, the whole of it for the last claim, and never more than pro rata.
LEMMA ProRataBounds ==
    ASSUME NEW claim \in Nat \ {0}, NEW pool \in Nat, NEW claims \in Nat, claim <= claims
    PROVE  /\ ProRata(claim, pool, claims) \in Nat
           /\ ProRata(claim, pool, claims) <= pool
           /\ claim = claims => ProRata(claim, pool, claims) = pool
           /\ ProRata(claim, pool, claims) * claims <= claim * pool
<1>1. claims \in Nat \ {0}
  OBVIOUS
<1>2. claim * pool \in Nat
  BY ProductNat
<1>3. CASE claim = claims
  <2>1. pool * claims <= claims * pool
    OBVIOUS
  <2> QED
    BY <1>3, <2>1 DEF ProRata
<1>4. CASE claim # claims
  BY <1>1, <1>2, <1>4, PartOfPool, QuotientBounds DEF ProRata, MulDivDown
<1> QED
  BY <1>3, <1>4

\* A completed deposit: what is short is taken off the epoch's shares and off the
\* share count alike.
LEMMA CompleteEpochDepositStep ==
    ASSUME EpochInv, CompleteEpochDeposit
    PROVE  EpochInv'
<1> USE DEF EpochInv
<1>1. PICK n \in Nonces : n = epochNonce - 1
  BY UserAssumption DEF TypeOK, CompleteEpochDeposit, Nonces
<1> DEFINE e == epochs[n]
<1>2. /\ e.status = "EXECUTING" /\ e \in EpochRecords
      /\ e.totalDeposit \in Nat /\ e.withdrawClaim \in Nat /\ e.remainingMint \in Nat
      /\ e.withdrawClaim < e.totalDeposit
      /\ e.remainingWithdraw = e.withdrawClaim
  BY <1>1, EpochFields DEF CompleteEpochDeposit, ExecutingUntouched
<1>3. PICK mint \in Nat, actual \in Nat :
        /\ mint <= e.remainingMint
        /\ epochs' = [epochs EXCEPT ![n].status = "CLAIMABLE", ![n].remainingMint = mint]
        /\ totalShares' = totalShares - (e.remainingMint - mint)
        /\ tvl' = tvl + actual
  <2> DEFINE expected == e.totalDeposit - e.withdrawClaim
             Mint(a) == IF a = expected THEN e.remainingMint
                        ELSE AdjustedShares(e.remainingMint, e.totalDeposit, expected - a)
  <2>1. PICK a \in Arriving(expected) :
          /\ epochs' = [epochs EXCEPT ![n].status = "CLAIMABLE", ![n].remainingMint = Mint(a)]
          /\ totalShares' = totalShares - (e.remainingMint - Mint(a))
          /\ tvl' = tvl + a
    BY <1>1 DEF CompleteEpochDeposit
  <2>2. a \in Nat /\ a <= expected /\ expected \in Nat
    BY <1>2 DEF Arriving
  <2>3. Mint(a) \in Nat /\ Mint(a) <= e.remainingMint
    <3>1. CASE a = expected
      BY <1>2, <3>1
    <3>2. CASE a # expected
      <4>1. PICK x \in Nat, y \in Nat, z \in Nat \ {0} :
              /\ x = e.totalDeposit - (expected - a) /\ y = e.remainingMint
              /\ z = e.totalDeposit /\ x <= z
        BY <1>2, <2>2
      <4>2. Mint(a) = (y * x) \div z
        BY <3>2, <4>1 DEF AdjustedShares, MulDivDown
      <4>3. y * x = x * y
        OBVIOUS
      <4>4. (x * y) \div z \in Nat /\ (x * y) \div z <= y
        BY <4>1, PartOfPool
      <4> HIDE DEF EpochInv, e, expected, Mint
      <4>5. Mint(a) = (x * y) \div z
        BY <4>2, <4>3
      <4> QED
        BY <4>1, <4>4, <4>5
    <3> QED
      BY <3>1, <3>2
  <2> QED
    BY <2>1, <2>2, <2>3
<1> DEFINE d == [e EXCEPT !.status = "CLAIMABLE", !.remainingMint = mint]
<1>4. d \in EpochRecords
  BY <1>2 DEF EpochRecords
<1>5. epochs' = [epochs EXCEPT ![n] = d]
  BY <1>3 DEF TypeOK
<1>6. /\ epochs' \in [Nonces -> EpochRecords]
      /\ epochs'[n] = d
      /\ \A m \in Nonces : m # n => epochs'[m] = epochs[m]
  BY <1>4, <1>5 DEF TypeOK
<1>7. /\ epochs'[n].status = "CLAIMABLE" /\ epochs'[n].remainingMint = mint
      /\ epochs'[n].totalDeposit = e.totalDeposit /\ epochs'[n].totalBurn = e.totalBurn
      /\ epochs'[n].remainingDeposit = e.remainingDeposit
      /\ epochs'[n].remainingBurn = e.remainingBurn
      /\ epochs'[n].remainingWithdraw = e.remainingWithdraw
  BY <1>2, <1>6 DEF EpochRecords
<1>8. /\ AssetsHeldFor(n) = e.withdrawClaim /\ AssetsHeldFor(n)' = e.withdrawClaim
      /\ Counted(n) = e.remainingMint /\ Counted(n)' = mint
      /\ Escrowed(n)' = Escrowed(n) /\ Queued(n)' = Queued(n)
  BY <1>2, <1>7 DEF AssetsHeldFor, Queued, Escrowed, Counted, Closed
<1>9. e.remainingMint <= totalShares
  BY <1>8, PartsCovered
<1>10. totalShares' \in Nat /\ tvl' \in Nat /\ totalShares' + e.remainingMint = totalShares + mint
  BY <1>2, <1>3, <1>9 DEF TypeOK
<1>11. TypeOK'
  BY <1>6, <1>10 DEF TypeOK, CompleteEpochDeposit, queueVars, shareVars, reportVars
<1>12. EpochSequence'
  BY <1>2, <1>6, <1>7, SequenceKept DEF CompleteEpochDeposit
<1>13. ExecutingUntouched'
  BY <1>6, <1>7 DEF ExecutingUntouched
<1>14. PoolsEmptyOnceClosed'
  BY <1>2, <1>3, <1>6, <1>7 DEF PoolsEmptyOnceClosed, Closed
<1>15. Books' /\ TotalsAreSums'
  <2>1. EntriesKept(Treasury, n)
    BY DEF CompleteEpochDeposit, EntriesKept, queueVars
  <2>2. /\ assets' + AssetsHeldFor(n) = assets + AssetsHeldFor(n)'
        /\ escrow' + Escrowed(n) = escrow + Escrowed(n)'
        /\ Queued(n)' + deposits[Treasury][n] = Queued(n) + deposits'[Treasury][n]
        /\ Escrowed(n)' + withdraws[Treasury][n] = Escrowed(n) + withdraws'[Treasury][n]
    BY <1>8 DEF CompleteEpochDeposit, queueVars, shareVars
  <2>3. totalShares' + SumFunction(balance) + Counted(n)
          = totalShares + SumFunction(balance') + Counted(n)'
    <3>1. balance' = balance
      BY DEF CompleteEpochDeposit, shareVars
    <3>2. SumFunction(balance) \in Nat
      BY TotalNat, UserAssumption DEF TypeOK
    <3>3. totalShares \in Nat
      BY DEF TypeOK
    <3> HIDE DEF EpochInv
    <3> QED
      BY <1>2, <1>8, <1>10, <3>1, <3>2, <3>3
  <2>4. OthersKept(n)
    BY <1>6, OtherEpochs
  <2>5. Treasury \in Users
    BY UserAssumption
  <2> QED
    BY <1>11, <2>1, <2>2, <2>3, <2>4, <2>5, OneEpochStep
<1> QED
  BY <1>11, <1>12, <1>13, <1>14, <1>15

\* A completed withdrawal: what came back is what is owed to the epoch.
LEMMA HandleEpochNetWithdrawStep ==
    ASSUME EpochInv, HandleEpochNetWithdraw
    PROVE  EpochInv'
<1> USE DEF EpochInv
<1>1. PICK n \in Nonces : n = epochNonce - 1
  BY UserAssumption DEF TypeOK, HandleEpochNetWithdraw, Nonces
<1> DEFINE e == epochs[n]
           expected == e.withdrawClaim - e.totalDeposit
<1>2. /\ e.status = "EXECUTING" /\ e \in EpochRecords
      /\ e.totalDeposit \in Nat /\ e.withdrawClaim \in Nat
      /\ e.totalDeposit < e.withdrawClaim /\ expected <= tvl
      /\ e.remainingWithdraw = e.withdrawClaim
  BY <1>1, EpochFields DEF HandleEpochNetWithdraw, ExecutingUntouched
<1>3. PICK received \in Arriving(expected) :
        /\ epochs' = [epochs EXCEPT ![n].status = "CLAIMABLE",
                                    ![n].withdrawClaim = e.totalDeposit + received,
                                    ![n].remainingWithdraw = e.totalDeposit + received]
        /\ assets' = assets + received
  BY <1>1 DEF HandleEpochNetWithdraw
<1>4. received \in Nat /\ tvl' \in Nat
  <2>1. tvl' = tvl - expected
    BY <1>1 DEF HandleEpochNetWithdraw
  <2> QED
    BY <1>2, <2>1 DEF Arriving, TypeOK
<1> DEFINE d == [e EXCEPT !.status = "CLAIMABLE",
                          !.withdrawClaim = e.totalDeposit + received,
                          !.remainingWithdraw = e.totalDeposit + received]
<1>5. d \in EpochRecords
  <2>1. e.totalDeposit + received \in Nat
    BY <1>2, <1>4
  <2> HIDE DEF e
  <2> QED
    BY <1>2, <2>1 DEF EpochRecords
<1>6. epochs' = [epochs EXCEPT ![n] = d]
  BY <1>3 DEF TypeOK
<1>7. /\ epochs' \in [Nonces -> EpochRecords]
      /\ epochs'[n] = d
      /\ \A m \in Nonces : m # n => epochs'[m] = epochs[m]
  BY <1>5, <1>6 DEF TypeOK
<1>8. /\ epochs'[n].status = "CLAIMABLE"
      /\ epochs'[n].totalDeposit = e.totalDeposit /\ epochs'[n].totalBurn = e.totalBurn
      /\ epochs'[n].remainingDeposit = e.remainingDeposit
      /\ epochs'[n].remainingMint = e.remainingMint
      /\ epochs'[n].remainingBurn = e.remainingBurn
      /\ epochs'[n].remainingWithdraw = e.totalDeposit + received
  BY <1>2, <1>7 DEF EpochRecords
<1>9. /\ AssetsHeldFor(n) = e.totalDeposit
      /\ AssetsHeldFor(n)' = e.totalDeposit + received
      /\ Counted(n)' = Counted(n) /\ Escrowed(n)' = Escrowed(n) /\ Queued(n)' = Queued(n)
  BY <1>2, <1>8 DEF AssetsHeldFor, Queued, Escrowed, Counted, Closed
<1>10. TypeOK'
  BY <1>3, <1>4, <1>7 DEF TypeOK, HandleEpochNetWithdraw, queueVars, shareVars, reportVars
<1>11. EpochSequence'
  BY <1>2, <1>7, <1>8, SequenceKept DEF HandleEpochNetWithdraw
<1>12. ExecutingUntouched'
  BY <1>7, <1>8 DEF ExecutingUntouched
<1>13. PoolsEmptyOnceClosed'
  <2>1. e.remainingBurn # 0 /\ (e.remainingDeposit = 0 => e.remainingMint = 0)
    BY <1>2 DEF PoolsEmptyOnceClosed, Closed
  <2>2. /\ epochs'[n].remainingDeposit = 0 => epochs'[n].remainingMint = 0
        /\ epochs'[n].remainingBurn = 0 => epochs'[n].remainingWithdraw = 0
    BY <1>8, <2>1
  <2>3. ASSUME NEW m \in Nonces, m # n, Closed(m)'
        PROVE  /\ epochs'[m].remainingDeposit = 0 => epochs'[m].remainingMint = 0
               /\ epochs'[m].remainingBurn = 0 => epochs'[m].remainingWithdraw = 0
    <3>1. epochs'[m] = epochs[m] /\ Closed(m)
      BY <1>7, <2>3 DEF Closed
    <3> HIDE DEF EpochInv
    <3>2. PoolsEmptyOnceClosed
      BY DEF EpochInv
    <3> QED
      BY <3>1, <3>2 DEF PoolsEmptyOnceClosed
  <2> HIDE DEF e, EpochInv
  <2> QED
    BY <2>2, <2>3 DEF PoolsEmptyOnceClosed
<1>14. Books' /\ TotalsAreSums'
  <2>1. EntriesKept(Treasury, n)
    BY DEF HandleEpochNetWithdraw, EntriesKept, queueVars
  <2>2. assets' + AssetsHeldFor(n) = assets + AssetsHeldFor(n)'
    BY <1>2, <1>3, <1>4, <1>9 DEF TypeOK
  <2>3. /\ escrow' + Escrowed(n) = escrow + Escrowed(n)'
        /\ Queued(n)' + deposits[Treasury][n] = Queued(n) + deposits'[Treasury][n]
        /\ Escrowed(n)' + withdraws[Treasury][n] = Escrowed(n) + withdraws'[Treasury][n]
        /\ totalShares' + SumFunction(balance) + Counted(n)
             = totalShares + SumFunction(balance') + Counted(n)'
    BY <1>9 DEF HandleEpochNetWithdraw, queueVars, shareVars
  <2>4. OthersKept(n)
    BY <1>7, OtherEpochs
  <2>5. Treasury \in Users
    BY UserAssumption
  <2> QED
    BY <1>10, <2>1, <2>2, <2>3, <2>4, <2>5, OneEpochStep
<1> QED
  BY <1>10, <1>11, <1>12, <1>13, <1>14

----------------------------------------------------------------------------
(* Claims. *)

\* A claim of shares: the pool has what the claimant is minted, and the last
\* claimant leaves none.
LEMMA ClaimSharesStep ==
    ASSUME EpochInv, NEW u \in Users, NEW n \in Nonces, ClaimShares(u, n)
    PROVE  EpochInv'
<1> USE DEF EpochInv
<1> DEFINE e == epochs[n]
           claim == deposits[u][n]
           minted == ProRata(claim, e.remainingMint, e.remainingDeposit)
           d == [e EXCEPT !.remainingDeposit = e.remainingDeposit - claim,
                          !.remainingMint = e.remainingMint - minted]
<1>1. /\ e.status = "CLAIMABLE" /\ e \in EpochRecords
      /\ e.remainingDeposit \in Nat /\ e.remainingMint \in Nat /\ claim \in Nat \ {0}
      /\ balance[u] \in Nat
  BY EpochFields DEF ClaimShares, TypeOK
<1>2. Queued(n) = e.remainingDeposit /\ Counted(n) = e.remainingMint
  BY <1>1 DEF Queued, Counted, Closed
<1>3. claim <= e.remainingDeposit
  BY <1>2, EntriesCovered
<1>4. /\ minted \in Nat /\ minted <= e.remainingMint
      /\ claim = e.remainingDeposit => minted = e.remainingMint
  BY <1>1, <1>3, ProRataBounds
<1>5. e.remainingDeposit - claim \in Nat /\ e.remainingMint - minted \in Nat
  <2> HIDE DEF minted
  <2> QED
    BY <1>1, <1>3, <1>4
<1>6. /\ epochs' = [epochs EXCEPT ![n] = d]
      /\ deposits' = [deposits EXCEPT ![u][n] = 0]
      /\ balance' = [balance EXCEPT ![u] = balance[u] + minted]
  BY DEF ClaimShares, TypeOK
<1> HIDE DEF minted
<1>7. d \in EpochRecords
  BY <1>1, <1>5 DEF EpochRecords
<1>8. /\ epochs' \in [Nonces -> EpochRecords]
      /\ epochs'[n] = d
      /\ \A m \in Nonces : m # n => epochs'[m] = epochs[m]
  BY <1>6, <1>7 DEF TypeOK
<1>9. /\ epochs'[n].status = "CLAIMABLE"
      /\ epochs'[n].totalDeposit = e.totalDeposit /\ epochs'[n].totalBurn = e.totalBurn
      /\ epochs'[n].remainingDeposit = e.remainingDeposit - claim
      /\ epochs'[n].remainingMint = e.remainingMint - minted
      /\ epochs'[n].remainingBurn = e.remainingBurn
      /\ epochs'[n].remainingWithdraw = e.remainingWithdraw
  BY <1>1, <1>8 DEF EpochRecords
<1>10. /\ Queued(n)' = e.remainingDeposit - claim /\ Counted(n)' = e.remainingMint - minted
       /\ AssetsHeldFor(n)' = AssetsHeldFor(n) /\ Escrowed(n)' = Escrowed(n)
  BY <1>1, <1>9 DEF AssetsHeldFor, Queued, Escrowed, Counted, Closed
<1>11. TypeOK'
  BY <1>1, <1>4, <1>6, <1>8 DEF TypeOK, ClaimShares, strategyVars, reportVars
<1>12. EpochSequence'
  BY <1>1, <1>8, <1>9, SequenceKept DEF ClaimShares
<1>13. ExecutingUntouched'
  BY <1>8, <1>9 DEF ExecutingUntouched
<1>14. PoolsEmptyOnceClosed'
  <2>1. e.remainingDeposit - claim = 0 => e.remainingMint - minted = 0
    BY <1>1, <1>4
  <2>2. e.remainingBurn = 0 => e.remainingWithdraw = 0
    BY <1>1 DEF PoolsEmptyOnceClosed, Closed
  <2>3. ASSUME NEW m \in Nonces, m # n
        PROVE  Closed(m)' => /\ epochs'[m].remainingDeposit = 0 => epochs'[m].remainingMint = 0
                             /\ epochs'[m].remainingBurn = 0 => epochs'[m].remainingWithdraw = 0
    BY <1>8, <2>3 DEF PoolsEmptyOnceClosed, Closed
  <2> QED
    BY <1>9, <2>1, <2>2, <2>3 DEF PoolsEmptyOnceClosed
<1>15. Books' /\ TotalsAreSums'
  <2>1. EntriesKept(u, n)
    BY <1>6 DEF ClaimShares, TypeOK, EntriesKept
  <2>2. /\ assets' + AssetsHeldFor(n) = assets + AssetsHeldFor(n)'
        /\ escrow' + Escrowed(n) = escrow + Escrowed(n)'
        /\ Escrowed(n)' + withdraws[u][n] = Escrowed(n) + withdraws'[u][n]
    BY <1>10 DEF ClaimShares
  <2>3. Queued(n)' + claim = Queued(n) + deposits'[u][n]
    <3>1. deposits'[u][n] = 0
      BY <1>6 DEF TypeOK
    <3> QED
      BY <1>1, <1>2, <1>10, <3>1
  <2>4. OthersKept(n)
    BY <1>8, OtherEpochs
  <2>5. totalShares' + SumFunction(balance) + Counted(n)
          = totalShares + SumFunction(balance') + Counted(n)'
    <3>1. \A v \in Users : v # u => balance'[v] = balance[v]
      BY <1>6 DEF TypeOK
    <3>2. balance'[u] = balance[u] + minted
      BY <1>6 DEF TypeOK
    <3>3. totalShares' = totalShares /\ totalShares \in Nat
      BY DEF ClaimShares, TypeOK
    <3>4. /\ SumFunction(balance) \in Nat /\ SumFunction(balance') \in Nat
          /\ SumFunction(balance') + balance[u] = SumFunction(balance) + balance'[u]
      BY <1>11, <3>1, BalanceStep
    <3> QED
      BY <1>1, <1>2, <1>4, <1>10, <3>2, <3>3, <3>4
  <2> QED
    BY <1>11, <2>1, <2>2, <2>3, <2>4, <2>5, OneEpochStep
<1> QED
  BY <1>11, <1>12, <1>13, <1>14, <1>15

\* A claim of assets: the vault holds what the claimant is paid and escrows the
\* shares it burns.
LEMMA ClaimAssetStep ==
    ASSUME EpochInv, NEW u \in Users, NEW n \in Nonces, ClaimAsset(u, n)
    PROVE  EpochInv'
<1> USE DEF EpochInv
<1> DEFINE e == epochs[n]
           claim == withdraws[u][n]
           paid == ProRata(claim, e.remainingWithdraw, e.remainingBurn)
           d == [e EXCEPT !.remainingBurn = e.remainingBurn - claim,
                          !.remainingWithdraw = e.remainingWithdraw - paid]
<1>1. /\ e.status = "CLAIMABLE" /\ e \in EpochRecords
      /\ e.remainingBurn \in Nat /\ e.remainingWithdraw \in Nat /\ claim \in Nat \ {0}
  BY EpochFields DEF ClaimAsset, TypeOK
<1>2. Escrowed(n) = e.remainingBurn /\ AssetsHeldFor(n) = e.remainingWithdraw
  BY <1>1 DEF Escrowed, AssetsHeldFor, Closed
<1>3. claim <= e.remainingBurn /\ e.remainingBurn <= escrow /\ e.remainingWithdraw <= assets
  BY <1>2, EntriesCovered, PartsCovered
<1>4. /\ paid \in Nat /\ paid <= e.remainingWithdraw
      /\ claim = e.remainingBurn => paid = e.remainingWithdraw
  BY <1>1, <1>3, ProRataBounds
<1>5. /\ e.remainingBurn - claim \in Nat /\ e.remainingWithdraw - paid \in Nat
      /\ escrow - claim \in Nat /\ assets - paid \in Nat
  <2>1. assets \in Nat /\ escrow \in Nat
    BY DEF TypeOK
  <2> HIDE DEF paid
  <2> QED
    BY <1>1, <1>3, <1>4, <2>1
<1>6. /\ epochs' = [epochs EXCEPT ![n] = d]
      /\ withdraws' = [withdraws EXCEPT ![u][n] = 0]
      /\ escrow' = escrow - claim
      /\ assets' = assets - paid
  BY DEF ClaimAsset, TypeOK
<1> HIDE DEF paid
<1>7. d \in EpochRecords
  BY <1>1, <1>5 DEF EpochRecords
<1>8. /\ epochs' \in [Nonces -> EpochRecords]
      /\ epochs'[n] = d
      /\ \A m \in Nonces : m # n => epochs'[m] = epochs[m]
  BY <1>6, <1>7 DEF TypeOK
<1>9. /\ epochs'[n].status = "CLAIMABLE"
      /\ epochs'[n].totalDeposit = e.totalDeposit /\ epochs'[n].totalBurn = e.totalBurn
      /\ epochs'[n].remainingDeposit = e.remainingDeposit
      /\ epochs'[n].remainingMint = e.remainingMint
      /\ epochs'[n].remainingBurn = e.remainingBurn - claim
      /\ epochs'[n].remainingWithdraw = e.remainingWithdraw - paid
  BY <1>1, <1>8 DEF EpochRecords
<1>10. /\ Escrowed(n)' = e.remainingBurn - claim
       /\ AssetsHeldFor(n)' = e.remainingWithdraw - paid
       /\ Counted(n)' = Counted(n) /\ Queued(n)' = Queued(n)
  BY <1>1, <1>9 DEF AssetsHeldFor, Queued, Escrowed, Counted, Closed
<1>11. TypeOK'
  BY <1>5, <1>6, <1>8 DEF TypeOK, ClaimAsset, strategyVars, reportVars
<1>12. EpochSequence'
  BY <1>1, <1>8, <1>9, SequenceKept DEF ClaimAsset
<1>13. ExecutingUntouched'
  BY <1>8, <1>9 DEF ExecutingUntouched
<1>14. PoolsEmptyOnceClosed'
  <2>1. e.remainingBurn - claim = 0 => e.remainingWithdraw - paid = 0
    BY <1>1, <1>4
  <2>2. e.remainingDeposit = 0 => e.remainingMint = 0
    BY <1>1 DEF PoolsEmptyOnceClosed, Closed
  <2>3. ASSUME NEW m \in Nonces, m # n
        PROVE  Closed(m)' => /\ epochs'[m].remainingDeposit = 0 => epochs'[m].remainingMint = 0
                             /\ epochs'[m].remainingBurn = 0 => epochs'[m].remainingWithdraw = 0
    BY <1>8, <2>3 DEF PoolsEmptyOnceClosed, Closed
  <2> QED
    BY <1>9, <2>1, <2>2, <2>3 DEF PoolsEmptyOnceClosed
<1>15. Books' /\ TotalsAreSums'
  <2>1. EntriesKept(u, n)
    BY <1>6 DEF ClaimAsset, TypeOK, EntriesKept
  <2>2. /\ Queued(n)' + deposits[u][n] = Queued(n) + deposits'[u][n]
        /\ totalShares' + SumFunction(balance) + Counted(n)
             = totalShares + SumFunction(balance') + Counted(n)'
    BY <1>10 DEF ClaimAsset
  <2>3. assets' + AssetsHeldFor(n) = assets + AssetsHeldFor(n)'
    BY <1>1, <1>2, <1>4, <1>6, <1>10 DEF TypeOK
  <2>4. escrow' + Escrowed(n) = escrow + Escrowed(n)'
    BY <1>1, <1>2, <1>6, <1>10 DEF TypeOK
  <2>5. Escrowed(n)' + claim = Escrowed(n) + withdraws'[u][n]
    <3>1. withdraws'[u][n] = 0
      BY <1>6 DEF TypeOK
    <3> QED
      BY <1>1, <1>2, <1>10, <3>1
  <2>6. OthersKept(n)
    BY <1>8, OtherEpochs
  <2> QED
    BY <1>11, <2>1, <2>2, <2>3, <2>4, <2>5, <2>6, OneEpochStep
<1> QED
  BY <1>11, <1>12, <1>13, <1>14, <1>15

----------------------------------------------------------------------------
(* Closing an epoch. *)

\* What closing writes keeps the invariant, whatever the price, when the vault's
\* assets change from the queued deposits to what is owed to the withdrawals.
LEMMA SettleStep ==
    ASSUME EpochInv, NEW n \in Nonces, n = epochNonce, n < MaxEpochNonce,
           NEW st \in {"EXECUTING", "CLAIMABLE"}, NEW w \in Nat, NEW mint \in Nat,
           epochs' = SettledEpochs(st, w, mint), epochNonce' = epochNonce + 1,
           epochs[n].totalDeposit = 0 => mint = 0,
           epochs[n].totalBurn = 0 => w = 0,
           totalShares' = totalShares + mint - epochs[n].totalBurn,
           assets' \in Nat, tvl' \in Nat, local' \in BOOLEAN,
           assets' + epochs[n].totalDeposit
             = assets + (IF st = "EXECUTING" /\ epochs[n].totalDeposit < w
                         THEN epochs[n].totalDeposit ELSE w),
           earned' = 0, UNCHANGED <<queueVars, shareVars, report>>
    PROVE  EpochInv'
<1> USE DEF EpochInv
<1>1. PICK k \in Nonces : k = n + 1
  BY UserAssumption DEF Nonces
<1> DEFINE e == epochs[n]
           c == [e EXCEPT !.status = st, !.withdrawClaim = w,
                          !.remainingDeposit = e.totalDeposit, !.remainingMint = mint,
                          !.remainingBurn = e.totalBurn, !.remainingWithdraw = w]
           o == [epochs[k] EXCEPT !.status = "OPEN"]
<1>2. /\ e.status = "OPEN" /\ e \in EpochRecords
      /\ e.totalDeposit \in Nat /\ e.totalBurn \in Nat
  BY EpochFields DEF EpochSequence
<1>3. n # k /\ n < k
  BY <1>1, NoncesFinite
<1>4. /\ epochs[k].status = "NONE" /\ epochs[k] \in EpochRecords
      /\ epochs[k].totalDeposit = 0 /\ epochs[k].totalBurn = 0
  BY <1>3, EpochFields DEF EpochSequence
<1>5. c \in EpochRecords /\ o \in EpochRecords
  BY <1>2, <1>4 DEF EpochRecords
<1>6. epochs' = [[epochs EXCEPT ![n] = c] EXCEPT ![k] = o]
  BY <1>1, <1>3 DEF SettledEpochs, TypeOK
<1>7. /\ epochs' \in [Nonces -> EpochRecords]
      /\ epochs'[n] = c /\ epochs'[k] = o
      /\ \A m \in Nonces : m # n /\ m # k => epochs'[m] = epochs[m]
  BY <1>3, <1>5, <1>6 DEF TypeOK
<1>8. /\ epochs'[n].status = st /\ epochs'[n].withdrawClaim = w
      /\ epochs'[n].totalDeposit = e.totalDeposit
      /\ epochs'[n].remainingDeposit = e.totalDeposit /\ epochs'[n].remainingMint = mint
      /\ epochs'[n].remainingBurn = e.totalBurn /\ epochs'[n].remainingWithdraw = w
  BY <1>2, <1>7 DEF EpochRecords
<1>9. /\ epochs'[k].status = "OPEN"
      /\ epochs'[k].totalDeposit = 0 /\ epochs'[k].totalBurn = 0
  BY <1>4, <1>7 DEF EpochRecords
<1>10. /\ AssetsHeldFor(n) = e.totalDeposit
       /\ AssetsHeldFor(n)' = IF st = "EXECUTING" /\ e.totalDeposit < w
                              THEN e.totalDeposit ELSE w
       /\ Escrowed(n) = e.totalBurn /\ Escrowed(n)' = e.totalBurn
       /\ Counted(n) = e.totalBurn /\ Counted(n)' = mint
       /\ Queued(n) = e.totalDeposit /\ Queued(n)' = e.totalDeposit
  BY <1>2, <1>8 DEF AssetsHeldFor, Queued, Escrowed, Counted, Closed
<1>11. e.totalBurn <= totalShares
  BY <1>10, PartsCovered
<1>12. totalShares' \in Nat /\ totalShares' + e.totalBurn = totalShares + mint
  BY <1>2, <1>11 DEF TypeOK
<1>13. TypeOK'
  <2>1. epochNonce' \in Nonces
    BY <1>1
  <2> QED
    BY <1>7, <1>12, <2>1 DEF TypeOK, queueVars, shareVars
<1>14. EpochSequence'
  <2> SUFFICES ASSUME NEW m \in Nonces
               PROVE  /\ m < k => Closed(m)'
                      /\ m = k => epochs'[m].status = "OPEN"
                      /\ m > k => /\ epochs'[m].status = "NONE"
                                  /\ epochs'[m].totalDeposit = 0 /\ epochs'[m].totalBurn = 0
    BY <1>1 DEF EpochSequence
  <2>4. m \in Nat /\ n \in Nat /\ k \in Nat
    BY NoncesFinite
  <2>1. CASE m = n
    BY <1>3, <1>8, <2>1, <2>4 DEF Closed
  <2>2. CASE m = k
    <3>1. ~(m < k) /\ ~(m > k)
      BY <2>2, <2>4
    <3> QED
      BY <1>9, <2>2, <3>1
  <2>3. CASE m # n /\ m # k
    <3>1. epochs'[m] = epochs[m]
      BY <1>7, <2>3
    <3>2. m < n \/ m > k
      BY <1>1, <2>3, <2>4
    <3>3. CASE m < n
      BY <1>1, <2>4, <3>1, <3>3 DEF EpochSequence, Closed
    <3>4. CASE m > k
      <4>1. m > n /\ ~(m < k) /\ m # k
        BY <1>3, <2>4, <3>4
      <4> QED
        BY <3>1, <4>1 DEF EpochSequence
    <3> QED
      BY <3>2, <3>3, <3>4
  <2> QED
    BY <2>1, <2>2, <2>3
<1>15. ExecutingUntouched' /\ PoolsEmptyOnceClosed'
  <2>1. \A m \in Nonces : m = n \/ m = k \/ epochs'[m] = epochs[m]
    BY <1>7
  <2> HIDE DEF e, c, o
  <2>2. ExecutingUntouched'
    BY <1>8, <1>9, <2>1 DEF ExecutingUntouched
  <2>3. ASSUME NEW m \in Nonces, Closed(m)'
        PROVE  /\ epochs'[m].remainingDeposit = 0 => epochs'[m].remainingMint = 0
               /\ epochs'[m].remainingBurn = 0 => epochs'[m].remainingWithdraw = 0
    <3>1. CASE m = n
      BY <1>8, <3>1 DEF e
    <3>2. CASE m = k
      BY <1>9, <2>3, <3>2 DEF Closed
    <3>3. CASE epochs'[m] = epochs[m]
      BY <2>3, <3>3 DEF PoolsEmptyOnceClosed, Closed
    <3> QED
      BY <2>1, <3>1, <3>2, <3>3
  <2> QED
    BY <2>2, <2>3 DEF PoolsEmptyOnceClosed
<1>16. Books' /\ TotalsAreSums'
  <2>1. EntriesKept(Treasury, n)
    BY DEF EntriesKept, queueVars
  <2>2. assets' + AssetsHeldFor(n) = assets + AssetsHeldFor(n)'
    BY <1>10
  <2>3. /\ escrow' + Escrowed(n) = escrow + Escrowed(n)'
        /\ Queued(n)' + deposits[Treasury][n] = Queued(n) + deposits'[Treasury][n]
        /\ Escrowed(n)' + withdraws[Treasury][n] = Escrowed(n) + withdraws'[Treasury][n]
    BY <1>10 DEF queueVars, shareVars
  <2>4. totalShares' + SumFunction(balance) + Counted(n)
          = totalShares + SumFunction(balance') + Counted(n)'
    <3>1. balance' = balance
      BY DEF shareVars
    <3>2. SumFunction(balance) \in Nat
      BY TotalNat, UserAssumption DEF TypeOK
    <3> QED
      BY <1>2, <1>10, <1>12, <3>1, <3>2 DEF TypeOK
  <2>5. OthersKept(n)
    <3> SUFFICES ASSUME NEW m \in Nonces, m # n
                 PROVE  /\ AssetsHeldFor(m)' = AssetsHeldFor(m)
                        /\ Escrowed(m)' = Escrowed(m)
                        /\ Counted(m)' = Counted(m)
                        /\ Queued(m)' = Queued(m)
      BY DEF OthersKept
    <3>1. CASE m = k
      <4>1. epochs[m].status = "NONE" /\ epochs[m].totalDeposit = 0 /\ epochs[m].totalBurn = 0
        BY <1>4, <3>1
      <4>2. /\ epochs'[m].status = "OPEN"
            /\ epochs'[m].totalDeposit = 0 /\ epochs'[m].totalBurn = 0
        BY <1>9, <3>1
      <4> QED
        BY <4>1, <4>2 DEF AssetsHeldFor, Escrowed, Counted, Queued, Closed
    <3>2. CASE m # k
      <4>1. epochs'[m] = epochs[m]
        BY <1>7, <3>2
      <4> QED
        BY <4>1 DEF AssetsHeldFor, Escrowed, Counted, Queued, Closed
    <3> QED
      BY <3>1, <3>2
  <2>6. Treasury \in Users
    BY UserAssumption
  <2> QED
    BY <1>13, <2>1, <2>2, <2>3, <2>4, <2>5, <2>6, OneEpochStep
<1> QED
  BY <1>13, <1>14, <1>15, <1>16

\* What an epoch is priced at: pro rata up to a rounding down, and nothing for nothing.
LEMMA Pricing ==
    ASSUME NEW d \in Nat, NEW b \in Nat, NEW v \in Nat, NEW s \in Nat, s # 0 => v # 0
    PROVE  /\ NewShares(d, v, s) \in Nat /\ TotalWithdraw(b, v, s) \in Nat
           /\ d = 0 => NewShares(d, v, s) = 0
           /\ b = 0 => TotalWithdraw(b, v, s) = 0
           /\ s # 0 => /\ NewShares(d, v, s) * v <= d * s
                       /\ d * s < NewShares(d, v, s) * v + v
                       /\ TotalWithdraw(b, v, s) * s <= b * v
                       /\ b * v < TotalWithdraw(b, v, s) * s + s
<1>1. /\ SharePrecision \in Nat \ {0} /\ AssetPrecision \in Nat \ {0}
  BY PrecisionAssumption
<1>2. \A x \in Nat \ {0} : 0 \div x = 0
  <2> SUFFICES ASSUME NEW x \in Nat \ {0} PROVE 0 \div x = 0
    OBVIOUS
  <2>1. 0 \div x \in Nat /\ 0 \div x <= 0
    BY QuotientBounds, QuotientAtMost
  <2> QED
    BY <2>1
<1>3. /\ d * SharePrecision \in Nat /\ d * s \in Nat /\ b * v \in Nat
      /\ 0 * SharePrecision = 0 /\ 0 * s = 0 /\ 0 * v = 0
  BY <1>1, ProductNat
<1>4. CASE s = 0
  BY <1>1, <1>2, <1>3, <1>4, QuotientBounds DEF NewShares, TotalWithdraw, MulDivDown
<1>5. CASE s # 0
  <2>1. s \in Nat \ {0} /\ v \in Nat \ {0}
    BY <1>5
  <2>2. /\ NewShares(d, v, s) = (d * s) \div v
        /\ TotalWithdraw(b, v, s) = (b * v) \div s
    BY <1>5 DEF NewShares, TotalWithdraw, MulDivDown
  <2>3. /\ (d * s) \div v \in Nat /\ ((d * s) \div v) * v <= d * s
        /\ d * s < ((d * s) \div v) * v + v
    BY <1>3, <2>1, QuotientBounds
  <2>4. /\ (b * v) \div s \in Nat /\ ((b * v) \div s) * s <= b * v
        /\ b * v < ((b * v) \div s) * s + s
    BY <1>3, <2>1, QuotientBounds
  <2>5. (d = 0 => (d * s) \div v = 0) /\ (b = 0 => (b * v) \div s = 0)
    BY <1>2, <1>3, <2>1
  <2> QED
    BY <2>2, <2>3, <2>4, <2>5
<1> QED
  BY <1>4, <1>5

\* Closing: nothing moves, deposits go out, or withdrawals come in, at once or later.
LEMMA CloseEpochStep ==
    ASSUME EpochInv, CloseEpoch
    PROVE  EpochInv'
<1> USE DEF EpochInv
<1>1. PICK n \in Nonces : n = epochNonce
  BY DEF TypeOK
<1> DEFINE e == epochs[n]
<1>2. e.totalDeposit \in Nat /\ e.totalBurn \in Nat /\ e.status = "OPEN"
  BY <1>1, EpochFields DEF EpochSequence
<1>3. assets \in Nat /\ tvl \in Nat /\ report.tvl \in Nat /\ totalShares \in Nat
  BY DEF TypeOK
<1>4. totalShares # 0 => report.tvl # 0
  BY DEF CloseEpoch, SettlementAllowed
<1>5. PICK w \in Nat, mint \in Nat :
        /\ w = TotalWithdraw(e.totalBurn, report.tvl, totalShares)
        /\ mint = NewShares(e.totalDeposit, report.tvl, totalShares)
        /\ e.totalDeposit = 0 => mint = 0
        /\ e.totalBurn = 0 => w = 0
  <2>1. PICK d \in Nat, b \in Nat, v \in Nat, s \in Nat :
          d = e.totalDeposit /\ b = e.totalBurn /\ v = report.tvl /\ s = totalShares
    BY <1>2, <1>3
  <2>2. s # 0 => v # 0
    BY <1>4, <2>1
  <2>3. /\ NewShares(d, v, s) \in Nat /\ TotalWithdraw(b, v, s) \in Nat
        /\ d = 0 => NewShares(d, v, s) = 0
        /\ b = 0 => TotalWithdraw(b, v, s) = 0
    BY <2>2, Pricing
  <2> QED
    BY <2>1, <2>3
<1>6. /\ n < MaxEpochNonce
      /\ epochNonce' = epochNonce + 1
      /\ totalShares' = totalShares + mint - e.totalBurn
      /\ earned' = 0 /\ UNCHANGED <<queueVars, shareVars, report>>
      /\ \/ NothingMoves(e.totalDeposit, w, mint)
         \/ NetDeposit(e.totalDeposit, w, mint)
         \/ LocalNetWithdraw(e.totalDeposit, w, mint)
         \/ RemoteNetWithdraw(e.totalDeposit, w, mint)
  BY <1>1, <1>5 DEF CloseEpoch
<1>7. e.totalDeposit <= assets
  <2>1. AssetsHeldFor(n) = e.totalDeposit
    BY <1>2 DEF AssetsHeldFor
  <2> QED
    BY <2>1, PartsCovered
<1>8. local \in BOOLEAN
  BY DEF TypeOK
<1>9. CASE NothingMoves(e.totalDeposit, w, mint)
  <2>1. /\ epochs' = SettledEpochs("CLAIMABLE", w, mint) /\ w = e.totalDeposit
        /\ assets' = assets /\ tvl' = tvl /\ local' = local
    BY <1>9 DEF NothingMoves, strategyVars
  <2>2. assets' + e.totalDeposit
          = assets + (IF "CLAIMABLE" = "EXECUTING" /\ e.totalDeposit < w
                      THEN e.totalDeposit ELSE w)
    BY <1>3, <2>1
  <2> QED
    BY <1>1, <1>3, <1>5, <1>6, <1>8, <2>1, <2>2, SettleStep
<1>10. CASE NetDeposit(e.totalDeposit, w, mint)
  <2>1. PICK st \in {"EXECUTING", "CLAIMABLE"} : st = IF local THEN "CLAIMABLE" ELSE "EXECUTING"
    OBVIOUS
  <2>2. /\ epochs' = SettledEpochs(st, w, mint) /\ w < e.totalDeposit
        /\ assets' = assets - (e.totalDeposit - w) /\ local' = local
        /\ tvl' = IF local THEN tvl + (e.totalDeposit - w) ELSE tvl
    BY <1>10, <2>1 DEF NetDeposit
  <2>3. e.totalDeposit - w \in Nat /\ assets' \in Nat
    BY <1>2, <1>3, <1>7, <2>2
  <2>4. tvl + (e.totalDeposit - w) \in Nat
    BY <1>3, <2>3
  <2>5. tvl' \in Nat
    BY <1>3, <2>2, <2>4
  <2>6. assets' + e.totalDeposit
          = assets + (IF st = "EXECUTING" /\ e.totalDeposit < w THEN e.totalDeposit ELSE w)
    BY <1>2, <1>3, <2>2
  <2>7. local' \in BOOLEAN
    BY <1>8, <2>2
  <2> QED
    BY <1>1, <1>5, <1>6, <2>2, <2>3, <2>5, <2>6, <2>7, SettleStep
<1>11. CASE LocalNetWithdraw(e.totalDeposit, w, mint)
  <2>1. PICK a \in Arriving(w - e.totalDeposit) :
          /\ epochs' = SettledEpochs("CLAIMABLE", e.totalDeposit + a, mint)
          /\ assets' = assets + a
    BY <1>11 DEF LocalNetWithdraw
  <2>2. /\ w > e.totalDeposit /\ w - e.totalDeposit <= tvl
        /\ tvl' = tvl - (w - e.totalDeposit) /\ local' = local
    BY <1>11 DEF LocalNetWithdraw
  <2>3. a \in Nat
    BY <1>2, <2>2 DEF Arriving
  <2>4. PICK paid \in Nat : paid = e.totalDeposit + a
    BY <1>2, <2>3
  <2>5. epochs' = SettledEpochs("CLAIMABLE", paid, mint)
    BY <2>1, <2>4
  <2>6. assets' \in Nat /\ tvl' \in Nat /\ (e.totalBurn = 0 => paid = 0)
    BY <1>2, <1>3, <1>5, <2>1, <2>2, <2>3
  <2>7. assets' + e.totalDeposit
          = assets + (IF "CLAIMABLE" = "EXECUTING" /\ e.totalDeposit < paid
                      THEN e.totalDeposit ELSE paid)
    BY <1>2, <1>3, <2>1, <2>3, <2>4
  <2>8. local' \in BOOLEAN
    BY <1>8, <2>2
  <2> QED
    BY <1>1, <1>5, <1>6, <2>5, <2>6, <2>7, <2>8, SettleStep
<1>12. CASE RemoteNetWithdraw(e.totalDeposit, w, mint)
  <2>1. /\ epochs' = SettledEpochs("EXECUTING", w, mint) /\ w > e.totalDeposit
        /\ assets' = assets /\ tvl' = tvl /\ local' = local
    BY <1>12 DEF RemoteNetWithdraw, strategyVars
  <2>2. assets' + e.totalDeposit
          = assets + (IF "EXECUTING" = "EXECUTING" /\ e.totalDeposit < w
                      THEN e.totalDeposit ELSE w)
    BY <1>2, <1>3, <2>1
  <2> QED
    BY <1>1, <1>3, <1>5, <1>6, <1>8, <2>1, <2>2, SettleStep
<1> QED
  BY <1>6, <1>9, <1>10, <1>11, <1>12

----------------------------------------------------------------------------
(* The strategy. *)

\* A step that leaves the epochs and the queues alone.
LEMMA EpochsAlone ==
    ASSUME EpochInv, TypeOK', UNCHANGED <<epochNonce, epochs, queueVars, escrow, assets>>,
           totalShares' + SumFunction(balance) = totalShares + SumFunction(balance')
    PROVE  EpochInv'
<1> USE DEF EpochInv
<1>1. PICK n \in Nonces : n = epochNonce
  BY DEF TypeOK
<1>2. \A m \in Nonces : epochs'[m] = epochs[m]
  OBVIOUS
<1>3. EpochSequence' /\ ExecutingUntouched' /\ PoolsEmptyOnceClosed'
  BY <1>2 DEF EpochSequence, ExecutingUntouched, PoolsEmptyOnceClosed, Closed
<1>4. /\ AssetsHeldFor(n)' = AssetsHeldFor(n) /\ Escrowed(n)' = Escrowed(n)
      /\ Counted(n)' = Counted(n) /\ Queued(n)' = Queued(n)
  BY DEF AssetsHeldFor, Escrowed, Counted, Queued, Closed
<1>5. /\ SumFunction(balance) \in Nat /\ SumFunction(balance') \in Nat
      /\ totalShares \in Nat /\ totalShares' \in Nat
  BY TotalNat, UserAssumption DEF TypeOK
<1>6. totalShares' + SumFunction(balance) + Counted(n)
        = totalShares + SumFunction(balance') + Counted(n)'
  <2>1. Counted(n) \in Nat
    BY PartsNat
  <2> QED
    BY <1>4, <1>5, <2>1
<1>7. /\ assets' + AssetsHeldFor(n) = assets + AssetsHeldFor(n)'
      /\ escrow' + Escrowed(n) = escrow + Escrowed(n)'
      /\ Queued(n)' + deposits[Treasury][n] = Queued(n) + deposits'[Treasury][n]
      /\ Escrowed(n)' + withdraws[Treasury][n] = Escrowed(n) + withdraws'[Treasury][n]
  BY <1>4 DEF queueVars
<1>8. OthersKept(n) /\ EntriesKept(Treasury, n) /\ Treasury \in Users
  BY <1>2, OtherEpochs, UserAssumption DEF EntriesKept, queueVars
<1> QED
  BY <1>3, <1>6, <1>7, <1>8, OneEpochStep

\* The fee is a natural number of shares.
LEMMA FeeNat ==
    ASSUME NEW s \in Nat, NEW elapsed \in Nat
    PROVE  FeeShares(s, elapsed) \in Nat
<1> DEFINE y == 100 * (IF elapsed > 365 THEN 365 ELSE elapsed)
<1>1. FeeShares(s, elapsed) = (s * y + 10000 * 365 - 1) \div (10000 * 365)
  BY DEF FeeShares, MulDivUp, ManagementFeeBps, BpsDenominator, DaysPerYear
<1>2. y \in Nat
  OBVIOUS
<1> HIDE DEF y
<1>3. PICK p \in Nat : p = s * y
  BY <1>2, ProductNat
<1>4. p + 10000 * 365 - 1 \in Nat /\ 10000 * 365 \in Nat \ {0}
  OBVIOUS
<1> QED
  BY <1>1, <1>3, <1>4, QuotientBounds

\* A rebalance mints the fee to the treasury and counts it.
LEMMA FinalizeRebalanceStep ==
    ASSUME EpochInv, NEW elapsed \in Nat, NEW isLocal \in BOOLEAN,
           FinalizeRebalance(elapsed, isLocal)
    PROVE  EpochInv'
<1> USE DEF EpochInv
<1>1. PICK fee \in Nat : fee = FeeShares(totalShares, elapsed)
  <2>1. PICK s \in Nat : s = totalShares
    BY DEF TypeOK
  <2> QED
    BY <2>1, FeeNat
<1>2. /\ totalShares' = totalShares + fee
      /\ balance' = [balance EXCEPT ![Treasury] = balance[Treasury] + fee]
      /\ tvl' \in Arriving(tvl)
      /\ UNCHANGED <<epochNonce, epochs, queueVars, escrow, assets>>
  BY <1>1 DEF FinalizeRebalance
<1>3. Treasury \in Users /\ balance[Treasury] \in Nat /\ totalShares \in Nat
  BY UserAssumption DEF TypeOK
<1>4. /\ tvl' \in Nat /\ totalShares' \in Nat /\ balance' \in [Users -> Nat]
      /\ balance'[Treasury] = balance[Treasury] + fee
      /\ \A v \in Users : v # Treasury => balance'[v] = balance[v]
  BY <1>2, <1>3 DEF Arriving, TypeOK
<1>5. local' \in BOOLEAN
  BY DEF FinalizeRebalance
<1>6. TypeOK'
  <2>1. report' = report /\ earned' = earned
    BY DEF FinalizeRebalance, reportVars
  <2> QED
    BY <1>2, <1>4, <1>5, <2>1 DEF TypeOK, queueVars
<1>7. /\ SumFunction(balance) \in Nat /\ SumFunction(balance') \in Nat
      /\ SumFunction(balance') + balance[Treasury]
           = SumFunction(balance) + balance'[Treasury]
  BY <1>3, <1>4, <1>6, BalanceStep
<1>8. totalShares' + SumFunction(balance) = totalShares + SumFunction(balance')
  BY <1>2, <1>3, <1>4, <1>7
<1> QED
  BY <1>2, <1>6, <1>8, EpochsAlone

\* Yield touches the value of the strategy alone.
LEMMA YieldAccruesStep ==
    ASSUME EpochInv, YieldAccrues
    PROVE  EpochInv'
<1>1. tvl' \in Nat /\ earned' \in Nat
  <2>1. tvl \in Nat /\ earned \in Nat /\ MaxTvl \in Nat
    BY UserAssumption DEF EpochInv, TypeOK
  <2>2. PICK v \in (tvl + 1)..MaxTvl : tvl' = v
    BY DEF YieldAccrues
  <2>3. v \in Nat /\ tvl <= v
    BY <2>1
  <2>4. earned' = earned + (v - tvl) \/ earned' = earned
    BY <2>2 DEF YieldAccrues
  <2>5. earned' \in Nat
    BY <2>1, <2>3, <2>4
  <2> QED
    BY <2>2, <2>3, <2>5
<1>2. TypeOK'
  BY <1>1 DEF EpochInv, TypeOK, YieldAccrues, epochVars, queueVars, shareVars
<1>3. UNCHANGED <<epochNonce, epochs, queueVars, escrow, assets, totalShares, balance>>
  BY DEF YieldAccrues, epochVars, queueVars, shareVars
<1> QED
  BY <1>2, <1>3, EpochsAlone

\* A reading touches the report alone.
LEMMA OnEpochCronTriggerStep ==
    ASSUME EpochInv, OnEpochCronTrigger
    PROVE  EpochInv'
<1>1. epochNonce \in Nat /\ tvl \in Nat
  BY NoncesFinite DEF EpochInv, TypeOK
<1>2. report' \in [epochNonce : Nat, tvl : Nat] /\ earned' \in Nat
  BY <1>1 DEF OnEpochCronTrigger
<1>3. UNCHANGED <<epochVars, queueVars, shareVars, assets, strategyVars>>
  BY DEF OnEpochCronTrigger
<1>4. TypeOK'
  BY <1>2, <1>3 DEF EpochInv, TypeOK, epochVars, queueVars, shareVars, strategyVars
<1>5. UNCHANGED <<epochNonce, epochs, queueVars, escrow, assets, totalShares, balance>>
  BY <1>3 DEF epochVars, queueVars, shareVars
<1> QED
  BY <1>4, <1>5, EpochsAlone

\* Nothing happens.
LEMMA EpochStutter ==
    ASSUME EpochInv, UNCHANGED vars
    PROVE  EpochInv'
<1>1. UNCHANGED <<epochNonce, epochs, queueVars, escrow, assets, totalShares, balance>>
  BY DEF vars, epochVars, queueVars, shareVars
<1>2. TypeOK'
  BY DEF EpochInv, TypeOK, vars, epochVars, queueVars, shareVars, strategyVars, reportVars
<1> QED
  BY <1>1, <1>2, EpochsAlone

----------------------------------------------------------------------------
(* Theorems. *)

\* Every step keeps the invariant.
LEMMA EpochInvStep == EpochInv /\ [Next]_vars => EpochInv'
<1> SUFFICES ASSUME EpochInv, [Next]_vars PROVE EpochInv'
  OBVIOUS
<1>1. ASSUME NEW u \in Users, NEW amount \in 1..MaxQueued, Deposit(u, amount)
      PROVE  EpochInv'
  BY <1>1, DepositStep, UserAssumption
<1>2. ASSUME NEW p \in Users, NEW u \in Users, NEW amount \in 1..balance[p],
             Withdraw(p, u, amount)
      PROVE  EpochInv'
  <2>1. amount \in Nat
    BY DEF EpochInv, TypeOK
  <2> QED
    BY <1>2, <2>1, WithdrawStep
<1>3. ASSUME NEW u \in Users, CancelDeposit(u) \/ CancelWithdraw(u)
      PROVE  EpochInv'
  BY <1>3, CancelDepositStep, CancelWithdrawStep
<1>4. CASE CloseEpoch
  BY <1>4, CloseEpochStep
<1>5. CASE CompleteEpochDeposit
  BY <1>5, CompleteEpochDepositStep
<1>6. CASE HandleEpochNetWithdraw
  BY <1>6, HandleEpochNetWithdrawStep
<1>7. ASSUME NEW u \in Users, NEW n \in Nonces, ClaimShares(u, n) \/ ClaimAsset(u, n)
      PROVE  EpochInv'
  BY <1>7, ClaimSharesStep, ClaimAssetStep
<1>8. ASSUME NEW elapsed \in 0..MaxElapsed, NEW isLocal \in BOOLEAN,
             FinalizeRebalance(elapsed, isLocal)
      PROVE  EpochInv'
  <2>1. elapsed \in Nat
    BY UserAssumption
  <2> QED
    BY <1>8, <2>1, FinalizeRebalanceStep
<1>9. CASE YieldAccrues
  BY <1>9, YieldAccruesStep
<1>10. CASE UNCHANGED vars
  BY <1>10, EpochStutter
<1>11. CASE OnEpochCronTrigger
  BY <1>11, OnEpochCronTriggerStep
<1> QED
  BY <1>1, <1>2, <1>3, <1>4, <1>5, <1>6, <1>7, <1>8, <1>9, <1>10, <1>11 DEF Next

\* The invariant holds throughout.
LEMMA EpochInvAlways == Spec => []EpochInv
BY EpochInvInit, EpochInvStep, PTL DEF Spec

\* No balance, total or pool of the vault is ever driven below zero: no claim,
\* cancellation or completion that the code allows reverts on a subtraction.
THEOREM EpochTyping == Spec => []TypeOK
<1>1. EpochInv => TypeOK
  BY DEF EpochInv
<1> QED
  BY <1>1, EpochInvAlways, PTL

\* The vault's asset balance is exactly the sum of what it owes to its epochs,
\* whatever the order of closings, completions, claims and cancellations.
THEOREM VaultIsSolvent == Spec => []Solvent
<1>1. EpochInv => Solvent
  BY DEF EpochInv, Books
<1> QED
  BY <1>1, EpochInvAlways, PTL

\* The vault escrows exactly the shares queued for withdrawal or not yet claimed
\* against.
THEOREM EscrowIsExact == Spec => []EscrowCoversWithdrawals
<1>1. EpochInv => EscrowCoversWithdrawals
  BY DEF EpochInv, Books
<1> QED
  BY <1>1, EpochInvAlways, PTL

\* The totals of every epoch are the sums of the users' entries in it, before it
\* closes and after any claims.
THEOREM TotalsMatchEntries == Spec => []TotalsAreSums
<1>1. EpochInv => TotalsAreSums
  BY DEF EpochInv
<1> QED
  BY <1>1, EpochInvAlways, PTL

\* No share or asset of a claimable epoch stays behind its last claimant.
THEOREM PoolsRunDry == Spec => []PoolsEmptyWithClaims
<1>1. EpochInv => PoolsEmptyWithClaims
  BY DEF EpochInv, PoolsEmptyOnceClosed, PoolsEmptyWithClaims, Closed
<1> QED
  BY <1>1, EpochInvAlways, PTL

\* The share count that prices the epochs is the token's supply, plus what
\* depositors still have to be minted, less what closed withdrawals still have to
\* burn.
THEOREM SharesMatchToken == Spec => []SupplyMatchesTotalShares
<1>1. ASSUME EpochInv
      PROVE  SupplyMatchesTotalShares
  <2> DEFINE E == [n \in Nonces |-> Escrowed(n)]
             C == [n \in Nonces |-> Counted(n)]
             U == [n \in Nonces |-> Unclaimed(n)]
             B == [n \in Nonces |-> SettledBurn(n)]
             T == [n \in Nonces |-> Escrowed(n) + Unclaimed(n)]
  <2>1. TypeOK /\ IsFiniteSet(Nonces)
    BY <1>1, NoncesFinite DEF EpochInv
  <2>2. /\ E \in [Nonces -> Nat] /\ C \in [Nonces -> Nat] /\ U \in [Nonces -> Nat]
        /\ B \in [Nonces -> Nat] /\ T \in [Nonces -> Nat]
    BY <2>1, PartsNat
  <2>3. \A n \in Nonces : T[n] = E[n] + U[n]
    OBVIOUS
  <2>4. \A n \in Nonces : T[n] = C[n] + B[n]
    <3> SUFFICES ASSUME NEW n \in Nonces
                 PROVE  Escrowed(n) + Unclaimed(n) = Counted(n) + SettledBurn(n)
      OBVIOUS
    <3> QED
      BY <2>1, EpochFields DEF Escrowed, Unclaimed, Counted, SettledBurn
  <2>5. escrow = SumFunction(E) /\ totalShares = SumFunction(balance) + SumFunction(C)
    BY <1>1 DEF EpochInv, Books, EscrowCoversWithdrawals, SharesCounted
  <2>6. SumFunction(balance) \in Nat
    BY <2>1, TotalNat, UserAssumption DEF TypeOK
  <2>7. SumFunction(balance) + escrow + SumFunction(U) = totalShares + SumFunction(B)
    <3> HIDE DEF E, C, U, B, T
    <3>1. SumFunction(T) = SumFunction(E) + SumFunction(U)
      BY <2>1, <2>2, <2>3, TotalAdd
    <3>2. SumFunction(T) = SumFunction(C) + SumFunction(B)
      BY <2>1, <2>2, <2>4, TotalAdd
    <3>3. SumFunction(E) \in Nat /\ SumFunction(U) \in Nat
      BY <2>1, <2>2, TotalNat
    <3>4. SumFunction(C) \in Nat /\ SumFunction(B) \in Nat
      BY <2>1, <2>2, TotalNat
    <3> QED
      BY <2>5, <2>6, <3>1, <3>2, <3>3, <3>4
  <2> QED
    BY <2>7 DEF SupplyMatchesTotalShares
<1> QED
  BY <1>1, EpochInvAlways, PTL

----------------------------------------------------------------------------
(* The order of claims. *)

\* What a claim of shares does to the pools: never more than pro rata is taken.
LEMMA ClaimSharesPools ==
    ASSUME EpochInv, NEW u \in Users, NEW n \in Nonces, ClaimShares(u, n)
    PROVE  /\ \A m \in Nonces : m # n => epochs'[m] = epochs[m]
           /\ \E claim \in Nat \ {0}, minted \in Nat :
                /\ epochs'[n] = [epochs[n] EXCEPT
                        !.remainingDeposit = epochs[n].remainingDeposit - claim,
                        !.remainingMint = epochs[n].remainingMint - minted]
                /\ claim <= epochs[n].remainingDeposit
                /\ minted <= epochs[n].remainingMint
                /\ minted * epochs[n].remainingDeposit <= claim * epochs[n].remainingMint
<1> USE DEF EpochInv
<1> DEFINE e == epochs[n]
           claim == deposits[u][n]
           minted == ProRata(claim, e.remainingMint, e.remainingDeposit)
<1>1. /\ e.status = "CLAIMABLE"
      /\ e.remainingDeposit \in Nat /\ e.remainingMint \in Nat /\ claim \in Nat \ {0}
  BY EpochFields DEF ClaimShares, TypeOK
<1>2. Queued(n) = e.remainingDeposit
  BY <1>1 DEF Queued, Closed
<1>3. claim <= e.remainingDeposit
  BY <1>2, EntriesCovered
<1>4. /\ minted \in Nat /\ minted <= e.remainingMint
      /\ minted * e.remainingDeposit <= claim * e.remainingMint
  BY <1>1, <1>3, ProRataBounds
<1>5. /\ epochs'[n] = [e EXCEPT !.remainingDeposit = e.remainingDeposit - claim,
                                !.remainingMint = e.remainingMint - minted]
      /\ \A m \in Nonces : m # n => epochs'[m] = epochs[m]
  BY DEF ClaimShares, TypeOK
<1> HIDE DEF minted
<1> QED
  BY <1>1, <1>3, <1>4, <1>5

\* What a claim of assets does to the pools.
LEMMA ClaimAssetPools ==
    ASSUME EpochInv, NEW u \in Users, NEW n \in Nonces, ClaimAsset(u, n)
    PROVE  /\ \A m \in Nonces : m # n => epochs'[m] = epochs[m]
           /\ \E claim \in Nat \ {0}, paid \in Nat :
                /\ epochs'[n] = [epochs[n] EXCEPT
                        !.remainingBurn = epochs[n].remainingBurn - claim,
                        !.remainingWithdraw = epochs[n].remainingWithdraw - paid]
                /\ claim <= epochs[n].remainingBurn
                /\ paid <= epochs[n].remainingWithdraw
                /\ paid * epochs[n].remainingBurn <= claim * epochs[n].remainingWithdraw
<1> USE DEF EpochInv
<1> DEFINE e == epochs[n]
           claim == withdraws[u][n]
           paid == ProRata(claim, e.remainingWithdraw, e.remainingBurn)
<1>1. /\ e.status = "CLAIMABLE"
      /\ e.remainingBurn \in Nat /\ e.remainingWithdraw \in Nat /\ claim \in Nat \ {0}
  BY EpochFields DEF ClaimAsset, TypeOK
<1>2. Escrowed(n) = e.remainingBurn
  BY <1>1 DEF Escrowed, Closed
<1>3. claim <= e.remainingBurn
  BY <1>2, EntriesCovered
<1>4. /\ paid \in Nat /\ paid <= e.remainingWithdraw
      /\ paid * e.remainingBurn <= claim * e.remainingWithdraw
  BY <1>1, <1>3, ProRataBounds
<1>5. /\ epochs'[n] = [e EXCEPT !.remainingBurn = e.remainingBurn - claim,
                                !.remainingWithdraw = e.remainingWithdraw - paid]
      /\ \A m \in Nonces : m # n => epochs'[m] = epochs[m]
  BY DEF ClaimAsset, TypeOK
<1> HIDE DEF paid
<1> QED
  BY <1>1, <1>3, <1>4, <1>5

\* Taking no more than pro rata leaves no less per unit of the claims that remain.
LEMMA RestNotBelow ==
    ASSUME NEW pool \in Nat, NEW claims \in Nat, NEW taken \in Nat, NEW claim \in Nat,
           taken * claims <= claim * pool
    PROVE  (pool - taken) * claims >= pool * (claims - claim)
<1>1. /\ (pool - taken) * claims = pool * claims - taken * claims
      /\ pool * (claims - claim) = pool * claims - claim * pool
  OBVIOUS
<1>2. pool * claims \in Nat /\ taken * claims \in Nat /\ claim * pool \in Nat
  BY ProductNat
<1> QED
  BY <1>1, <1>2

\* Once an epoch is claimable, only its claims touch it.
LEMMA OnlyClaimsTouch ==
    ASSUME EpochInv, [Next]_vars, NEW n \in Nonces, epochs[n].status = "CLAIMABLE"
    PROVE  \/ epochs'[n] = epochs[n]
           \/ \E u \in Users : ClaimShares(u, n) \/ ClaimAsset(u, n)
<1> USE DEF EpochInv
<1>0. epochs \in [Nonces -> EpochRecords]
  BY DEF TypeOK
<1>1. ASSUME NEW u \in Users, NEW amount, Deposit(u, amount)
      PROVE  epochs'[n] = epochs[n]
  BY <1>0, <1>1 DEF Deposit
<1>2. ASSUME NEW p \in Users, NEW u \in Users, NEW amount, Withdraw(p, u, amount)
      PROVE  epochs'[n] = epochs[n]
  BY <1>0, <1>2 DEF Withdraw
<1>3. ASSUME NEW u \in Users, CancelDeposit(u) \/ CancelWithdraw(u)
      PROVE  epochs'[n] = epochs[n]
  BY <1>0, <1>3 DEF CancelDeposit, CancelWithdraw
<1>4. CASE CloseEpoch
  <2>1. PICK st, w, mint : epochs' = SettledEpochs(st, w, mint)
    BY <1>4 DEF CloseEpoch, NothingMoves, NetDeposit, LocalNetWithdraw, RemoteNetWithdraw
  <2>2. n # epochNonce /\ n # epochNonce + 1
    <3>1. epochNonce \in Nat /\ n \in Nat
      BY NoncesFinite DEF TypeOK
    <3>2. ~(n > epochNonce) /\ n # epochNonce
      BY DEF EpochSequence
    <3> QED
      BY <3>1, <3>2
  <2> QED
    BY <1>0, <2>1, <2>2 DEF SettledEpochs
<1>5. CASE CompleteEpochDeposit
  BY <1>0, <1>5 DEF CompleteEpochDeposit
<1>6. CASE HandleEpochNetWithdraw
  BY <1>0, <1>6 DEF HandleEpochNetWithdraw
<1>7. ASSUME NEW u \in Users, NEW m \in Nonces, ClaimShares(u, m) \/ ClaimAsset(u, m), m # n
      PROVE  epochs'[n] = epochs[n]
  BY <1>7, ClaimSharesPools, ClaimAssetPools
<1>8. ASSUME NEW elapsed, NEW isLocal, FinalizeRebalance(elapsed, isLocal)
      PROVE  epochs'[n] = epochs[n]
  BY <1>8 DEF FinalizeRebalance
<1>9. CASE YieldAccrues
  BY <1>9 DEF YieldAccrues, epochVars
<1>10. CASE OnEpochCronTrigger \/ UNCHANGED vars
  BY <1>10 DEF OnEpochCronTrigger, vars, epochVars
<1> QED
  BY <1>1, <1>2, <1>3, <1>4, <1>5, <1>6, <1>7, <1>8, <1>9, <1>10 DEF Next

\* Nobody loses by another claiming first: over any step, what a claimable epoch
\* has left per unit of its remaining claims never falls.
THEOREM ClaimOrderIsFair == Spec => ClaimOrderNeverHurts
<1>1. ASSUME EpochInv, [Next]_vars, NEW n \in Nonces, epochs[n].status = "CLAIMABLE"
      PROVE  /\ epochs'[n].remainingMint * epochs[n].remainingDeposit >=
                  epochs[n].remainingMint * epochs'[n].remainingDeposit
             /\ epochs'[n].remainingWithdraw * epochs[n].remainingBurn >=
                  epochs[n].remainingWithdraw * epochs'[n].remainingBurn
  <2> DEFINE e == epochs[n]
  <2>1. /\ e \in EpochRecords /\ e.remainingDeposit \in Nat /\ e.remainingMint \in Nat
        /\ e.remainingBurn \in Nat /\ e.remainingWithdraw \in Nat
    BY <1>1, EpochFields DEF EpochInv
  <2>2. /\ e.remainingMint * e.remainingDeposit >= e.remainingMint * e.remainingDeposit
        /\ e.remainingWithdraw * e.remainingBurn >= e.remainingWithdraw * e.remainingBurn
    <3>1. /\ e.remainingMint * e.remainingDeposit \in Nat
          /\ e.remainingWithdraw * e.remainingBurn \in Nat
      BY <2>1, ProductNat
    <3> QED
      BY <3>1
  <2>3. CASE epochs'[n] = e
    BY <2>2, <2>3
  <2>4. ASSUME NEW u \in Users, ClaimShares(u, n)
        PROVE  /\ epochs'[n].remainingMint * e.remainingDeposit >=
                    e.remainingMint * epochs'[n].remainingDeposit
               /\ epochs'[n].remainingWithdraw = e.remainingWithdraw
               /\ epochs'[n].remainingBurn = e.remainingBurn
    <3>1. PICK claim \in Nat \ {0}, minted \in Nat :
            /\ epochs'[n] = [e EXCEPT !.remainingDeposit = e.remainingDeposit - claim,
                                      !.remainingMint = e.remainingMint - minted]
            /\ minted * e.remainingDeposit <= claim * e.remainingMint
      BY <1>1, <2>4, ClaimSharesPools
    <3>2. (e.remainingMint - minted) * e.remainingDeposit
             >= e.remainingMint * (e.remainingDeposit - claim)
      BY <2>1, <3>1, RestNotBelow
    <3> QED
      BY <2>1, <3>1, <3>2 DEF EpochRecords
  <2>5. ASSUME NEW u \in Users, ClaimAsset(u, n)
        PROVE  /\ epochs'[n].remainingWithdraw * e.remainingBurn >=
                    e.remainingWithdraw * epochs'[n].remainingBurn
               /\ epochs'[n].remainingDeposit = e.remainingDeposit
               /\ epochs'[n].remainingMint = e.remainingMint
    <3>1. PICK claim \in Nat \ {0}, paid \in Nat :
            /\ epochs'[n] = [e EXCEPT !.remainingBurn = e.remainingBurn - claim,
                                      !.remainingWithdraw = e.remainingWithdraw - paid]
            /\ paid * e.remainingBurn <= claim * e.remainingWithdraw
      BY <1>1, <2>5, ClaimAssetPools
    <3>2. (e.remainingWithdraw - paid) * e.remainingBurn
             >= e.remainingWithdraw * (e.remainingBurn - claim)
      BY <2>1, <3>1, RestNotBelow
    <3> QED
      BY <2>1, <3>1, <3>2 DEF EpochRecords
  <2> QED
    BY <1>1, <2>2, <2>3, <2>4, <2>5, OnlyClaimsTouch
<1>2. EpochInv /\ [Next]_vars =>
        [\A n \in Nonces :
           epochs[n].status = "CLAIMABLE" =>
              /\ epochs'[n].remainingMint * epochs[n].remainingDeposit >=
                   epochs[n].remainingMint * epochs'[n].remainingDeposit
              /\ epochs'[n].remainingWithdraw * epochs[n].remainingBurn >=
                   epochs[n].remainingWithdraw * epochs'[n].remainingBurn]_vars
  BY <1>1
<1> QED
  BY <1>2, EpochInvAlways, PTL DEF Spec, ClaimOrderNeverHurts

----------------------------------------------------------------------------
(* The value of a share. *)

\* Shares that enter and leave at the price r/s, rounded down, when the value is v and
\* has grown by at most g since it was r.
LEMMA PricingAtReading ==
    ASSUME NEW v \in Nat, NEW r \in Nat, NEW g \in Nat, NEW d \in Nat, NEW w \in Nat,
           NEW s \in Nat, NEW mint \in Nat, NEW burn \in Nat, s + mint - burn \in Nat,
           mint * r <= d * s, d * s < mint * r + r,
           w * s <= burn * r, burn * r < w * s + s, v <= r + g
    PROVE  /\ v * s + r * (s + mint - burn) <= (v + d - w) * s + r * s
           /\ (v + d - w) * s + r * s < v * s + r * (s + mint - burn) + r + s
           /\ r <= v => v * (s + mint - burn)
                          <= (v + d - w) * s + g * (s + mint - burn)
<1>1. /\ (v + d - w) * s = v * s + d * s - w * s
      /\ r * (s + mint - burn) = r * s + mint * r - burn * r
  OBVIOUS
<1>2. /\ v * s \in Nat /\ d * s \in Nat /\ w * s \in Nat /\ r * s \in Nat
      /\ mint * r \in Nat /\ burn * r \in Nat
  BY ProductNat
<1>3. /\ v * s + r * (s + mint - burn) <= (v + d - w) * s + r * s
      /\ (v + d - w) * s + r * s < v * s + r * (s + mint - burn) + r + s
  BY <1>1, <1>2
<1>4. ASSUME r <= v
      PROVE  v * (s + mint - burn) <= (v + d - w) * s + g * (s + mint - burn)
  <2>1. PICK x \in Nat, y \in Nat, t \in Nat :
          v = r + x /\ g = x + y /\ t = s + mint - burn
    <3>1. v - r \in Nat /\ g - (v - r) \in Nat
      BY <1>4
    <3> QED
      BY <3>1
  <2>2. /\ v * s = r * s + x * s /\ v * t = r * t + x * t /\ g * t = x * t + y * t
    BY <2>1
  <2>3. x * s \in Nat /\ x * t \in Nat /\ y * t \in Nat /\ r * t \in Nat
    BY <2>1, ProductNat
  <2>4. v * s + r * t <= (v + d - w) * s + r * s
    BY <1>3, <2>1
  <2>5. PICK z \in Int : z = (v + d - w) * s
    BY <1>1, <1>2
  <2>6. v * t <= z + g * t
    BY <1>2, <2>2, <2>3, <2>4, <2>5
  <2> QED
    BY <2>1, <2>5, <2>6
<1> QED
  BY <1>3, <1>4

\* Only closing moves the epoch nonce.
LEMMA NonceMovesOnClose ==
    ASSUME [Next]_vars, epochNonce' # epochNonce
    PROVE  CloseEpoch
BY DEF Next, Deposit, Withdraw, CancelDeposit, CancelWithdraw, CompleteEpochDeposit,
       HandleEpochNetWithdraw, ClaimShares, ClaimAsset, FinalizeRebalance, YieldAccrues,
       OnEpochCronTrigger, vars, epochVars

\* In every way of closing, the value behind the shares changes by the deposits, less
\* the withdrawals at the reported value.
LEMMA BackingAfterClose ==
    ASSUME EpochInv, CloseEpoch, NEW n \in Nonces, n = epochNonce
    PROVE  /\ Backing = tvl
           /\ Backing' = tvl + epochs[n].totalDeposit
                             - TotalWithdraw(epochs[n].totalBurn, report.tvl, totalShares)
<1> USE DEF EpochInv
<1> DEFINE e == epochs[n]
<1>1. /\ e.totalDeposit \in Nat /\ e.totalBurn \in Nat
      /\ tvl \in Nat /\ report.tvl \in Nat /\ totalShares \in Nat
  BY EpochFields DEF TypeOK
<1>2. totalShares # 0 => report.tvl # 0
  BY DEF CloseEpoch, SettlementAllowed
<1>3. PICK w \in Nat : w = TotalWithdraw(e.totalBurn, report.tvl, totalShares)
  <2>1. PICK b \in Nat, v \in Nat, s \in Nat :
          b = e.totalBurn /\ v = report.tvl /\ s = totalShares
    BY <1>1
  <2>2. TotalWithdraw(b, v, s) \in Nat
    BY <1>2, <2>1, Pricing
  <2> QED
    BY <2>1, <2>2
<1>4. Backing = tvl
  BY DEF CloseEpoch, PreviousSettled, Backing
<1>5. epochNonce' = n + 1 /\ n \in Nat /\ n # 0
  BY UserAssumption DEF CloseEpoch, Nonces
<1>6. epochNonce' # 1 /\ epochNonce' - 1 = n
  BY <1>5
<1>7. ASSUME NEW st, NEW c, NEW mint, epochs' = SettledEpochs(st, c, mint)
      PROVE  /\ epochs'[n].status = st /\ epochs'[n].withdrawClaim = c
             /\ epochs'[n].totalDeposit = e.totalDeposit
  <2>1. n # n + 1 /\ e \in EpochRecords
    BY <1>5, EpochFields
  <2> QED
    BY <1>7, <2>1 DEF SettledEpochs, TypeOK, EpochRecords
<1>8. Backing' = IF epochs'[n].status # "EXECUTING" THEN tvl'
                 ELSE tvl' + epochs'[n].totalDeposit - epochs'[n].withdrawClaim
  BY <1>6 DEF Backing
<1>9. PICK mint :
        \/ NothingMoves(e.totalDeposit, w, mint)
        \/ NetDeposit(e.totalDeposit, w, mint)
        \/ LocalNetWithdraw(e.totalDeposit, w, mint)
        \/ RemoteNetWithdraw(e.totalDeposit, w, mint)
  BY <1>3 DEF CloseEpoch
<1>10. CASE NothingMoves(e.totalDeposit, w, mint)
  <2>1. epochs' = SettledEpochs("CLAIMABLE", w, mint) /\ e.totalDeposit = w /\ tvl' = tvl
    BY <1>10 DEF NothingMoves, strategyVars
  <2>2. epochs'[n].status = "CLAIMABLE"
    BY <1>7, <2>1
  <2> QED
    BY <1>1, <1>3, <1>4, <1>8, <2>1, <2>2
<1>11. CASE NetDeposit(e.totalDeposit, w, mint)
  <2>1. CASE local
    <3>1. epochs' = SettledEpochs("CLAIMABLE", w, mint) /\ tvl' = tvl + (e.totalDeposit - w)
      BY <1>11, <2>1 DEF NetDeposit
    <3>2. epochs'[n].status = "CLAIMABLE"
      BY <1>7, <3>1
    <3> QED
      BY <1>1, <1>3, <1>4, <1>8, <3>1, <3>2
  <2>2. CASE ~local
    <3>1. epochs' = SettledEpochs("EXECUTING", w, mint) /\ tvl' = tvl
      BY <1>11, <2>2 DEF NetDeposit
    <3>2. /\ epochs'[n].status = "EXECUTING" /\ epochs'[n].withdrawClaim = w
          /\ epochs'[n].totalDeposit = e.totalDeposit
      BY <1>7, <3>1
    <3> QED
      BY <1>1, <1>3, <1>4, <1>8, <3>1, <3>2
  <2> QED
    BY <2>1, <2>2
<1>12. CASE LocalNetWithdraw(e.totalDeposit, w, mint)
  <2>1. /\ \E a : epochs' = SettledEpochs("CLAIMABLE", e.totalDeposit + a, mint)
        /\ tvl' = tvl - (w - e.totalDeposit)
    BY <1>12 DEF LocalNetWithdraw
  <2>2. PICK c : epochs' = SettledEpochs("CLAIMABLE", c, mint)
    BY <2>1
  <2>3. epochs'[n].status = "CLAIMABLE"
    BY <1>7, <2>2
  <2> QED
    BY <1>1, <1>3, <1>4, <1>8, <2>1, <2>3
<1>13. CASE RemoteNetWithdraw(e.totalDeposit, w, mint)
  <2>1. epochs' = SettledEpochs("EXECUTING", w, mint) /\ tvl' = tvl
    BY <1>13 DEF RemoteNetWithdraw, strategyVars
  <2>2. /\ epochs'[n].status = "EXECUTING" /\ epochs'[n].withdrawClaim = w
        /\ epochs'[n].totalDeposit = e.totalDeposit
    BY <1>7, <2>1
  <2> QED
    BY <1>1, <1>3, <1>4, <1>8, <2>1, <2>2
<1> QED
  BY <1>9, <1>10, <1>11, <1>12, <1>13

\* While a report may still close the epoch, no settlement is under way and the strategy
\* has at most the reported value and the interest since.
ReportBound ==
    ReportCurrent => PreviousSettled /\ tvl <= report.tvl + earned

\* Initially nothing is reported.
LEMMA ReportBoundInit == Init => ReportBound
BY DEF Init, ReportBound, ReportCurrent

\* A step that leaves the nonce and the report alone, and adds no more to the strategy
\* than to the interest, keeps the bound: a settled epoch stays settled.
LEMMA BoundKept ==
    ASSUME EpochInv, ReportBound, [Next]_vars, UNCHANGED <<epochNonce, report>>,
           ReportCurrent => tvl' <= report.tvl + earned'
    PROVE  ReportBound'
<1> SUFFICES ASSUME ReportCurrent, epochNonce # 1
             PROVE  epochs'[epochNonce - 1].status = "CLAIMABLE"
  BY DEF ReportBound, ReportCurrent, PreviousSettled
<1>1. PICK n \in Nonces : n = epochNonce - 1
  BY UserAssumption DEF EpochInv, TypeOK, Nonces
<1>2. epochs[n].status = "CLAIMABLE" /\ epochs[n] \in EpochRecords
  BY <1>1, EpochFields DEF EpochInv, ReportBound, PreviousSettled
<1>3. ASSUME NEW u \in Users, ClaimShares(u, n)
      PROVE  epochs'[n].status = "CLAIMABLE"
  BY <1>2, <1>3, ClaimSharesPools DEF EpochRecords
<1>4. ASSUME NEW u \in Users, ClaimAsset(u, n)
      PROVE  epochs'[n].status = "CLAIMABLE"
  BY <1>2, <1>4, ClaimAssetPools DEF EpochRecords
<1>5. epochs'[n].status = "CLAIMABLE"
  BY <1>2, <1>3, <1>4, OnlyClaimsTouch
<1> QED
  BY <1>1, <1>5

\* Only interest brings the strategy above a reading that may still be acted on: a close
\* ends its epoch, and a completion needs an epoch that executes.
LEMMA ReportBoundStep == EpochInv /\ ReportBound /\ [Next]_vars => ReportBound'
<1> SUFFICES ASSUME EpochInv, ReportBound, [Next]_vars PROVE ReportBound'
  OBVIOUS
<1> USE DEF EpochInv
<1>0. tvl \in Nat /\ earned \in Nat /\ report.tvl \in Nat /\ epochNonce \in Nat
  BY NoncesFinite DEF TypeOK
<1>1. ASSUME UNCHANGED <<epochNonce, report>>, tvl' = tvl, earned' = earned
      PROVE  ReportBound'
  BY <1>1, BoundKept DEF ReportBound
<1>2. ASSUME NEW u \in Users, NEW amount, Deposit(u, amount)
      PROVE  ReportBound'
  BY <1>1, <1>2 DEF Deposit, strategyVars, reportVars
<1>3. ASSUME NEW q \in Users, NEW u \in Users, NEW amount, Withdraw(q, u, amount)
      PROVE  ReportBound'
  BY <1>1, <1>3 DEF Withdraw, strategyVars, reportVars
<1>4. ASSUME NEW u \in Users, CancelDeposit(u) \/ CancelWithdraw(u)
      PROVE  ReportBound'
  BY <1>1, <1>4 DEF CancelDeposit, CancelWithdraw, strategyVars, reportVars
<1>5. ASSUME NEW u \in Users, NEW n \in Nonces, ClaimShares(u, n) \/ ClaimAsset(u, n)
      PROVE  ReportBound'
  BY <1>1, <1>5 DEF ClaimShares, ClaimAsset, strategyVars, reportVars
<1>6. CASE CloseEpoch
  <2>1. report' = report /\ report.epochNonce = epochNonce /\ epochNonce' = epochNonce + 1
    BY <1>6 DEF CloseEpoch, ReportCurrent
  <2> QED
    BY <1>0, <2>1 DEF ReportBound, ReportCurrent
<1>7. CASE CompleteEpochDeposit \/ HandleEpochNetWithdraw
  <2>1. ~PreviousSettled
    BY <1>7 DEF CompleteEpochDeposit, HandleEpochNetWithdraw, PreviousSettled
  <2>2. UNCHANGED <<epochNonce, report>>
    BY <1>7 DEF CompleteEpochDeposit, HandleEpochNetWithdraw, reportVars
  <2> QED
    BY <2>1, <2>2 DEF ReportBound, ReportCurrent
<1>8. ASSUME NEW elapsed, NEW isLocal, FinalizeRebalance(elapsed, isLocal)
      PROVE  ReportBound'
  <2>1. UNCHANGED <<epochNonce, report, earned>> /\ tvl' \in Nat /\ tvl' <= tvl
    BY <1>0, <1>8 DEF FinalizeRebalance, Arriving, reportVars
  <2> QED
    BY <1>0, <2>1, BoundKept DEF ReportBound
<1>9. CASE YieldAccrues
  <2>1. UNCHANGED <<epochNonce, report>> /\ tvl' \in Nat
    BY <1>0, <1>9, UserAssumption DEF YieldAccrues, epochVars
  <2>2. ReportCurrent => earned' = earned + (tvl' - tvl)
    BY <1>9 DEF YieldAccrues
  <2> QED
    BY <1>0, <2>1, <2>2, BoundKept DEF ReportBound
<1>10. CASE OnEpochCronTrigger
  <2>1. /\ report'.tvl = tvl /\ tvl' = tvl /\ earned' = 0 /\ PreviousSettled
        /\ UNCHANGED <<epochNonce, epochs>>
    BY <1>10 DEF OnEpochCronTrigger, epochVars, strategyVars
  <2> QED
    BY <1>0, <2>1 DEF ReportBound, PreviousSettled
<1>11. CASE UNCHANGED vars
  BY <1>1, <1>11 DEF vars, epochVars, strategyVars, reportVars
<1> QED
  BY <1>2, <1>3, <1>4, <1>5, <1>6, <1>7, <1>8, <1>9, <1>10, <1>11 DEF Next

\* A close takes its price from a value read earlier.  At that price the holders who
\* stay lose nothing and those who enter or leave less than a share and an asset; and
\* while the strategy has not fallen below the reading, what a share that stays can lose
\* is part of the interest earned since, however late the report arrives.
THEOREM ClosingCostsInterestAtMost == Spec => CloseCostsInterestAtMost
<1> DEFINE Before == Backing * totalShares + report.tvl * totalShares'
           After == Backing' * totalShares + report.tvl * totalShares
<1>1. ASSUME EpochInv, EpochInv', ReportBound, [Next]_vars, epochNonce' # epochNonce,
             totalShares # 0
      PROVE  /\ Before <= After
             /\ After < Before + report.tvl + totalShares
             /\ report.tvl <= Backing =>
                  Backing * totalShares' <= Backing' * totalShares + earned * totalShares'
  <2> USE DEF EpochInv
  <2>1. CloseEpoch
    BY <1>1, NonceMovesOnClose
  <2>2. PICK n \in Nonces : n = epochNonce
    BY <1>1 DEF TypeOK
  <2>3. PICK d \in Nat, b \in Nat, v \in Nat, r \in Nat, g \in Nat, s \in Nat :
          /\ d = epochs[n].totalDeposit /\ b = epochs[n].totalBurn
          /\ v = tvl /\ r = report.tvl /\ g = earned /\ s = totalShares
    BY <1>1, EpochFields DEF TypeOK
  <2>4. s # 0 /\ r # 0
    BY <1>1, <2>1, <2>3 DEF CloseEpoch, SettlementAllowed
  <2>5. PICK w \in Nat, mint \in Nat :
          /\ w = TotalWithdraw(b, r, s) /\ mint = NewShares(d, r, s)
          /\ mint * r <= d * s /\ d * s < mint * r + r
          /\ w * s <= b * r /\ b * r < w * s + s
    BY <2>4, Pricing
  <2>6. totalShares' = s + mint - b /\ s + mint - b \in Nat
    <3>1. totalShares' = s + mint - b
      BY <2>1, <2>2, <2>3, <2>5 DEF CloseEpoch
    <3>2. totalShares' \in Nat
      BY <1>1 DEF TypeOK
    <3> QED
      BY <3>1, <3>2
  <2>7. Backing = v /\ Backing' = v + d - w
    BY <1>1, <2>1, <2>2, <2>3, <2>5, BackingAfterClose
  <2>8. v <= r + g
    BY <1>1, <2>1, <2>3 DEF CloseEpoch, ReportBound
  <2>9. /\ v * s + r * (s + mint - b) <= (v + d - w) * s + r * s
        /\ (v + d - w) * s + r * s < v * s + r * (s + mint - b) + r + s
        /\ r <= v => v * (s + mint - b) <= (v + d - w) * s + g * (s + mint - b)
    BY <2>5, <2>6, <2>8, PricingAtReading
  <2> HIDE DEF EpochInv
  <2> QED
    BY <2>3, <2>6, <2>7, <2>9
<1>2. EpochInv /\ EpochInv' /\ ReportBound /\ [Next]_vars =>
        [epochNonce' # epochNonce /\ totalShares # 0 =>
           LET before == Backing * totalShares + report.tvl * totalShares'
               after == Backing' * totalShares + report.tvl * totalShares
           IN  /\ before <= after
               /\ after < before + report.tvl + totalShares
               /\ report.tvl <= Backing =>
                    Backing * totalShares' <= Backing' * totalShares + earned * totalShares'
        ]_vars
  BY <1>1
<1>3. Spec => []ReportBound
  BY EpochInvAlways, ReportBoundInit, ReportBoundStep, PTL DEF Spec
<1> QED
  BY <1>2, <1>3, EpochInvAlways, PTL DEF Spec, CloseCostsInterestAtMost

----------------------------------------------------------------------------
(* Every deposit mints. *)

\* A closed epoch has a share for every MinAssetAmount of its unclaimed deposits.
MintCoversDeposits ==
    \A n \in Nonces : Closed(n) =>
        epochs[n].remainingDeposit <= epochs[n].remainingMint * MinAssetAmount

\* Nobody's entry is smaller than the smallest deposit.
EntriesNotSmall ==
    \A u \in Users, n \in Nonces :
        deposits[u][n] # 0 => deposits[u][n] >= MinAssetAmount

\* A claim that takes no more than pro rata leaves a share for every MinAssetAmount.
LEMMA CoverKept ==
    ASSUME NEW rm \in Nat, NEW rd \in Nat \ {0}, NEW m \in Nat, NEW c \in Nat, NEW min \in Nat,
           m <= rm, c <= rd, m * rd <= c * rm, rd <= rm * min
    PROVE  rd - c <= (rm - m) * min
<1>1. PICK r \in Nat, x \in Nat : r = rm - m /\ x = rd - c
  OBVIOUS
<1>2. rm * x <= r * rd
  BY <1>1, RestNotBelow
<1>3. PICK p \in Nat, q \in Nat : p = rm * x /\ q = r * rd
  BY ProductNat
<1>4. p * min <= q * min
  BY <1>2, <1>3, ProductMonotone
<1>5. rd * x <= (rm * min) * x
  BY ProductMonotone, ProductNat
<1>6. (rm * min) * x = p * min /\ q * min = (r * min) * rd /\ rd * x = x * rd
  BY <1>3
<1>7. x * rd <= (r * min) * rd
  <2>1. rd * x \in Nat /\ p * min \in Nat /\ q * min \in Nat
    BY ProductNat
  <2> QED
    BY <1>4, <1>5, <1>6, <2>1
<1>8. r * min \in Nat
  BY ProductNat
<1> QED
  BY <1>1, <1>7, <1>8, ProductCancel

\* A closed epoch's deposits and shares only change by a claim, and by a completion
\* that never falls short.
LEMMA CoverStep ==
    ASSUME MaxShort = 0, EpochInv, MintCoversDeposits, [Next]_vars
    PROVE  MintCoversDeposits'
<1> USE DEF EpochInv
<1>0. epochs \in [Nonces -> EpochRecords] /\ epochNonce \in Nonces
  BY DEF TypeOK
<1> DEFINE Kept(n) == \/ epochs'[n].status = epochs[n].status
                      \/ epochs[n].status = "EXECUTING"
           PoolsKept(n) == /\ epochs'[n].remainingDeposit = epochs[n].remainingDeposit
                           /\ epochs'[n].remainingMint = epochs[n].remainingMint
<1>1. ASSUME \A n \in Nonces : Kept(n) /\ PoolsKept(n)
      PROVE  MintCoversDeposits'
  BY <1>1 DEF MintCoversDeposits, Closed
<1>2. ASSUME NEW u \in Users, NEW amount, Deposit(u, amount)
      PROVE  MintCoversDeposits'
  <2>1. \A n \in Nonces : Kept(n) /\ PoolsKept(n)
    BY <1>0, <1>2 DEF Deposit, EpochRecords
  <2> QED
    BY <1>1, <2>1
<1>3. ASSUME NEW p \in Users, NEW u \in Users, NEW amount, Withdraw(p, u, amount)
      PROVE  MintCoversDeposits'
  <2>1. \A n \in Nonces : Kept(n) /\ PoolsKept(n)
    BY <1>0, <1>3 DEF Withdraw, EpochRecords
  <2> QED
    BY <1>1, <2>1
<1>4. ASSUME NEW u \in Users, CancelDeposit(u)
      PROVE  MintCoversDeposits'
  <2>1. \A n \in Nonces : Kept(n) /\ PoolsKept(n)
    BY <1>0, <1>4 DEF CancelDeposit, EpochRecords
  <2> QED
    BY <1>1, <2>1
<1>5. ASSUME NEW u \in Users, CancelWithdraw(u)
      PROVE  MintCoversDeposits'
  <2>1. \A n \in Nonces : Kept(n) /\ PoolsKept(n)
    BY <1>0, <1>5 DEF CancelWithdraw, EpochRecords
  <2> QED
    BY <1>1, <2>1
<1>6. CASE CloseEpoch
  <2>1. PICK n \in Nonces : n = epochNonce
    BY <1>0
  <2>2. PICK k \in Nonces : k = n + 1
    BY <1>6, <2>1, UserAssumption DEF CloseEpoch, Nonces
  <2>3. PICK st, w : epochs' = SettledEpochs(st, w,
                        NewShares(epochs[n].totalDeposit, report.tvl, totalShares))
    BY <1>6, <2>1 DEF CloseEpoch, NothingMoves, NetDeposit, LocalNetWithdraw, RemoteNetWithdraw
  <2>4. n # k
    BY <2>2, NoncesFinite
  <2>5. /\ epochs'[n].remainingDeposit = epochs[n].totalDeposit
        /\ epochs'[n].remainingMint
             = NewShares(epochs[n].totalDeposit, report.tvl, totalShares)
        /\ epochs'[k].status = "OPEN"
        /\ \A m \in Nonces : m # n /\ m # k => epochs'[m] = epochs[m]
    BY <1>0, <2>1, <2>2, <2>3, <2>4 DEF SettledEpochs, EpochRecords
  <2>6. epochs'[n].remainingDeposit <= epochs'[n].remainingMint * MinAssetAmount
    <3>1. PICK d \in Nat, v \in Nat, s \in Nat :
            d = epochs[n].totalDeposit /\ v = report.tvl /\ s = totalShares
      BY EpochFields DEF TypeOK
    <3>2. /\ d # 0 => NewShares(d, v, s) * MinAssetAmount >= d
          /\ s # 0 => v # 0
      BY <1>6, <2>1, <3>1 DEF CloseEpoch, SettlementAllowed
    <3>3. PICK x \in Nat : x = NewShares(d, v, s)
      BY <3>2, Pricing
    <3>4. x * MinAssetAmount \in Nat
      BY ProductNat, PrecisionAssumption
    <3>5. d <= x * MinAssetAmount
      BY <3>2, <3>3, <3>4
    <3> QED
      BY <2>5, <3>1, <3>3, <3>5
  <2>7. ASSUME NEW m \in Nonces, Closed(m)'
        PROVE  epochs'[m].remainingDeposit <= epochs'[m].remainingMint * MinAssetAmount
    <3>1. CASE m = n
      BY <2>6, <3>1
    <3>2. CASE m = k
      BY <2>5, <2>7, <3>2 DEF Closed
    <3>3. CASE m # n /\ m # k
      BY <2>5, <2>7, <3>3 DEF MintCoversDeposits, Closed
    <3> QED
      BY <3>1, <3>2, <3>3
  <2> QED
    BY <2>7 DEF MintCoversDeposits
<1>7. CASE CompleteEpochDeposit
  <2>1. PICK n \in Nonces : n = epochNonce - 1
    BY <1>0, <1>7, UserAssumption DEF CompleteEpochDeposit, Nonces
  <2> DEFINE e == epochs[n]
             expected == e.totalDeposit - e.withdrawClaim
  <2>2. /\ e.totalDeposit \in Nat /\ e.withdrawClaim \in Nat
        /\ e.withdrawClaim < e.totalDeposit /\ e.status = "EXECUTING"
    BY <1>7, <2>1, EpochFields DEF CompleteEpochDeposit
  <2>3. \A a \in Arriving(expected) : a = expected
    BY <2>2 DEF Arriving
  <2>4. epochs' = [epochs EXCEPT ![n].status = "CLAIMABLE",
                                 ![n].remainingMint = e.remainingMint]
    BY <1>7, <2>1, <2>3 DEF CompleteEpochDeposit
  <2>5. \A m \in Nonces : Kept(m) /\ PoolsKept(m)
    BY <1>0, <2>2, <2>4 DEF EpochRecords
  <2> QED
    BY <1>1, <2>5
<1>8. CASE HandleEpochNetWithdraw
  <2>1. \A n \in Nonces : Kept(n) /\ PoolsKept(n)
    BY <1>0, <1>8 DEF HandleEpochNetWithdraw, EpochRecords
  <2> QED
    BY <1>1, <2>1
<1>9. ASSUME NEW u \in Users, NEW n \in Nonces, ClaimShares(u, n)
      PROVE  MintCoversDeposits'
  <2> DEFINE e == epochs[n]
  <2>1. PICK claim \in Nat \ {0}, minted \in Nat :
          /\ epochs'[n] = [e EXCEPT !.remainingDeposit = e.remainingDeposit - claim,
                                    !.remainingMint = e.remainingMint - minted]
          /\ claim <= e.remainingDeposit
          /\ minted <= e.remainingMint
          /\ minted * e.remainingDeposit <= claim * e.remainingMint
    BY <1>9, ClaimSharesPools
  <2>2. \A m \in Nonces : m # n => epochs'[m] = epochs[m]
    BY <1>9, ClaimSharesPools
  <2>3. e \in EpochRecords /\ e.remainingDeposit \in Nat \ {0} /\ e.remainingMint \in Nat
    BY <2>1, EpochFields
  <2>4. e.status = "CLAIMABLE" /\ MinAssetAmount \in Nat
    BY <1>9, PrecisionAssumption DEF ClaimShares
  <2>5. e.remainingDeposit <= e.remainingMint * MinAssetAmount
    BY <2>4 DEF MintCoversDeposits, Closed
  <2>6. e.remainingDeposit - claim <= (e.remainingMint - minted) * MinAssetAmount
    <3>1. PICK rd \in Nat \ {0}, rm \in Nat : rd = e.remainingDeposit /\ rm = e.remainingMint
      BY <2>3
    <3>2. /\ minted <= rm /\ claim <= rd /\ minted * rd <= claim * rm
          /\ rd <= rm * MinAssetAmount
      BY <2>1, <2>5, <3>1
    <3>3. rd - claim <= (rm - minted) * MinAssetAmount
      BY <2>4, <3>2, CoverKept
    <3> QED
      BY <3>1, <3>3
  <2>7. /\ epochs'[n].remainingDeposit = e.remainingDeposit - claim
        /\ epochs'[n].remainingMint = e.remainingMint - minted
    BY <2>1, <2>3 DEF EpochRecords
  <2>8. ASSUME NEW m \in Nonces, Closed(m)'
        PROVE  epochs'[m].remainingDeposit <= epochs'[m].remainingMint * MinAssetAmount
    <3>1. CASE m = n
      BY <2>6, <2>7, <3>1
    <3>2. CASE m # n
      BY <2>2, <2>8, <3>2 DEF MintCoversDeposits, Closed
    <3> QED
      BY <3>1, <3>2
  <2> QED
    BY <2>8 DEF MintCoversDeposits
<1>10. ASSUME NEW u \in Users, NEW n \in Nonces, ClaimAsset(u, n)
       PROVE  MintCoversDeposits'
  <2>1. \A m \in Nonces : Kept(m) /\ PoolsKept(m)
    BY <1>0, <1>10 DEF ClaimAsset, EpochRecords
  <2> QED
    BY <1>1, <2>1
<1>11. ASSUME UNCHANGED epochs
       PROVE  MintCoversDeposits'
  BY <1>1, <1>11
<1>12. CASE OnEpochCronTrigger \/ YieldAccrues \/ UNCHANGED vars
  BY <1>11, <1>12 DEF OnEpochCronTrigger, YieldAccrues, vars, epochVars
<1>13. ASSUME NEW elapsed, NEW isLocal, FinalizeRebalance(elapsed, isLocal)
       PROVE  MintCoversDeposits'
  BY <1>11, <1>13 DEF FinalizeRebalance
<1> QED
  BY <1>2, <1>3, <1>4, <1>5, <1>6, <1>7, <1>8, <1>9, <1>10, <1>12, <1>13 DEF Next

\* Deposits only grow by accepted amounts, and are cancelled and claimed whole.
LEMMA EntriesStep ==
    ASSUME TypeOK, EntriesNotSmall, [Next]_vars
    PROVE  EntriesNotSmall'
<1>0. deposits \in [Users -> [Nonces -> Nat]] /\ MinAssetAmount \in Nat /\ epochNonce \in Nonces
  BY PrecisionAssumption DEF TypeOK
<1>1. ASSUME NEW u \in Users, NEW amount \in 1..MaxQueued, Deposit(u, amount)
      PROVE  EntriesNotSmall'
  <2>1. PICK n \in Nonces : n = epochNonce
    BY <1>0
  <2>2. /\ deposits' = [deposits EXCEPT ![u][n] = deposits[u][n] + amount]
        /\ amount >= MinAssetAmount /\ amount \in Nat /\ deposits[u][n] \in Nat
    BY <1>0, <1>1, <2>1, UserAssumption DEF Deposit
  <2>3. deposits'[u][n] = deposits[u][n] + amount /\ deposits'[u][n] >= MinAssetAmount
    BY <1>0, <2>2
  <2>4. \A v \in Users, m \in Nonces : v # u \/ m # n => deposits'[v][m] = deposits[v][m]
    BY <1>0, <2>2
  <2> QED
    BY <2>3, <2>4 DEF EntriesNotSmall
<1>2. ASSUME NEW u \in Users, NEW n \in Nonces, deposits' = [deposits EXCEPT ![u][n] = 0]
      PROVE  EntriesNotSmall'
  BY <1>0, <1>2 DEF EntriesNotSmall
<1>3. ASSUME NEW u \in Users, CancelDeposit(u)
      PROVE  EntriesNotSmall'
  BY <1>0, <1>2, <1>3 DEF CancelDeposit
<1>4. ASSUME NEW u \in Users, NEW n \in Nonces, ClaimShares(u, n)
      PROVE  EntriesNotSmall'
  BY <1>2, <1>4 DEF ClaimShares
<1>5. ASSUME UNCHANGED deposits
      PROVE  EntriesNotSmall'
  BY <1>5 DEF EntriesNotSmall
<1>6. ASSUME NEW p, NEW u, NEW x, Withdraw(p, u, x) \/ CancelWithdraw(u) \/ ClaimAsset(u, x)
      PROVE  EntriesNotSmall'
  BY <1>5, <1>6 DEF Withdraw, CancelWithdraw, ClaimAsset
<1>7. ASSUME NEW elapsed, NEW isLocal, FinalizeRebalance(elapsed, isLocal)
      PROVE  EntriesNotSmall'
  BY <1>5, <1>7 DEF FinalizeRebalance, queueVars
<1>8. CASE CloseEpoch \/ CompleteEpochDeposit \/ HandleEpochNetWithdraw \/ YieldAccrues
           \/ OnEpochCronTrigger \/ UNCHANGED vars
  BY <1>5, <1>8 DEF CloseEpoch, CompleteEpochDeposit, HandleEpochNetWithdraw, YieldAccrues,
                    OnEpochCronTrigger, queueVars, vars
<1> QED
  BY <1>1, <1>3, <1>4, <1>6, <1>7, <1>8 DEF Next

\* Where transfers arrive whole, every depositor of a closed epoch has at least one
\* share to claim, however small the deposit and however late the claim.
THEOREM DepositsMint == MaxShort = 0 => (Spec => []EveryDepositMints)
<1> SUFFICES ASSUME MaxShort = 0 PROVE Spec => []EveryDepositMints
  OBVIOUS
<1>1. Init => MintCoversDeposits /\ EntriesNotSmall
  BY DEF Init, EmptyEpoch, MintCoversDeposits, EntriesNotSmall, Closed
<1>2. EpochInv /\ MintCoversDeposits /\ EntriesNotSmall /\ [Next]_vars
        => MintCoversDeposits' /\ EntriesNotSmall'
  BY CoverStep, EntriesStep DEF EpochInv
<1>3. ASSUME EpochInv, MintCoversDeposits, EntriesNotSmall
      PROVE  EveryDepositMints
  <2> SUFFICES ASSUME NEW u \in Users, NEW n \in Nonces, Closed(n), deposits[u][n] # 0
               PROVE  ProRata(deposits[u][n], epochs[n].remainingMint,
                              epochs[n].remainingDeposit) # 0
    BY DEF EveryDepositMints
  <2>1. Queued(n) = epochs[n].remainingDeposit
    BY DEF Queued
  <2>2. deposits[u][n] <= epochs[n].remainingDeposit
    BY <1>3, <2>1, EntriesCovered DEF EpochInv
  <2>3. PICK c \in Nat \ {0}, rm \in Nat, rd \in Nat \ {0} :
          /\ c = deposits[u][n] /\ rm = epochs[n].remainingMint
          /\ rd = epochs[n].remainingDeposit /\ c <= rd
    BY <1>3, <2>2, EpochFields DEF EpochInv, TypeOK
  <2>4. rd <= rm * MinAssetAmount /\ MinAssetAmount <= c /\ MinAssetAmount \in Nat
    BY <1>3, <2>3, PrecisionAssumption DEF MintCoversDeposits, EntriesNotSmall
  <2>5. rm # 0
    <3>1. 0 * MinAssetAmount = 0
      BY <2>4
    <3> QED
      BY <2>3, <2>4, <3>1
  <2>6. CASE c = rd
    BY <2>3, <2>5, <2>6 DEF ProRata
  <2>7. CASE c # rd
    <3>1. MinAssetAmount * rm <= c * rm /\ MinAssetAmount * rm = rm * MinAssetAmount
      BY <2>4, ProductMonotone
    <3>2. c * rm \in Nat /\ rm * MinAssetAmount \in Nat
      BY <2>4, ProductNat
    <3>3. 1 * rd <= c * rm
      BY <2>4, <3>1, <3>2
    <3>4. 1 <= (c * rm) \div rd
      BY <3>2, <3>3, QuotientAtLeast
    <3>5. ProRata(c, rm, rd) = (c * rm) \div rd
      BY <2>7 DEF ProRata, MulDivDown
    <3> QED
      BY <2>3, <3>4, <3>5
  <2> QED
    BY <2>6, <2>7
<1> QED
  BY <1>1, <1>2, <1>3, EpochInvAlways, PTL DEF Spec
=============================================================================
