----------------------- MODULE ProtocolAdapter_proofs -----------------------
(* Proofs about ProtocolAdapter, for any index, tolerance, buffer and amounts: *)
(* the market may credit or pay whatever the adapter's checks let through.     *)
EXTENDS ProtocolAdapter, SumsAndQuotients

----------------------------------------------------------------------------
(* The market's rounding. *)

\* The smaller of two numbers.
LEMMA MinOfTwo ==
    ASSUME NEW a \in Nat, NEW b \in Nat
    PROVE  Min({a, b}) = IF a <= b THEN a ELSE b
<1> DEFINE m == IF a <= b THEN a ELSE b
<1>1. m \in {a, b} /\ \A y \in {a, b} : m <= y
  OBVIOUS
<1>2. \A x \in {a, b} : (\A y \in {a, b} : x <= y) => x = m
  OBVIOUS
<1> HIDE DEF m
<1> QED
  BY <1>1, <1>2 DEF Min, m

\* A position is worth a natural amount, and an amount it is worth can be taken out
\* by selling no more shares than there are.
LEMMA SoldIsHeld ==
    ASSUME NEW r \in Nat \ {0}, NEW i \in Nat \ {0}, NEW n \in Nat, NEW a \in Nat,
           a <= (n * i) \div r
    PROVE  /\ (a * r + i - 1) \div i \in Nat
           /\ (a * r + i - 1) \div i <= n
<1>1. PICK p \in Nat, v \in Nat, x \in Nat : p = n * i /\ v = p \div r /\ x = a * r
  BY ProductNat, QuotientBounds
<1>2. v * r <= p
  BY <1>1, QuotientBounds
<1>3. x <= v * r /\ v * r \in Nat
  BY <1>1, ProductMonotone, ProductNat
<1>4. x <= p
  BY <1>2, <1>3
<1>5. PICK y \in Nat : y = x + i - 1 /\ y < p + i
  BY <1>4
<1>6. PICK q \in Nat : q = y \div i /\ q * i <= y
  BY <1>5, QuotientBounds
<1>7. q * i < (n + 1) * i
  <2>1. (n + 1) * i = p + i
    BY <1>1
  <2>2. q * i \in Nat
    BY ProductNat
  <2> QED
    BY <1>5, <1>6, <2>1, <2>2
<1>8. ~(n + 1 <= q)
  <2>1. n + 1 <= q => (n + 1) * i <= q * i
    BY ProductMonotone
  <2>2. (n + 1) * i \in Nat /\ q * i \in Nat
    BY ProductNat
  <2> QED
    BY <1>7, <2>1, <2>2
<1> QED
  BY <1>1, <1>5, <1>6, <1>8

\* Selling the shares for an amount lowers the value by no more than the amount and
\* the rounded-up worth of one share.
LEMMA SaleLosesOneShare ==
    ASSUME NEW r \in Nat \ {0}, NEW i \in Nat \ {0}, NEW n \in Nat, NEW a \in Nat,
           a <= (n * i) \div r
    PROVE  (n * i) \div r
             <= ((n - (a * r + i - 1) \div i) * i) \div r + a + (i + r - 1) \div r
<1>1. PICK s \in Nat : s = (a * r + i - 1) \div i /\ s <= n
  BY SoldIsHeld
<1>2. PICK m \in Nat : m = n - s
  <2>1. s <= n
    BY <1>1
  <2> QED
    BY <2>1
<1>3. PICK A \in Nat, B \in Nat, C \in Nat, x \in Nat :
        A = n * i /\ B = s * i /\ C = m * i /\ x = a * r
  BY ProductNat
<1>4. A = B + C
  BY <1>2, <1>3
<1>5. B <= x + i - 1
  <2>1. x + i - 1 \in Nat
    BY <1>3
  <2>2. ((x + i - 1) \div i) * i <= x + i - 1
    BY <2>1, QuotientBounds
  <2> QED
    BY <1>1, <1>3, <2>2
<1>6. PICK k \in Nat : k = (i + r - 1) \div r /\ i + r - 1 < k * r + r
  <2>1. i + r - 1 \in Nat
    OBVIOUS
  <2> QED
    BY <2>1, QuotientBounds
<1>7. PICK q \in Nat, t \in Nat :
        /\ q = A \div r /\ q * r <= A
        /\ t = C \div r /\ C < t * r + r
  BY QuotientBounds
<1>8. q * r < t * r + r + x + k * r
  <2>1. /\ q * r \in Nat /\ t * r \in Nat /\ k * r \in Nat
    BY ProductNat
  <2> QED
    BY <1>4, <1>5, <1>6, <1>7, <2>1
<1>9. q * r < (t + 1 + a + k) * r
  <2>1. (t + 1 + a + k) * r = t * r + r + x + k * r
    BY <1>3
  <2> QED
    BY <1>8, <2>1
<1>10. ~(t + 1 + a + k <= q)
  <2>1. PICK g \in Nat : g = t + 1 + a + k
    OBVIOUS
  <2>2. g <= q => g * r <= q * r
    BY ProductMonotone
  <2>3. g * r \in Nat /\ q * r \in Nat
    BY ProductNat
  <2> QED
    BY <1>9, <2>1, <2>2, <2>3
<1>11. q <= t + a + k
  BY <1>10
<1> QED
  BY <1>1, <1>2, <1>3, <1>6, <1>7, <1>11

\* A larger index makes the shares worth no less.
LEMMA ValueGrows ==
    ASSUME NEW r \in Nat \ {0}, NEW i \in Nat, NEW n \in Nat
    PROVE  /\ (n * i) \div r \in Nat
           /\ (n * i) \div r <= (n * (i + 1)) \div r
<1>1. PICK p \in Nat, q \in Nat : p = n * i /\ q = n * (i + 1) /\ p <= q
  BY ProductNat, ProductMonotone
<1>2. p \div r \in Nat /\ (p \div r) * r <= p
  BY <1>1, QuotientBounds
<1>3. PICK v \in Nat : v = p \div r
  BY <1>2
<1>4. v * r <= q
  <2>1. v * r \in Nat
    BY ProductNat
  <2> QED
    BY <1>1, <1>2, <1>3, <2>1
<1>5. v <= q \div r
  BY <1>4, QuotientAtLeast
<1> QED
  BY <1>1, <1>3, <1>5

----------------------------------------------------------------------------
(* What an honest market credits and pays. *)

\* A supply of the buffer and a deposit, credited with all the shares it buys, is
\* worth at least the buffer, and the deposit up to the worth of one share.
LEMMA HonestCredit ==
    ASSUME NEW r \in Nat \ {0}, NEW i \in Nat \ {0}, NEW n \in Nat, NEW a \in Nat,
           NEW b \in Nat, NEW k \in Nat, NEW m \in Nat,
           i <= (k + 1) * r, m = ((b + a) * r) \div i,
           b = 0 \/ (m # 0 /\ b * r < i) \/ a * r >= i
    PROVE  /\ (n * i) \div r + b <= ((n + m) * i) \div r
           /\ (n * i) \div r + b + a <= ((n + m) * i) \div r + k + 1
<1>1. PICK A \in Nat, B \in Nat, C \in Nat, D \in Nat, E \in Nat :
        A = a * r /\ B = b * r /\ C = n * i /\ D = m * i /\ E = (k + 1) * r
  <2>1. /\ a * r \in Nat /\ b * r \in Nat /\ n * i \in Nat /\ m * i \in Nat
        /\ (k + 1) * r \in Nat
    BY ProductNat
  <2> QED
    BY <2>1
<1>2. A + B < D + i
  <2>1. (b + a) * r = A + B /\ A + B \in Nat
    BY <1>1
  <2>2. A + B < ((A + B) \div i) * i + i
    BY <2>1, QuotientBounds
  <2> QED
    BY <1>1, <2>1, <2>2
<1>3. B <= D
  <2>1. CASE b = 0
    BY <1>1, <2>1
  <2>2. CASE m # 0 /\ b * r < i
    <3>1. 1 * i <= m * i
      BY <2>2, ProductMonotone
    <3> QED
      BY <1>1, <2>2, <3>1
  <2>3. CASE a * r >= i
    BY <1>1, <1>2, <2>3
  <2> QED
    BY <2>1, <2>2, <2>3
<1>4. PICK v \in Nat : v = C \div r /\ v * r <= C
  BY QuotientBounds
<1>5. PICK t \in Nat : t = (C + D) \div r /\ t = ((n + m) * i) \div r
  <2>1. (n + m) * i = C + D /\ C + D \in Nat
    BY <1>1
  <2> QED
    BY <2>1, QuotientBounds
<1>6. v + b <= t
  <2>1. PICK w \in Nat : w = v + b
    OBVIOUS
  <2>2. w * r = v * r + B /\ v * r \in Nat
    BY <1>1, <2>1, ProductNat
  <2>3. w * r <= C + D
    BY <1>3, <1>4, <2>2
  <2> QED
    BY <1>5, <2>1, <2>3, QuotientAtLeast
<1>7. v + b + a <= t + k + 1
  <2>1. CASE v + b + a <= k + 1
    BY <2>1
  <2>2. CASE v + b + a > k + 1
    <3>1. PICK w \in Nat : v + b + a = w + (k + 1)
      <4>1. v + b + a - (k + 1) \in Nat
        BY <2>2
      <4> QED
        BY <4>1
    <3>2. v * r + B + A = w * r + E /\ v * r \in Nat /\ w * r \in Nat
      <4>1. (v + b + a) * r = v * r + B + A
        BY <1>1
      <4>2. (w + (k + 1)) * r = w * r + E
        BY <1>1
      <4> QED
        BY <3>1, <4>1, <4>2, ProductNat
    <3>3. w * r <= C + D
      BY <1>1, <1>2, <1>4, <3>2
    <3>4. w <= t
      BY <1>5, <3>3, QuotientAtLeast
    <3> QED
      BY <3>1, <3>4
  <2> QED
    BY <2>1, <2>2
<1> QED
  BY <1>1, <1>4, <1>5, <1>6, <1>7

----------------------------------------------------------------------------
(* The invariant. *)

\* What the buffer holds is worth less than a share of the market, except where Aave
\* v4 refused shares it had previewed, and Compound's adapter keeps none.
BufferBelowShare ==
    /\ adapter # "AaveV4" => buffered * RAY < index
    /\ adapter = "CompoundV3" => buffered = 0

AdapterInv == AdapterTypeOK /\ BufferBacked /\ BufferBelowShare

\* The numbers behind a state of the adapter.
LEMMA AdapterFacts ==
    ASSUME AdapterTypeOK
    PROVE  /\ RAY \in Nat \ {0} /\ index \in Nat \ {0} /\ shares \in Nat
           /\ vault \in Nat /\ buffered \in Nat /\ balance \in Nat /\ donated \in Nat
           /\ ProtocolTVL \in Nat /\ GetTVL = ProtocolTVL + buffered
<1>1. /\ RAY \in Nat \ {0} /\ index \in Nat \ {0} /\ shares \in Nat
      /\ vault \in Nat /\ buffered \in Nat /\ balance \in Nat /\ donated \in Nat
  BY AdapterAssumption DEF AdapterTypeOK
<1>2. ProtocolTVL \in Nat
  BY <1>1, ProductNat, QuotientBounds DEF ProtocolTVL, ValueOf
<1> QED
  BY <1>1, <1>2 DEF GetTVL

\* What a withdrawal takes from the buffer and from the market.
LEMMA WithdrawParts ==
    ASSUME AdapterTypeOK, NEW amount \in Nat, Withdraw(amount)
    PROVE  \E fromBuffer, protocolAmount, sold \in Nat :
             /\ fromBuffer <= buffered /\ protocolAmount <= ProtocolTVL /\ sold <= shares
             /\ sold = SharesSoldFor(protocolAmount)
             /\ TakeOut(fromBuffer, protocolAmount, sold)
<1>1. PICK b \in Nat, v \in Nat : b = buffered /\ v = ProtocolTVL /\ GetTVL = v + b
  BY AdapterFacts
<1>2. amount <= v + b
  BY <1>1 DEF Withdraw
<1>3. PICK f \in Nat, p \in Nat :
        f = Min({amount, b}) /\ p = amount - f /\ f <= b /\ p <= v
  <2>1. Min({amount, b}) = IF amount <= b THEN amount ELSE b
    BY MinOfTwo
  <2> QED
    BY <1>2, <2>1
<1>4. TakeOut(f, p, SharesSoldFor(p))
  BY <1>1, <1>3 DEF Withdraw
<1>5. SharesSoldFor(p) \in Nat /\ SharesSoldFor(p) <= shares
  <2>1. PICK i \in Nat \ {0}, n \in Nat : i = index /\ n = shares
    BY AdapterFacts
  <2>2. p <= (n * i) \div RAY
    BY <1>1, <1>3, <2>1 DEF ProtocolTVL, ValueOf
  <2>3. /\ (p * RAY + i - 1) \div i \in Nat
        /\ (p * RAY + i - 1) \div i <= n
    BY <2>2, SoldIsHeld, AdapterAssumption
  <2> QED
    BY <2>1, <2>3 DEF SharesSoldFor
<1> QED
  BY <1>1, <1>3, <1>4, <1>5

\* A buffer that does not grow stays below a share whose worth does not fall.
LEMMA BelowShareStays ==
    ASSUME NEW r \in Nat, NEW b \in Nat, NEW c \in Nat, NEW i \in Nat, NEW j \in Nat,
           c <= b, i <= j, b * r < i
    PROVE  c * r < j
<1>1. c * r \in Nat /\ b * r \in Nat /\ c * r <= b * r
  BY ProductNat, ProductMonotone
<1> QED
  BY <1>1

\* Taking out keeps the buffer equal to what is in hand.
LEMMA TakeOutStep ==
    ASSUME AdapterInv, NEW f \in Nat, NEW p \in Nat, NEW s \in Nat,
           f <= buffered, s <= shares, TakeOut(f, p, s)
    PROVE  AdapterInv'
<1>1. PICK x \in 0..p : /\ shares' = shares - s /\ buffered' = buffered - f
                        /\ balance' = balance - f /\ vault' = vault + f + x
  BY DEF TakeOut, Paid
<1>2. UNCHANGED <<adapter, donated, index>>
  BY DEF TakeOut
<1>3. balance = buffered + donated
  BY DEF AdapterInv, BufferBacked
<1>4. /\ buffered \in 0..MAX_BUFFERED_ASSETS /\ donated \in 0..MaxDonated
      /\ shares \in Nat /\ vault \in Nat
      /\ MAX_BUFFERED_ASSETS \in Nat /\ MaxDonated \in Nat
  BY AdapterAssumption DEF AdapterInv, AdapterTypeOK
<1>5. /\ shares' \in Nat /\ vault' \in Nat /\ buffered' \in 0..MAX_BUFFERED_ASSETS
      /\ balance' \in Nat /\ balance' = buffered' + donated
  BY <1>1, <1>3, <1>4
<1>6. BufferBelowShare'
  <2>1. /\ RAY \in Nat /\ index \in Nat /\ buffered \in Nat
        /\ buffered' \in Nat /\ buffered' <= buffered
    BY <1>1, <1>4, <1>5, AdapterFacts DEF AdapterInv
  <2>2. PICK b \in Nat, c \in Nat, i \in Nat, r \in Nat :
          b = buffered /\ c = buffered' /\ i = index /\ r = RAY /\ c <= b
    BY <2>1
  <2>3. b * r < i => c * r < i
    <3>1. c <= b /\ i <= i
      BY <2>2
    <3> QED
      BY <3>1, BelowShareStays
  <2>4. b = 0 => c = 0
    BY <2>2
  <2> QED
    BY <1>2, <2>2, <2>3, <2>4 DEF AdapterInv, BufferBelowShare
<1>7. AdapterTypeOK' /\ BufferBacked'
  BY <1>2, <1>5 DEF AdapterInv, AdapterTypeOK, BufferBacked
<1> QED
  BY <1>6, <1>7 DEF AdapterInv

\* So does a deposit, buffered, refused into the buffer, or supplied along with it.
LEMMA DepositStep ==
    ASSUME AdapterInv, NEW amount \in Nat, Deposit(amount)
    PROVE  AdapterInv'
<1>1. /\ amount <= vault /\ vault' = vault - amount
      /\ UNCHANGED <<adapter, donated, index>>
      /\ BufferDeposit(amount) \/ Supply(amount)
  BY DEF Deposit
<1>2. /\ buffered \in 0..MAX_BUFFERED_ASSETS /\ donated \in 0..MaxDonated
      /\ shares \in Nat /\ vault \in Nat
      /\ MAX_BUFFERED_ASSETS \in Nat /\ MaxDonated \in Nat
      /\ balance = buffered + donated
  BY AdapterAssumption DEF AdapterInv, AdapterTypeOK, BufferBacked
<1>3. CASE BufferDeposit(amount)
  <2>1. /\ buffered' = buffered + amount /\ buffered + amount <= MAX_BUFFERED_ASSETS
        /\ balance' = balance + amount /\ shares' = shares
    BY <1>3 DEF BufferDeposit, FitsBuffer
  <2>2. /\ vault' \in Nat /\ buffered' \in 0..MAX_BUFFERED_ASSETS /\ balance' \in Nat
        /\ balance' = buffered' + donated
    BY <1>1, <1>2, <2>1
  <2>3. BufferBelowShare'
    <3>1. ASSUME adapter # "AaveV4", Unrepresentable(buffered + amount)
          PROVE  (buffered + amount) * RAY < index
      <4>1. PICK d \in Nat, c \in Nat, r \in Nat \ {0} :
              d = index - 1 /\ c = buffered + amount /\ r = RAY
        BY AdapterFacts DEF AdapterInv
      <4>2. c <= d \div r
        BY <3>1, <4>1 DEF Unrepresentable, AdapterInv, AdapterTypeOK
      <4>3. PICK q \in Nat : q = d \div r /\ q * r <= d
        BY QuotientBounds
      <4>4. c * r <= q * r /\ c * r \in Nat /\ q * r \in Nat
        BY <4>2, <4>3, ProductMonotone, ProductNat
      <4>5. c * r < index
        BY <4>1, <4>3, <4>4, AdapterFacts DEF AdapterInv
      <4> QED
        BY <4>1, <4>5
    <3>2. CASE Supply(amount)
      <4>1. buffered' = 0 /\ 0 * RAY < index
        BY <3>2, AdapterFacts DEF Supply, AdapterInv
      <4> QED
        BY <1>1, <4>1 DEF BufferBelowShare
    <3>3. CASE ~Supply(amount)
      <4>1. adapter # "AaveV4" => Unrepresentable(buffered + amount)
        BY <3>3 DEF Deposit
      <4>2. adapter # "CompoundV3"
        BY <4>1 DEF Unrepresentable
      <4> QED
        BY <1>1, <2>1, <3>1, <4>1, <4>2 DEF BufferBelowShare
    <3> QED
      BY <3>2, <3>3
  <2>4. AdapterTypeOK' /\ BufferBacked'
    BY <1>1, <2>1, <2>2 DEF AdapterInv, AdapterTypeOK, BufferBacked
  <2> QED
    BY <2>3, <2>4 DEF AdapterInv
<1>4. CASE Supply(amount)
  <2>1. PICK minted \in Minted(buffered + amount) :
          shares' = shares + minted /\ balance' = balance - buffered /\ buffered' = 0
    BY <1>4 DEF Supply, Credited
  <2>2. minted \in Nat
    BY DEF Minted
  <2>3. /\ vault' \in Nat /\ balance' = donated /\ balance' \in Nat /\ shares' \in Nat
        /\ buffered' \in 0..MAX_BUFFERED_ASSETS /\ balance' = buffered' + donated
    BY <1>1, <1>2, <2>1, <2>2
  <2>4. 0 * RAY < index
    BY AdapterFacts DEF AdapterInv
  <2>5. BufferBelowShare'
    BY <1>1, <2>1, <2>4 DEF BufferBelowShare
  <2>6. AdapterTypeOK' /\ BufferBacked'
    BY <1>1, <2>3 DEF AdapterInv, AdapterTypeOK, BufferBacked
  <2> QED
    BY <2>5, <2>6 DEF AdapterInv
<1> QED
  BY <1>1, <1>3, <1>4

\* Every step of the adapter, the market and strangers keeps the invariant.
LEMMA AdapterInvStep == AdapterInv /\ [AdapterNext]_adapterVars => AdapterInv'
<1> SUFFICES ASSUME AdapterInv, [AdapterNext]_adapterVars PROVE AdapterInv'
  OBVIOUS
<1>0. AdapterTypeOK /\ MaxAssets \in Nat
  BY AdapterAssumption DEF AdapterInv
<1>1. ASSUME NEW amount \in 0..MaxAssets, Deposit(amount)
      PROVE  AdapterInv'
  BY <1>0, <1>1, DepositStep
<1>2. ASSUME NEW amount \in 0..MaxAssets, Withdraw(amount)
      PROVE  AdapterInv'
  <2>1. amount \in Nat
    BY <1>0
  <2> QED
    BY <1>0, <1>2, <2>1, WithdrawParts, TakeOutStep
<1>3. CASE WithdrawAll
  <2>1. PICK f \in Nat, p \in Nat, s \in Nat : f = buffered /\ p = ProtocolTVL /\ s = shares
    BY <1>0, AdapterFacts
  <2>2. TakeOut(f, p, s) /\ f <= buffered /\ s <= shares
    BY <1>3, <2>1 DEF WithdrawAll
  <2> QED
    BY <2>2, TakeOutStep
<1>4. CASE IndexGrows
  <2>1. /\ index' = index + 1 /\ buffered' = buffered /\ adapter' = adapter
        /\ RAY \in Nat /\ index \in Nat /\ buffered \in Nat
    BY <1>0, <1>4, AdapterFacts DEF IndexGrows
  <2>2. BufferBelowShare'
    BY <2>1, BelowShareStays DEF BufferBelowShare, AdapterInv
  <2>3. AdapterTypeOK' /\ BufferBacked'
    BY <1>4, AdapterAssumption DEF IndexGrows, AdapterInv, AdapterTypeOK, BufferBacked
  <2> QED
    BY <2>2, <2>3 DEF AdapterInv
<1>5. CASE Donate
  <2>1. BufferBelowShare'
    BY <1>5 DEF Donate, BufferBelowShare, AdapterInv
  <2>2. AdapterTypeOK' /\ BufferBacked'
    BY <1>5, AdapterAssumption DEF Donate, AdapterInv, AdapterTypeOK, BufferBacked
  <2> QED
    BY <2>1, <2>2 DEF AdapterInv
<1>6. CASE UNCHANGED adapterVars
  BY <1>6 DEF adapterVars, AdapterInv, AdapterTypeOK, BufferBacked, BufferBelowShare
<1> QED
  BY <1>1, <1>2, <1>3, <1>4, <1>5, <1>6 DEF AdapterNext

\* The invariant holds throughout.
LEMMA AdapterInvAlways == AdapterSpec => []AdapterInv
<1>1. AdapterInit => AdapterInv
  <2>1. 0 * RAY < RAY
    BY AdapterAssumption
  <2>2. AdapterInit => BufferBelowShare
    BY <2>1 DEF AdapterInit, BufferBelowShare
  <2>3. AdapterInit => AdapterTypeOK /\ BufferBacked
    BY AdapterAssumption DEF AdapterInit, AdapterTypeOK, BufferBacked
  <2> QED
    BY <2>2, <2>3 DEF AdapterInv
<1> QED
  BY <1>1, AdapterInvStep, PTL DEF AdapterSpec

----------------------------------------------------------------------------
(* Theorems. *)

\* The buffer never outgrows MAX_BUFFERED_ASSETS, and no withdrawal sells more
\* shares than the adapter has, whatever the market's rounding.
THEOREM AdapterTyping == AdapterSpec => []AdapterTypeOK
<1>1. AdapterInv => AdapterTypeOK
  BY DEF AdapterInv
<1> QED
  BY <1>1, AdapterInvAlways, PTL

\* The adapter holds exactly s_bufferedAssets besides what strangers sent it, after
\* any sequence of buffered, supplied and refused deposits and of withdrawals.
THEOREM BufferIsBacked == AdapterSpec => []BufferBacked
<1>1. AdapterInv => BufferBacked
  BY DEF AdapterInv
<1> QED
  BY <1>1, AdapterInvAlways, PTL

\* What a withdrawal may cost the vault.
LEMMA TakeOutLoses ==
    ASSUME AdapterTypeOK, NEW f \in Nat, NEW p \in Nat, NEW s \in Nat, NEW k \in Nat,
           f <= buffered, TakeOut(f, p, s), ValueOf(shares - s) \in Nat,
           ProtocolTVL <= ValueOf(shares - s) + p + k
    PROVE  vault' + GetTVL' + WEI_TOLERANCE + k >= vault + GetTVL
<1>1. PICK x \in 0..p : /\ p # 0 => CompleteWithdraw(p, x)
                        /\ shares' = shares - s /\ buffered' = buffered - f
                        /\ vault' = vault + f + x
  BY DEF TakeOut, Paid
<1>2. x + WEI_TOLERANCE >= p /\ x \in Nat /\ WEI_TOLERANCE \in Nat
  BY <1>1, AdapterAssumption DEF CompleteWithdraw
<1>3. GetTVL' = ValueOf(shares - s) + (buffered - f)
  <2>1. index' = index
    BY DEF TakeOut
  <2> QED
    BY <1>1, <2>1 DEF GetTVL, ProtocolTVL, ValueOf
<1>4. PICK v \in Nat, b \in Nat, u \in Nat, t \in Nat :
        v = ProtocolTVL /\ b = buffered /\ u = vault /\ t = ValueOf(shares - s)
  BY AdapterFacts
<1>5. GetTVL = v + b
  BY <1>4 DEF GetTVL
<1>6. (u + f + x) + (t + (b - f)) + WEI_TOLERANCE + k >= u + (v + b)
  BY <1>2, <1>4
<1> QED
  BY <1>1, <1>3, <1>4, <1>5, <1>6

\* No call costs the vault more than WEI_TOLERANCE and the worth of one share,
\* whatever the market credits or pays within the adapter's checks.
THEOREM CallsLoseDustAtMost == AdapterSpec => CallsLoseOnlyDust
<1> DEFINE K == (index + RAY - 1) \div RAY
<1>1. ASSUME AdapterInv, [AdapterNext]_adapterVars
      PROVE  vault' + GetTVL' + WEI_TOLERANCE + K >= vault + GetTVL
  <2>0. AdapterTypeOK /\ MaxAssets \in Nat /\ WEI_TOLERANCE \in Nat
    BY <1>1, AdapterAssumption DEF AdapterInv
  <2>1. PICK i \in Nat \ {0}, n \in Nat, u \in Nat, b \in Nat, v \in Nat, k \in Nat :
          /\ i = index /\ n = shares /\ u = vault /\ b = buffered /\ v = ProtocolTVL
          /\ k = K /\ GetTVL = v + b
    <3>1. PICK i \in Nat \ {0} : i = index
      BY <2>0, AdapterFacts
    <3>2. i + RAY - 1 \in Nat /\ RAY \in Nat \ {0}
      BY AdapterAssumption
    <3>3. (i + RAY - 1) \div RAY \in Nat
      BY <3>2, QuotientBounds
    <3> QED
      BY <2>0, <3>1, <3>3, AdapterFacts
  <2>2. v = (n * i) \div RAY /\ RAY \in Nat \ {0}
    BY <2>1, AdapterAssumption DEF ProtocolTVL, ValueOf
  <2> HIDE DEF K
  <2>3. ASSUME NEW amount \in 0..MaxAssets, Deposit(amount)
        PROVE  vault' + GetTVL' + WEI_TOLERANCE + k >= vault + GetTVL
    <3>1. /\ amount <= u /\ vault' = u - amount /\ index' = index /\ amount \in Nat
          /\ BufferDeposit(amount) \/ Supply(amount)
      BY <2>0, <2>1, <2>3 DEF Deposit
    <3>2. CASE BufferDeposit(amount)
      <4>1. GetTVL' = v + (b + amount)
        BY <2>1, <3>1, <3>2 DEF BufferDeposit, GetTVL, ProtocolTVL, ValueOf
      <4>2. (u - amount) + (v + (b + amount)) + WEI_TOLERANCE + k >= u + (v + b)
        BY <2>0, <3>1
      <4> QED
        BY <2>1, <3>1, <4>1, <4>2
    <3>3. CASE Supply(amount)
      <4>1. PICK minted \in Minted(buffered + amount) :
              /\ CompleteDeposit(GetTVL, ValueOf(shares + minted), amount)
              /\ shares' = shares + minted /\ buffered' = 0
        BY <3>3 DEF Supply, Credited
      <4>2. minted \in Nat
        BY DEF Minted
      <4>3. PICK t \in Nat : t = ValueOf(shares + minted)
        <5>1. PICK m \in Nat : m = n + minted
          BY <4>2
        <5>2. (m * i) \div RAY \in Nat
          BY <2>2, ProductNat, QuotientBounds
        <5> QED
          BY <2>1, <5>1, <5>2 DEF ValueOf
      <4>4. GetTVL' = t
        <5>1. GetTVL' = ValueOf(shares + minted) + 0
          BY <3>1, <4>1 DEF GetTVL, ProtocolTVL, ValueOf
        <5> QED
          BY <4>3, <5>1
      <4>5. t >= v + b /\ t - (v + b) + WEI_TOLERANCE >= amount
        BY <2>1, <4>1, <4>3 DEF CompleteDeposit
      <4>6. (u - amount) + t + WEI_TOLERANCE + k >= u + (v + b)
        BY <2>0, <3>1, <4>5
      <4> QED
        BY <2>1, <3>1, <4>4, <4>6
    <3> QED
      BY <3>1, <3>2, <3>3
  <2>4. ASSUME NEW amount \in 0..MaxAssets, Withdraw(amount)
        PROVE  vault' + GetTVL' + WEI_TOLERANCE + k >= vault + GetTVL
    <3>1. amount \in Nat
      BY <2>0
    <3>2. PICK f \in Nat, p \in Nat, s \in Nat :
            /\ f <= buffered /\ p <= ProtocolTVL /\ s <= shares
            /\ s = SharesSoldFor(p) /\ TakeOut(f, p, s)
      BY <2>0, <2>4, <3>1, WithdrawParts
    <3>3. s = (p * RAY + i - 1) \div i /\ p <= (n * i) \div RAY
      BY <2>1, <2>2, <3>2 DEF SharesSoldFor
    <3>4. v <= ((n - s) * i) \div RAY + p + (i + RAY - 1) \div RAY
      BY <2>2, <3>3, SaleLosesOneShare
    <3>5. PICK m \in Nat : m = n - s
      BY <2>1, <3>2
    <3>6. (m * i) \div RAY \in Nat
      BY <2>2, ProductNat, QuotientBounds
    <3>7. ValueOf(shares - s) \in Nat /\ ProtocolTVL <= ValueOf(shares - s) + p + k
      BY <2>1, <3>4, <3>5, <3>6 DEF ValueOf, K
    <3> QED
      BY <2>0, <3>2, <3>7, TakeOutLoses
  <2>5. CASE WithdrawAll
    <3>1. PICK f \in Nat, p \in Nat, s \in Nat :
            f = b /\ p = v /\ s = n /\ TakeOut(f, p, s)
      BY <2>1, <2>5 DEF WithdrawAll
    <3>2. ValueOf(shares - s) = 0
      <4>1. 0 * i = 0 /\ n - n = 0
        OBVIOUS
      <4>2. 0 \div RAY \in Nat /\ 0 \div RAY <= 0
        BY <2>2, QuotientBounds, QuotientAtMost
      <4> QED
        BY <2>1, <3>1, <4>1, <4>2 DEF ValueOf
    <3>3. ValueOf(shares - s) \in Nat /\ ProtocolTVL <= ValueOf(shares - s) + p + k
      BY <2>1, <3>1, <3>2
    <3>4. f <= buffered
      BY <2>1, <3>1
    <3>5. vault' + GetTVL' + WEI_TOLERANCE + k >= vault + GetTVL
      BY <2>0, <3>1, <3>3, <3>4, TakeOutLoses
    <3> QED
      BY <2>1, <3>5
  <2>6. CASE IndexGrows
    <3>1. /\ vault' = u /\ buffered' = b /\ shares' = n /\ index' = i + 1
      BY <2>1, <2>6 DEF IndexGrows
    <3>2. PICK t \in Nat : t = (n * (i + 1)) \div RAY /\ v <= t
      <4>1. i + 1 \in Nat
        OBVIOUS
      <4> QED
        BY <2>2, <4>1, ValueGrows
    <3>3. GetTVL' = t + b
      BY <3>1, <3>2 DEF GetTVL, ProtocolTVL, ValueOf
    <3>4. u + (t + b) + WEI_TOLERANCE + k >= u + (v + b)
      BY <2>0, <3>2
    <3> QED
      BY <2>1, <3>1, <3>3, <3>4
  <2>7. CASE UNCHANGED <<vault, buffered, shares, index>>
    <3>1. vault' = u /\ GetTVL' = v + b
      BY <2>1, <2>7 DEF GetTVL, ProtocolTVL, ValueOf
    <3>2. u + (v + b) + WEI_TOLERANCE + k >= u + (v + b)
      BY <2>0
    <3> QED
      BY <2>1, <3>1, <3>2
  <2>8. CASE Donate \/ UNCHANGED adapterVars
    BY <2>7, <2>8 DEF Donate, adapterVars
  <2> QED
    BY <1>1, <2>1, <2>3, <2>4, <2>5, <2>6, <2>8 DEF AdapterNext
<1>2. AdapterInv /\ [AdapterNext]_adapterVars =>
        [vault' + GetTVL' + WEI_TOLERANCE + (index + RAY - 1) \div RAY
           >= vault + GetTVL]_adapterVars
  BY <1>1
<1> QED
  BY <1>2, AdapterInvAlways, PTL DEF AdapterSpec, CallsLoseOnlyDust

----------------------------------------------------------------------------
(* Rounding never refuses the vault. *)

\* A deposit the adapter keeps because it is worth no share fits the buffer, while a
\* share is worth no more than the buffer and one more.
LEMMA UnrepresentableFits ==
    ASSUME AdapterTypeOK, NEW amount \in Nat, Unrepresentable(buffered + amount),
           index <= (MAX_BUFFERED_ASSETS + 1) * RAY
    PROVE  FitsBuffer(amount)
<1>1. PICK i \in Nat \ {0}, r \in Nat \ {0}, x \in Nat, k \in Nat :
        i = index /\ r = RAY /\ x = buffered + amount /\ k = MAX_BUFFERED_ASSETS
  <2>1. buffered + amount \in Nat /\ MAX_BUFFERED_ASSETS \in Nat
    BY AdapterFacts, AdapterAssumption
  <2> QED
    BY <2>1, AdapterFacts
<1>2. x * r < i
  <2>1. CASE adapter = "AaveV3"
    <3>1. PICK d \in Nat : d = i - 1
      OBVIOUS
    <3>2. PICK q \in Nat : q = d \div r /\ q * r <= d
      BY QuotientBounds
    <3>3. x <= q
      BY <1>1, <2>1, <3>1, <3>2 DEF Unrepresentable
    <3>4. x * r <= q * r /\ x * r \in Nat /\ q * r \in Nat
      BY <3>3, ProductMonotone, ProductNat
    <3> QED
      BY <3>1, <3>2, <3>4
  <2>2. CASE adapter = "AaveV4"
    <3>1. PICK y \in Nat : y = x * r
      BY ProductNat
    <3>2. y \div i = 0
      BY <1>1, <2>2, <3>1 DEF Unrepresentable, SharesBoughtWith
    <3>3. y < (y \div i) * i + i
      BY QuotientBounds
    <3> QED
      BY <3>1, <3>2, <3>3
  <2>3. CASE adapter = "CompoundV3"
    BY <2>3 DEF Unrepresentable
  <2> QED
    BY <2>1, <2>2, <2>3 DEF AdapterTypeOK
<1>3. ~(k + 1 <= x)
  <2>1. k + 1 <= x => (k + 1) * r <= x * r
    BY ProductMonotone
  <2>2. (k + 1) * r \in Nat /\ x * r \in Nat /\ i <= (k + 1) * r
    BY <1>1, ProductNat
  <2> QED
    BY <1>2, <2>1, <2>2
<1> QED
  BY <1>1, <1>3 DEF FitsBuffer

\* A deposit the adapter supplies, credited with all it buys, passes the check.
LEMMA HonestCreditPasses ==
    ASSUME AdapterInv, NEW amount \in Nat, amount # 0,
           index <= (MAX_BUFFERED_ASSETS + 1) * RAY,
           ~Unrepresentable(buffered + amount),
           ~(adapter = "AaveV4" /\ buffered * RAY >= index /\ amount * RAY < index)
    PROVE  SharesBoughtWith(buffered + amount) \in Credited(amount)
<1>0. AdapterTypeOK
  BY DEF AdapterInv
<1>1. PICK i \in Nat \ {0}, r \in Nat \ {0}, b \in Nat, n \in Nat, k \in Nat, w \in Nat :
        /\ i = index /\ r = RAY /\ b = buffered /\ n = shares
        /\ k = MAX_BUFFERED_ASSETS /\ w = WEI_TOLERANCE /\ k + 1 <= w
  BY <1>0, AdapterFacts, AdapterAssumption, ToleranceAssumption
<1>2. PICK y \in Nat, m \in Nat :
        /\ y = (b + amount) * r /\ m = y \div i
        /\ m * i <= y /\ y < m * i + i
  <2>1. PICK y \in Nat : y = (b + amount) * r
    BY ProductNat
  <2> QED
    BY <2>1, QuotientBounds
<1>3. m = SharesBoughtWith(buffered + amount)
  BY <1>1, <1>2 DEF SharesBoughtWith
<1>4. b * r \in Nat /\ amount * r \in Nat
  BY ProductNat
<1>5. m # 0 \/ adapter = "CompoundV3"
  <2>1. CASE adapter = "AaveV3"
    <3>1. PICK d \in Nat : d = i - 1
      OBVIOUS
    <3>2. PICK q \in Nat : q = d \div r /\ d < q * r + r
      BY QuotientBounds
    <3>3. PICK x \in Nat : x = b + amount /\ y = x * r
      BY <1>2
    <3>4. q + 1 <= x
      BY <1>1, <2>1, <3>1, <3>2, <3>3 DEF Unrepresentable
    <3>5. (q + 1) * r <= x * r /\ (q + 1) * r = q * r + r /\ q * r \in Nat
      BY <3>4, ProductMonotone, ProductNat
    <3>6. i <= y
      BY <3>1, <3>2, <3>3, <3>5
    <3> QED
      BY <1>2, <3>6
  <2>2. CASE adapter = "AaveV4"
    BY <1>3, <2>2 DEF Unrepresentable
  <2> QED
    BY <1>0, <2>1, <2>2 DEF AdapterTypeOK
<1>6. b = 0 \/ (m # 0 /\ b * r < i) \/ amount * r >= i
  <2>1. CASE adapter = "AaveV4"
    BY <1>1, <1>4, <1>5, <2>1
  <2>2. CASE adapter = "AaveV3"
    BY <1>1, <1>5, <2>2 DEF AdapterInv, BufferBelowShare
  <2>3. CASE adapter = "CompoundV3"
    BY <1>1, <2>3 DEF AdapterInv, BufferBelowShare
  <2> QED
    BY <1>0, <2>1, <2>2, <2>3 DEF AdapterTypeOK
<1>7. /\ (n * i) \div r + b <= ((n + m) * i) \div r
      /\ (n * i) \div r + b + amount <= ((n + m) * i) \div r + k + 1
  BY <1>1, <1>2, <1>6, HonestCredit
<1>8. PICK v \in Nat, t \in Nat : v = (n * i) \div r /\ t = ((n + m) * i) \div r
  <2>1. n * i \in Nat /\ (n + m) * i \in Nat
    BY ProductNat
  <2> QED
    BY <2>1, QuotientBounds
<1>9. t >= v + b /\ t - (v + b) + w >= amount
  BY <1>1, <1>7, <1>8
<1>10. CompleteDeposit(GetTVL, ValueOf(shares + m), amount)
  BY <1>1, <1>8, <1>9 DEF CompleteDeposit, GetTVL, ProtocolTVL, ValueOf
<1>11. m \in Minted(buffered + amount)
  BY <1>1, <1>2, <1>3, <1>5 DEF Minted
<1> QED
  BY <1>3, <1>10, <1>11 DEF Credited

\* What a market that pays in full pays passes the check.
LEMMA HonestPayPasses ==
    ASSUME NEW f \in Nat, NEW p \in Nat, f + p # 0
    PROVE  p \in Paid(f, p)
BY AdapterAssumption DEF Paid, CompleteWithdraw

\* While the index has not outgrown the buffer, no rounding of an honest market
\* makes the adapter refuse the vault, a deposit just after Aave v4 refused shares
\* excepted.
THEOREM RoundingIsAccepted == AdapterSpec => []RoundingNeverRefuses
<1>1. ASSUME AdapterInv PROVE RoundingNeverRefuses
  <2> SUFFICES ASSUME index <= (MAX_BUFFERED_ASSETS + 1) * RAY
               PROVE  RoundingNeverRefuses
    BY DEF RoundingNeverRefuses
  <2>0. AdapterTypeOK
    BY <1>1 DEF AdapterInv
  <2>1. ASSUME NEW amount \in 1..vault
        PROVE  \/ adapter = "AaveV4" /\ buffered * RAY >= index /\ amount * RAY < index
               \/ IF Unrepresentable(buffered + amount)
                  THEN FitsBuffer(amount)
                  ELSE SharesBoughtWith(buffered + amount) \in Credited(amount)
    <3>1. amount \in Nat /\ amount # 0
      BY <2>0, AdapterFacts
    <3> QED
      BY <1>1, <2>0, <3>1, UnrepresentableFits, HonestCreditPasses
  <2>2. ASSUME NEW amount \in 1..GetTVL
        PROVE  LET fromBuffer == Min({amount, buffered})
               IN  amount - fromBuffer \in Paid(fromBuffer, amount - fromBuffer)
    <3>1. PICK b \in Nat : b = buffered /\ amount \in Nat /\ amount # 0
      BY <2>0, AdapterFacts
    <3>2. PICK f \in Nat, p \in Nat :
            f = Min({amount, b}) /\ p = amount - f /\ f + p # 0
      <4>1. Min({amount, b}) = IF amount <= b THEN amount ELSE b
        BY <3>1, MinOfTwo
      <4> QED
        BY <3>1, <4>1
    <3>3. p \in Paid(f, p)
      BY <3>2, HonestPayPasses
    <3> QED
      BY <3>1, <3>2, <3>3
  <2>3. ASSUME GetTVL # 0 PROVE ProtocolTVL \in Paid(buffered, ProtocolTVL)
    <3>1. /\ ProtocolTVL \in Nat /\ buffered \in Nat
          /\ buffered + ProtocolTVL # 0
      BY <2>0, <2>3, AdapterFacts
    <3> QED
      BY <3>1, HonestPayPasses
  <2> QED
    BY <2>1, <2>2, <2>3 DEF RoundingNeverRefuses
<1> QED
  BY <1>1, AdapterInvAlways, PTL
=============================================================================
