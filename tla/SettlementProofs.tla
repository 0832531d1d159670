-------------------------- MODULE SettlementProofs --------------------------
(***************************************************************************)
(* What settlement pays: FilecoinPay accepts every decision of the         *)
(* validator, the total over all rails of a deal never exceeds what its    *)
(* service is worth, and nothing can lock the remainder of a rail.         *)
(***************************************************************************)
EXTENDS PoRepMarketProofs, StoredService

-----------------------------------------------------------------------------
(* Rounding *)

LEMMA TimesMonotone ==
  ASSUME NEW a \in Nat, NEW b \in Nat, NEW m \in Nat, a <= b
  PROVE  a * m \in Nat /\ b * m \in Nat /\ a * m <= b * m
<1>1. PICK t \in Nat : b = a + t
  <2>1. b - a \in Nat /\ b = a + (b - a)
    OBVIOUS
  <2> QED
    BY <2>1
<1>2. b * m = a * m + t * m /\ a * m \in Nat /\ t * m \in Nat
  BY <1>1
<1> DEFINE x == a * m
           y == t * m
           z == b * m
<1>3. x \in Nat /\ y \in Nat /\ z = x + y
  BY <1>2
<1> HIDE DEF x, y, z
<1>4. x \in Nat /\ z \in Nat /\ x <= z
  BY <1>3
<1> QED
  BY <1>4 DEF x, z

LEMMA QuotientBounds ==
  ASSUME NEW x \in Nat, NEW m \in Nat \ {0}
  PROVE  /\ x \div m \in Nat
         /\ (x \div m) * m \in Nat
         /\ (x \div m) * m <= x
         /\ x < (x \div m) * m + m
<1> DEFINE q == x \div m
<1>1. q \in Nat /\ m * q <= x /\ x < m * (q + 1)
  OBVIOUS
<1> HIDE DEF q
<1>2. m * q = q * m /\ m * (q + 1) = q * m + m /\ q * m \in Nat
  BY <1>1
<1> QED
  BY <1>1, <1>2 DEF q

LEMMA QuotientMonotone ==
  ASSUME NEW x \in Nat, NEW y \in Nat, NEW m \in Nat \ {0}, x <= y
  PROVE  x \div m <= y \div m
<1> DEFINE p == x \div m
           q == y \div m
<1>1. /\ p \in Nat /\ q \in Nat /\ p * m \in Nat /\ q * m \in Nat
      /\ p * m <= x /\ y < q * m + m
  BY QuotientBounds
<1> HIDE DEF p, q
<1>2. ASSUME q < p PROVE FALSE
  <2>1. (q + 1) * m <= p * m
    BY <1>1, <1>2, TimesMonotone
  <2>2. (q + 1) * m = q * m + m
    BY <1>1
  <2> DEFINE pm == p * m
             qm == q * m
  <2>3. pm \in Nat /\ qm \in Nat /\ qm + m <= pm /\ pm <= x /\ y < qm + m
    BY <1>1, <2>1, <2>2
  <2> HIDE DEF pm, qm
  <2> QED
    BY <2>3
<1>3. q >= p
  BY <1>1, <1>2
<1> QED
  BY <1>1, <1>3 DEF p, q

\* Whole multiples of the divisor pass through a division.
LEMMA QuotientOfSum ==
  ASSUME NEW a \in Nat, NEW b \in Nat, NEW m \in Nat \ {0}
  PROVE  (a + b * m) \div m = (a \div m) + b
<1> DEFINE bm == b * m
           x == a + bm
           p == x \div m
           q == a \div m
<1>0. bm \in Nat /\ x \in Nat
  <2>1. bm \in Nat
    OBVIOUS
  <2> HIDE DEF bm
  <2> QED
    BY <2>1
<1>1. /\ p \in Nat /\ p * m \in Nat /\ p * m <= x /\ x < p * m + m
      /\ q \in Nat /\ q * m \in Nat /\ q * m <= a /\ a < q * m + m
  <2> HIDE DEF x
  <2> QED
    BY <1>0, QuotientBounds
<1> HIDE DEF p, q
<1> DEFINE r == q + b
           pm == p * m
           qm == q * m
           rm == r * m
<1>2. rm = qm + bm /\ r \in Nat /\ pm \in Nat /\ qm \in Nat
  BY <1>1
<1>3. (p + 1) * m = pm + m /\ (r + 1) * m = rm + m
  BY <1>1, <1>2
<1>4. p < r => pm + m <= rm
  BY <1>1, <1>2, <1>3, TimesMonotone
<1>5. r < p => rm + m <= pm
  BY <1>1, <1>2, <1>3, TimesMonotone
<1>6. x = a + bm /\ pm <= x /\ x < pm + m /\ qm <= a /\ a < qm + m
  BY <1>1
<1> HIDE DEF x, bm, pm, qm, rm, r
<1>7. p = r
  <2>1. rm \in Nat
    BY <1>0, <1>2
  <2> QED
    BY <1>0, <1>1, <1>2, <1>4, <1>5, <1>6, <2>1
<1> QED
  BY <1>7 DEF p, q, r, x, bm

LEMMA CeilDivCovers ==
  ASSUME NEW k \in Nat, NEW m \in Nat \ {0}
  PROVE  CeilDiv(k, m) \in Nat /\ k <= CeilDiv(k, m) * m
<1>1. CASE k = 0
  BY <1>1 DEF CeilDiv
<1>2. CASE k # 0
  <2> DEFINE q == (k - 1) \div m
  <2>1. k - 1 \in Nat /\ CeilDiv(k, m) = q + 1
    BY <1>2 DEF CeilDiv
  <2>2. q \in Nat /\ q * m \in Nat /\ k - 1 < q * m + m
    BY <2>1, QuotientBounds
  <2> HIDE DEF q
  <2>3. (q + 1) * m = q * m + m
    BY <2>2
  <2>4. k <= q * m + m
    <3> DEFINE qm == q * m
    <3>1. qm \in Nat /\ k - 1 < qm + m
      BY <2>2
    <3> HIDE DEF qm
    <3>2. k <= qm + m
      BY <3>1
    <3> QED
      BY <3>2 DEF qm
  <2> QED
    BY <2>1, <2>2, <2>3, <2>4
<1> QED
  BY <1>1, <1>2

\* What a rate of k per month earns in some epochs, rounded down over all of
\* them, against the rate per epoch, rounded up.
LEMMA EarnedBounds ==
  ASSUME NEW k \in Nat, NEW a \in Nat, NEW b \in Nat, NEW m \in Nat \ {0}
  PROVE  /\ (k * a) \div m \in Nat
         /\ (k * a) \div m <= (k * (a + b)) \div m
         /\ CeilDiv(k, m) * b \in Nat
         /\ (k * (a + b)) \div m <= (k * a) \div m + CeilDiv(k, m) * b
<1> DEFINE rate == CeilDiv(k, m)
           ka == k * a
           kb == k * b
           rb == rate * b
<1>1. rate \in Nat /\ k <= rate * m
  BY CeilDivCovers
<1> HIDE DEF rate
<1>2. ka \in Nat /\ kb \in Nat /\ rb \in Nat /\ k * (a + b) = ka + kb
  BY <1>1
<1>3. kb <= rb * m /\ rb * m \in Nat
  <2>1. rate * m \in Nat
    BY <1>1
  <2>2. k * b <= (rate * m) * b
    BY <1>1, <2>1, TimesMonotone
  <2>3. (rate * m) * b = rb * m /\ rb * m \in Nat
    BY <1>1
  <2> QED
    BY <2>2, <2>3
<1> HIDE DEF ka, kb, rb
<1>4. ka + kb \in Nat /\ ka + rb * m \in Nat /\ ka <= ka + kb /\ ka + kb <= ka + rb * m
  <2> DEFINE rbm == rb * m
  <2>1. rbm \in Nat /\ kb <= rbm
    BY <1>3
  <2> HIDE DEF rbm
  <2>2. ka + kb \in Nat /\ ka + rbm \in Nat /\ ka <= ka + kb /\ ka + kb <= ka + rbm
    BY <1>2, <2>1
  <2> QED
    BY <2>2 DEF rbm
<1>5. ka \div m \in Nat /\ ka \div m <= (ka + kb) \div m
  BY <1>2, <1>4, QuotientBounds, QuotientMonotone
<1>6. (ka + kb) \div m <= (ka + rb * m) \div m
  BY <1>4, QuotientMonotone
<1>7. (ka + rb * m) \div m = ka \div m + rb
  BY <1>2, QuotientOfSum
<1> QED
  BY <1>2, <1>5, <1>6, <1>7 DEF ka, kb, rb, rate

MonthlyRate(d) == terms[d].price * BilledUnits(dealCommitted[d])

LEMMA DueBounds ==
  ASSUME TypeInv, NEW d \in Existing, NEW from \in Nat, NEW to \in Nat, from <= to
  PROVE  /\ DueAmount(d, from) \in Nat /\ DueAmount(d, to) \in Nat
         /\ DueAmount(d, from) <= DueAmount(d, to)
         /\ AmountPerEpoch(terms[d].price, BilledUnits(dealCommitted[d])) * (to - from) \in Nat
         /\ DueAmount(d, to) - DueAmount(d, from) <=
              AmountPerEpoch(terms[d].price, BilledUnits(dealCommitted[d])) * (to - from)
<1> DEFINE k == MonthlyRate(d)
           m == EPOCHS_IN_MONTH
           start == serviceStart[d]
           rate == CeilDiv(k, m)
<1>1. k \in Nat /\ start \in Nat /\ m \in Nat \ {0}
  <2>1. terms[d].price \in Nat /\ dealCommitted[d] \in Nat /\ serviceStart[d] \in Nat
    <3>1. d \in Deals /\ terms[d] \in DealTerms
      BY ValidatorAssumption DEF TypeInv, TypeOK, MarketTypeOK, Existing, Deals
    <3> QED
      BY <3>1 DEF TypeInv, TypeOK, MarketTypeOK, DealTerms
  <2>2. BilledUnits(dealCommitted[d]) \in Nat
    BY <2>1, CeilDivType, MarketAssumption DEF BilledUnits
  <2>3. terms[d].price * BilledUnits(dealCommitted[d]) \in Nat
    BY <2>1, <2>2
  <2> QED
    BY <2>1, <2>3, MarketAssumption DEF MonthlyRate
<1>2. /\ AmountPerEpoch(terms[d].price, BilledUnits(dealCommitted[d])) = rate
      /\ \A epoch \in Nat : DueAmount(d, epoch) =
           IF epoch <= start THEN 0 ELSE (k * (epoch - start)) \div m
  BY DEF AmountPerEpoch, MonthlyRate, DueAmount
<1> HIDE DEF k, m, start
<1>3. CASE to <= start
  <2>1. DueAmount(d, from) = 0 /\ DueAmount(d, to) = 0
    BY <1>1, <1>2, <1>3
  <2>2. to - from \in Nat
    OBVIOUS
  <2>3. rate * (to - from) \in Nat
    BY <1>1, <2>2, EarnedBounds
  <2> QED
    BY <1>2, <2>1, <2>3
<1>4. CASE from <= start /\ start < to
  <2> DEFINE a == 0
             b == to - start
             c == start - from
  <2>1. DueAmount(d, from) = 0 /\ DueAmount(d, to) = (k * b) \div m
    BY <1>1, <1>2, <1>4
  <2>2. b \in Nat /\ c \in Nat /\ to - from = b + c
    BY <1>1, <1>4
  <2> HIDE DEF b, c
  <2>3. (k * b) \div m \in Nat /\ (k * (0 + b)) \div m <= (k * 0) \div m + rate * b
    BY <1>1, <2>2, EarnedBounds
  <2>4. 0 + b = b /\ (k * 0) \div m = 0
    BY <1>1, <2>2
  <2>5. rate * b \in Nat /\ rate * c \in Nat /\ rate \in Nat
    BY <1>1, <2>2, EarnedBounds, CeilDivCovers
  <2> HIDE DEF rate
  <2>6. rate * (b + c) = rate * b + rate * c
    BY <2>2, <2>5
  <2>7. (k * b) \div m <= rate * b
    BY <2>3, <2>4, <2>5
  <2>8. rate * b <= rate * (b + c) /\ rate * (b + c) \in Nat
    <3> DEFINE x == rate * b
               y == rate * c
    <3>1. x \in Nat /\ y \in Nat
      BY <2>5
    <3> HIDE DEF x, y
    <3>2. x + y \in Nat /\ x <= x + y
      BY <3>1
    <3> QED
      BY <2>6, <3>2 DEF x, y
  <2> QED
    <3> DEFINE x == rate * b
               z == rate * (b + c)
               due == (k * b) \div m
    <3>1. due \in Nat /\ x \in Nat /\ z \in Nat /\ due <= x /\ x <= z
      BY <2>3, <2>5, <2>7, <2>8
    <3>2. DueAmount(d, from) = 0 /\ DueAmount(d, to) = due
      BY <2>1
    <3>3. AmountPerEpoch(terms[d].price, BilledUnits(dealCommitted[d])) * (to - from) = z
      BY <1>2, <2>2
    <3> HIDE DEF x, z, due
    <3> QED
      BY <3>1, <3>2, <3>3
<1>5. CASE start < from
  <2> DEFINE a == from - start
             b == to - from
  <2>1. /\ DueAmount(d, from) = (k * a) \div m
        /\ DueAmount(d, to) = (k * (to - start)) \div m
    BY <1>1, <1>2, <1>5
  <2>2. a \in Nat /\ b \in Nat /\ to - start = a + b
    BY <1>1, <1>5
  <2> HIDE DEF a
  <2>3. /\ (k * a) \div m \in Nat
        /\ (k * a) \div m <= (k * (a + b)) \div m
        /\ rate * b \in Nat
        /\ (k * (a + b)) \div m <= (k * a) \div m + rate * b
    BY <1>1, <2>2, EarnedBounds
  <2>4. a + b \in Nat
    BY <2>2
  <2>5. (k * (a + b)) \div m \in Nat
    BY <1>1, <2>4, EarnedBounds
  <2> DEFINE x == (k * a) \div m
             y == (k * (a + b)) \div m
             z == rate * b
  <2>6. x \in Nat /\ y \in Nat /\ z \in Nat /\ x <= y /\ y <= x + z
    BY <2>3, <2>5
  <2>7. DueAmount(d, from) = x /\ DueAmount(d, to) = y
    BY <2>1, <2>2
  <2>8. AmountPerEpoch(terms[d].price, BilledUnits(dealCommitted[d])) * (to - from) = z
    BY <1>2
  <2> HIDE DEF x, y, z
  <2> QED
    BY <2>6, <2>7, <2>8
<1> QED
  BY <1>1, <1>3, <1>4, <1>5

-----------------------------------------------------------------------------
(* The invariant of deals and their rails *)

\* The deal's own rail follows the deal: it runs until the deal is closed, its
\* rate is what the committed bytes cost, and it has paid at most what is due
\* up to its cursor, nothing before service starts.
RailSettled(d) ==
  LET r == railId[d]
  IN  /\ r = 0 => lastSettled[d] = 0
      /\ r # 0 =>
           /\ Live(d) => railEnd[r] = 0
           /\ lastSettled[d] <= railCursor[r]
           /\ ~Started(d) => railPaid[r] = 0
           /\ Started(d) =>
                /\ railRate[r] = AmountPerEpoch(terms[d].price, BilledUnits(dealCommitted[d]))
                /\ railPaid[r] <= DueAmount(d, EffectiveTo(d, railCursor[r]))

\* Nothing is settled ahead of time, and rails that are not a deal's own, or
\* not created yet, have paid nothing.
RailBounded(r) ==
  /\ railCursor[r] <= now
  /\ r \notin 1 .. railCount => railEnd[r] = 0
  /\ railPaid[r] # 0 => r \in 1 .. railCount /\ IsRailIdValid(r)

SettlementInv ==
  /\ DealInv
  /\ \A d \in Deals : RailSettled(d)
  /\ \A r \in Rails : RailBounded(r)

-----------------------------------------------------------------------------
(* What a settlement decides *)

LEMMA EffectiveType ==
  ASSUME TypeInv, NEW d \in Deals, NEW to \in Nat
  PROVE  /\ LastPayableEpoch(d) \in Nat
         /\ EffectiveTo(d, to) \in Nat /\ EffectiveTo(d, to) <= to
         /\ EffectiveTo(d, EffectiveTo(d, to)) = EffectiveTo(d, to)
<1>1. LastPayableEpoch(d) \in Nat
  BY DEF LastPayableEpoch, TypeInv, TypeOK, MarketTypeOK
<1> QED
  BY <1>1 DEF EffectiveTo

LEMMA EffectiveMonotone ==
  ASSUME TypeInv, NEW d \in Deals, NEW from \in Nat, NEW to \in Nat, from < to
  PROVE  /\ EffectiveTo(d, from) <= EffectiveTo(d, to)
         /\ ~NothingLeftToEarn(d, from) => /\ EffectiveTo(d, from) = from
                                           /\ from < EffectiveTo(d, to)
<1>1. /\ LastPayableEpoch(d) \in Nat
      /\ ~NothingLeftToEarn(d, from) => from < LastPayableEpoch(d)
  BY DEF LastPayableEpoch, NothingLeftToEarn, TypeInv, TypeOK, MarketTypeOK
<1> QED
  BY <1>1 DEF EffectiveTo

\* The decision about any span from the cursor of a deal's own rail.
LEMMA Decision ==
  ASSUME SettlementInv, NEW r \in 1 .. railCount, NEW to \in 1 .. now,
         CanSettle(r, to, now), IsRailIdValid(r),
         ~SettlementReverts(railDeal[r], railCursor[r], to)
  PROVE  LET d == railDeal[r]
             from == railCursor[r]
             upto == SettleUpto(d, from, to)
             amount == SettlementAmount(d, from, to)
         IN  /\ d \in Existing /\ d \in Deals /\ r \in Rails /\ Started(d)
             /\ from \in Nat /\ upto \in Nat /\ from < upto /\ upto <= to
             /\ amount \in 0 .. (railRate[r] * (upto - from))
             /\ railPaid[r] + amount <= DueAmount(d, EffectiveTo(d, upto))
<1> USE DEF SettlementInv, DealInv
<1> DEFINE d == railDeal[r]
           from == railCursor[r]
           upto == SettleUpto(d, from, to)
           amount == SettlementAmount(d, from, to)
           rate == AmountPerEpoch(terms[d].price, BilledUnits(dealCommitted[d]))
<1>1. d \in Existing /\ d \in Deals /\ r \in Rails /\ railId[d] = r /\ r # 0 /\ Started(d)
  <2>1. d \in Existing /\ r \in Rails /\ r # 0
    BY ValidatorAssumption DEF TypeInv, TypeOK, RailsNameDeals, ValidatorTypeOK, Rails
  <2>2. d \in Deals
    BY <2>1, ValidatorAssumption DEF TypeInv, TypeOK, MarketTypeOK, Existing, Deals
  <2> QED
    BY <2>1, <2>2 DEF IsRailIdValid, SettlementReverts
<1>2. /\ from \in Nat /\ to \in Nat /\ from < to /\ railPaid[r] \in Int
      /\ railRate[r] = rate /\ railPaid[r] <= DueAmount(d, EffectiveTo(d, from))
  <2>1. from \in Nat /\ now \in Nat /\ railPaid[r] \in Int
    BY <1>1 DEF TypeInv, TypeOK, ValidatorTypeOK
  <2>2. RailSettled(d)
    BY <1>1
  <2> QED
    BY <1>1, <2>1, <2>2 DEF CanSettle, RailSettled
<1> HIDE DEF d, from
<1> DEFINE end == EffectiveTo(d, to)
           start == EffectiveTo(d, from)
<1>3. /\ end \in Nat /\ end <= to /\ EffectiveTo(d, end) = end /\ start \in Nat /\ start <= end
      /\ ~NothingLeftToEarn(d, from) => start = from /\ from < end
  BY <1>1, <1>2, EffectiveType, EffectiveMonotone
<1>4. /\ DueAmount(d, start) \in Nat /\ DueAmount(d, end) \in Nat
      /\ DueAmount(d, start) <= DueAmount(d, end)
      /\ rate * (end - start) \in Nat
      /\ DueAmount(d, end) - DueAmount(d, start) <= rate * (end - start)
  BY <1>1, <1>2, <1>3, DueBounds
<1>5. rate \in Nat
  <2>1. terms[d] \in DealTerms /\ dealCommitted[d] \in Nat
    BY <1>1 DEF TypeInv, TypeOK, MarketTypeOK, Existing
  <2> QED
    BY <2>1, RateType DEF DealTerms
<1> HIDE DEF end, start, rate
<1>6. CASE SettlementPays(d, from, to)
  <2>1. upto = to /\ start = from /\ from < end /\ amount = DueAmount(d, end) - DueAmount(d, start)
    BY <1>3, <1>6 DEF SettlementPays, SettleUpto, SettlementAmount, end
  <2>2. rate * (end - start) <= rate * (upto - from)
        /\ rate * (upto - from) \in Nat
    <3>1. end - start \in Nat /\ upto - from \in Nat /\ end - start <= upto - from
      BY <1>2, <1>3, <2>1
    <3>2. (end - start) * rate <= (upto - from) * rate /\ (upto - from) * rate \in Nat
      BY <1>5, <3>1, TimesMonotone
    <3>3. /\ rate * (end - start) = (end - start) * rate
          /\ rate * (upto - from) = (upto - from) * rate
      BY <1>5, <3>1
    <3> QED
      BY <3>2, <3>3
  <2>3. amount \in 0 .. (rate * (upto - from))
    <3> DEFINE x == rate * (end - start)
               y == rate * (upto - from)
    <3>1. x \in Nat /\ y \in Nat /\ x <= y /\ DueAmount(d, end) - DueAmount(d, start) <= x
      BY <1>4, <2>2
    <3> HIDE DEF x, y
    <3>2. amount \in 0 .. y
      BY <1>4, <2>1, <3>1
    <3> QED
      BY <3>2 DEF y
  <2>4. railPaid[r] + amount <= DueAmount(d, EffectiveTo(d, upto))
    BY <1>2, <1>4, <2>1 DEF end, start
  <2> QED
    BY <1>1, <1>2, <2>1, <2>3, <2>4 DEF d, from
<1>7. CASE ~SettlementPays(d, from, to)
  <2>1. amount = 0 /\ upto = IF NothingLeftToEarn(d, from) THEN to ELSE end
    BY <1>7 DEF SettlementAmount, SettleUpto, end
  <2>2. upto \in Nat /\ from < upto /\ upto <= to /\ EffectiveTo(d, upto) = end
    BY <1>2, <1>3, <2>1 DEF end
  <2>3. amount \in 0 .. (rate * (upto - from))
    <3>1. upto - from \in Nat
      BY <1>2, <2>2
    <3>2. rate * (upto - from) \in Nat
      BY <1>5, <3>1
    <3> QED
      BY <2>1, <3>2
  <2>4. railPaid[r] + amount <= DueAmount(d, EffectiveTo(d, upto))
    BY <1>2, <1>4, <2>1, <2>2 DEF start
  <2> QED
    BY <1>1, <1>2, <2>2, <2>3, <2>4 DEF d, from
<1> QED
  BY <1>6, <1>7

-----------------------------------------------------------------------------
(* The invariant is inductive *)

\* What RailSettled(e) reads, apart from the rail itself.
TermsKept(e) ==
  /\ railId'[e] = railId[e] /\ lastSettled'[e] = lastSettled[e]
  /\ railId[e] # 0 =>
       /\ Live(e)' = Live(e)
       /\ terms'[e].price = terms[e].price
       /\ serviceStart'[e] = serviceStart[e] /\ serviceEnd'[e] = serviceEnd[e]
       /\ earlyTermination'[e] = earlyTermination[e]
       /\ dealCommitted'[e] = dealCommitted[e]

RailKept(r) ==
  /\ railEnd'[r] = railEnd[r] /\ railCursor'[r] = railCursor[r]
  /\ railRate'[r] = railRate[r] /\ railPaid'[r] = railPaid[r]

LEMMA RailSettledKept ==
  ASSUME NEW e, RailSettled(e), TermsKept(e), railId[e] # 0 => RailKept(railId[e])
  PROVE  RailSettled(e)'
<1>1. CASE railId[e] = 0
  BY <1>1 DEF RailSettled, TermsKept
<1>2. CASE railId[e] # 0
  <2> DEFINE r == railId[e]
  <2>1. EffectiveTo(e, railCursor[r])' = EffectiveTo(e, railCursor[r])
    BY <1>2 DEF TermsKept, RailKept, EffectiveTo, LastPayableEpoch
  <2>2. DueAmount(e, EffectiveTo(e, railCursor[r]))' = DueAmount(e, EffectiveTo(e, railCursor[r]))
    BY <1>2, <2>1 DEF TermsKept, DueAmount
  <2> QED
    BY <1>2, <2>2 DEF RailSettled, TermsKept, RailKept, Started
<1> QED
  BY <1>1, <1>2

LEMMA RailBoundedKept ==
  ASSUME NEW r, RailBounded(r), RailKept(r), now \in Nat, now' \in Nat, now <= now',
         railCursor[r] \in Nat, 1 .. railCount \subseteq 1 .. railCount',
         r \in 1 .. railCount => railDeal'[r] = railDeal[r] /\ railId'[railDeal[r]] = railId[railDeal[r]]
  PROVE  RailBounded(r)'
  BY DEF RailBounded, RailKept, IsRailIdValid

\* A step that changes no rail and no price, and starts or closes no deal that has one.
LEMMA RailsQuiet ==
  ASSUME SettlementInv, TypeInv', UNCHANGED railVars, UNCHANGED railId, now <= now',
         \A e \in Deals : TermsKept(e)
  PROVE  (\A d \in Deals : RailSettled(d)') /\ (\A r \in Rails : RailBounded(r)')
<1>1. now \in Nat /\ now' \in Nat /\ \A r \in Rails : railCursor[r] \in Nat
  BY DEF SettlementInv, DealInv, TypeInv, TypeOK, ValidatorTypeOK
<1>2. \A r : RailKept(r)
  BY DEF RailKept, railVars
<1>3. \A d \in Deals : RailSettled(d)'
  BY <1>2, RailSettledKept DEF SettlementInv
<1>4. \A r \in Rails : RailBounded(r)'
  BY <1>1, <1>2, RailBoundedKept DEF SettlementInv, railVars
<1> QED
  BY <1>3, <1>4

\* The step of a deal whose own rail is r: other deals and rails are kept.
LEMMA OwnRailStep ==
  ASSUME SettlementInv, TypeInv', NEW d \in Deals, railId[d] # 0,
         UNCHANGED <<now, railCount, railDeal, railId>>,
         \A e \in Deals \ {d} : TermsKept(e),
         \A r \in Rails \ {railId[d]} : RailKept(r),
         RailSettled(d)', railCursor'[railId[d]] <= now
  PROVE  (\A e \in Deals : RailSettled(e)') /\ (\A r \in Rails : RailBounded(r)')
<1> USE DEF SettlementInv, DealInv
<1>1. /\ railId[d] \in Rails /\ railId[d] \in 1 .. railCount /\ railDeal[railId[d]] = d
      /\ now \in Nat /\ \A r \in Rails : railCursor[r] \in Nat
  <2>1. Consistent(d) /\ railId[d] \in 0 .. MaxRails /\ railCount \in 0 .. MaxRails
    BY DEF DealRailConsistent, TypeInv, TypeOK, ValidatorTypeOK
  <2>2. now \in Nat /\ \A r \in Rails : railCursor[r] \in Nat
    BY DEF TypeInv, TypeOK, ValidatorTypeOK
  <2> QED
    BY <2>1, <2>2, ValidatorAssumption DEF Consistent, Rails
<1>2. ASSUME NEW e \in Deals, e # d
      PROVE  RailSettled(e)'
  <2>1. railId[e] # 0 => railId[e] \in Rails /\ railId[e] # railId[d]
    <3>1. Consistent(e) /\ railId[e] \in 0 .. MaxRails
      BY DEF DealRailConsistent, TypeInv, TypeOK, ValidatorTypeOK
    <3> QED
      BY <1>1, <1>2, <3>1, ValidatorAssumption DEF Consistent, Rails
  <2> QED
    BY <1>2, <2>1, RailSettledKept
<1>3. ASSUME NEW r \in Rails, r # railId[d]
      PROVE  RailBounded(r)'
  BY <1>1, <1>3, RailBoundedKept
<1>4. RailBounded(railId[d])'
  BY <1>1 DEF RailBounded, IsRailIdValid
<1> QED
  BY <1>2, <1>3, <1>4

LEMMA DueNat ==
  ASSUME NEW k \in Nat, NEW start \in Nat, NEW epoch \in Nat, NEW m \in Nat \ {0}
  PROVE  (IF epoch <= start THEN 0 ELSE (k * (epoch - start)) \div m) \in Nat
<1>1. CASE epoch <= start
  BY <1>1
<1>2. CASE start < epoch
  <2>1. epoch - start \in Nat
    BY <1>2
  <2>2. k * (epoch - start) \in Nat
    BY <2>1
  <2>3. (k * (epoch - start)) \div m \in Nat
    BY <2>2, QuotientBounds
  <2> QED
    BY <1>2, <2>3
<1> QED
  BY <1>1, <1>2

LEMMA RailTypes ==
  ASSUME SettlementInv, NEW d \in Existing
  PROVE  /\ d \in Deals /\ Consistent(d) /\ RailSettled(d) /\ terms[d] \in DealTerms
         /\ railId \in [Deals -> 0 .. MaxRails] /\ railCount \in 0 .. MaxRails
         /\ railDeal \in [Rails -> 0 .. MaxDeals] /\ railRate \in [Rails -> Nat]
         /\ railCursor \in [Rails -> Nat] /\ railEnd \in [Rails -> Nat]
         /\ railPaid \in [Rails -> Int] /\ now \in Nat \ {0}
         /\ railId[d] # 0 => railId[d] \in Rails /\ railId[d] \in 1 .. railCount
<1> USE DEF SettlementInv, DealInv
<1>1. /\ railId \in [Deals -> 0 .. MaxRails] /\ railCount \in 0 .. MaxRails
      /\ railDeal \in [Rails -> 0 .. MaxDeals] /\ railRate \in [Rails -> Nat]
      /\ railCursor \in [Rails -> Nat] /\ railEnd \in [Rails -> Nat]
      /\ railPaid \in [Rails -> Int] /\ now \in Nat \ {0}
  BY DEF TypeInv, TypeOK, ValidatorTypeOK
<1>2. d \in Deals /\ terms[d] \in DealTerms
  BY ValidatorAssumption DEF TypeInv, TypeOK, MarketTypeOK, Existing, Deals
<1>3. Consistent(d) /\ RailSettled(d)
  BY <1>2 DEF DealRailConsistent
<1>4. railId[d] # 0 => railId[d] \in Rails /\ railId[d] \in 1 .. railCount
  BY <1>1, <1>2, <1>3, ValidatorAssumption DEF Consistent, Rails
<1> QED
  BY <1>1, <1>2, <1>3, <1>4

\* A new rail of deal d, its own or one that only names its validator.
LEMMA NewRailStep ==
  ASSUME SettlementInv, TypeInv', NEW d \in Existing, NEW rate, CreatePayRail(d, rate, now),
         UNCHANGED <<now, marketVars>>,
         \/ railId' = railId
         \/ /\ railId[d] = 0 /\ railId' = [railId EXCEPT ![d] = railCount + 1]
            /\ dealState[d] = "ACCEPTED"
  PROVE  (\A e \in Deals : RailSettled(e)') /\ (\A r \in Rails : RailBounded(r)')
<1> USE DEF SettlementInv, DealInv
<1> DEFINE new == railCount + 1
<1>1. /\ d \in Deals /\ Consistent(d) /\ RailSettled(d)
      /\ railId \in [Deals -> 0 .. MaxRails] /\ railCount \in 0 .. MaxRails
      /\ railDeal \in [Rails -> 0 .. MaxDeals] /\ railRate \in [Rails -> Nat]
      /\ railCursor \in [Rails -> Nat] /\ now \in Nat
  BY RailTypes
<1>2. /\ new \in Rails /\ new \notin 1 .. railCount /\ new # 0
      /\ railCount' = new /\ 1 .. railCount \subseteq 1 .. railCount' /\ new \in 1 .. railCount'
  BY <1>1, ValidatorAssumption DEF CreatePayRail, Rails
<1>3. /\ railDeal' = [railDeal EXCEPT ![new] = d] /\ railCursor' = [railCursor EXCEPT ![new] = now]
      /\ railRate' = [railRate EXCEPT ![new] = rate] /\ UNCHANGED <<railEnd, railPaid>>
  BY DEF CreatePayRail
<1>4. railEnd[new] = 0 /\ railPaid[new] = 0
  BY <1>2 DEF RailBounded
<1> HIDE DEF new
<1>5. \A r \in Rails \ {new} : RailKept(r) /\ railDeal'[r] = railDeal[r]
  BY <1>1, <1>2, <1>3 DEF RailKept
<1>6. ASSUME NEW e \in Deals, railId'[e] = railId[e]
      PROVE  RailSettled(e)'
  <2>1. TermsKept(e)
    BY <1>6 DEF TermsKept, marketVars, dealVars, serviceVars, settlementVars, Live
  <2>2. railId[e] # 0 => railId[e] \in Rails \ {new}
    <3>1. Consistent(e) /\ railId[e] \in 0 .. MaxRails
      BY <1>1 DEF DealRailConsistent
    <3> QED
      BY <1>1, <1>2, <3>1, ValidatorAssumption DEF Consistent, Rails, new
  <2> QED
    BY <1>5, <2>1, <2>2, RailSettledKept
<1>n. \A e \in Deals : railId[e] # 0 => railId'[e] = railId[e]
  BY <1>1
<1>7. ASSUME NEW r \in Rails
      PROVE  RailBounded(r)'
  <2>1. CASE r = new
    BY <1>1, <1>2, <1>3, <1>4, <2>1 DEF RailBounded
  <2>2. CASE r # new
    <3>1. RailBounded(r) /\ RailKept(r) /\ railDeal'[r] = railDeal[r]
      BY <1>5, <2>2
    <3>2. railPaid[r] # 0 => railId'[railDeal[r]] = railId[railDeal[r]]
      <4>1. ASSUME railPaid[r] # 0 PROVE railDeal[r] \in Deals /\ railId[railDeal[r]] # 0
        <5>1. r # 0 /\ r \in 1 .. railCount /\ railId[railDeal[r]] = r
          BY <3>1, <4>1 DEF RailBounded, IsRailIdValid, Rails
        <5>2. railDeal[r] \in Existing
          BY <5>1 DEF TypeInv, RailsNameDeals
        <5> QED
          BY <5>1, <5>2, RailTypes
      <4> QED
        BY <1>n, <4>1
    <3>3. r \in 1 .. railCount' => r \in 1 .. railCount
      BY <1>1, <1>2, <2>2 DEF new
    <3> QED
      BY <1>2, <3>1, <3>2, <3>3 DEF RailBounded, RailKept, IsRailIdValid
  <2> QED
    BY <2>1, <2>2
<1>8. CASE railId' = railId
  BY <1>6, <1>7, <1>8
<1>9. CASE /\ railId[d] = 0 /\ railId' = [railId EXCEPT ![d] = new]
           /\ dealState[d] = "ACCEPTED"
  <2>1. RailSettled(d)'
    <3>1. railId'[d] = new /\ lastSettled[d] = 0 /\ ~Started(d)
      BY <1>1, <1>9 DEF RailSettled, Consistent
    <3>2. railCursor'[new] = now /\ railEnd'[new] = 0 /\ railPaid'[new] = 0
          /\ lastSettled' = lastSettled /\ serviceEnd' = serviceEnd
      BY <1>1, <1>2, <1>3, <1>4 DEF marketVars, serviceVars, settlementVars
    <3> QED
      BY <1>1, <1>2, <3>1, <3>2 DEF RailSettled, Started
  <2>2. \A e \in Deals \ {d} : railId'[e] = railId[e]
    BY <1>1, <1>9
  <2> QED
    BY <1>6, <1>7, <2>1, <2>2
<1> QED
  BY <1>8, <1>9 DEF new

\* The steps of a deal that leave rails alone or only add one.
LEMMA QuietDealStep ==
  ASSUME SettlementInv, TypeInv', NEW d \in Existing,
         \/ CreateValidator(d) \/ CreateRail(d) \/ CreateForeignRail(d)
         \/ SubmitEvidence(d) \/ RefreshEvidenceStatus(d) \/ RejectAcceptedDeal(d)
         \/ \E manifest \in Manifests, request \in Requests :
              UpdateManifestLocation(d, manifest, request.size)
         \/ \E epochs \in MinIntervals : SetMinEpochsBetweenSettlements(d, epochs)
  PROVE  (\A e \in Deals : RailSettled(e)') /\ (\A r \in Rails : RailBounded(r)')
<1>0. now \in Nat /\ d \in Deals
  BY RailTypes
<1>1. CASE CreateRail(d)
  <2>1. /\ CreatePayRail(d, 0, now) /\ dealState[d] = "ACCEPTED" /\ railId[d] = 0
        /\ railId' = [railId EXCEPT ![d] = railCount + 1]
        /\ UNCHANGED <<now, marketVars>>
    BY <1>1 DEF CreateRail, PrepareRail, CreatePayRail
  <2> QED
    BY <2>1, NewRailStep
<1>2. CASE CreateForeignRail(d)
  <2>1. CreatePayRail(d, 1, now) /\ railId' = railId /\ UNCHANGED <<now, marketVars>>
    BY <1>2 DEF CreateForeignRail, validatorVars
  <2> QED
    BY <2>1, NewRailStep
<1>3. CASE CreateValidator(d) \/ SubmitEvidence(d) \/ RefreshEvidenceStatus(d)
  <2>1. UNCHANGED <<now, railId, railVars, marketVars>>
    BY <1>3 DEF CreateValidator, DeployValidator, SubmitEvidence, RefreshEvidenceStatus, validatorVars
  <2>2. \A e \in Deals : TermsKept(e)
    BY <2>1 DEF TermsKept, Live, marketVars, dealVars, serviceVars, settlementVars
  <2> QED
    BY <1>0, <2>1, <2>2, RailsQuiet
<1>4. CASE RejectAcceptedDeal(d)
  <2>1. /\ railId[d] = 0 /\ dealState' = [dealState EXCEPT ![d] = "REJECTED"]
        /\ UNCHANGED <<now, terms, dealCommitted, serviceVars, settlementVars, railId, railVars>>
    BY <1>4 DEF RejectAcceptedDeal, ChangeDealState, validatorVars
  <2>2. dealState \in [Deals -> DealStates]
    BY DEF SettlementInv, DealInv, TypeInv, TypeOK, MarketTypeOK
  <2>3. \A e \in Deals : TermsKept(e)
    BY <1>0, <2>1, <2>2 DEF TermsKept, Live, serviceVars, settlementVars
  <2> QED
    BY <1>0, <2>1, <2>3, RailsQuiet
<1>5. ASSUME NEW manifest \in Manifests, NEW request \in Requests,
             UpdateManifestLocation(d, manifest, request.size)
      PROVE  (\A e \in Deals : RailSettled(e)') /\ (\A r \in Rails : RailBounded(r)')
  <2>1. /\ terms' = [terms EXCEPT ![d].manifest = manifest, ![d].reserved = request.size]
        /\ UNCHANGED <<now, dealState, dealCommitted, serviceVars, settlementVars, railId, railVars>>
    BY <1>5 DEF UpdateManifestLocation, validatorVars
  <2>2. \A e \in Existing : terms'[e].price = terms[e].price
    <3>1. terms \in [1 .. dealCount -> DealTerms]
      BY DEF SettlementInv, DealInv, TypeInv, TypeOK, MarketTypeOK
    <3> QED
      BY <2>1, <3>1 DEF DealTerms, Existing
  <2>3. \A e \in Deals : railId[e] # 0 => e \in Existing
    BY DEF SettlementInv, DealInv, DealRailConsistent, Consistent, DealsCounted
  <2>4. \A e \in Deals : TermsKept(e)
    BY <2>1, <2>2, <2>3 DEF TermsKept, Live, serviceVars, settlementVars
  <2> QED
    BY <1>0, <2>1, <2>4, RailsQuiet
<1>6. ASSUME NEW epochs \in MinIntervals, SetMinEpochsBetweenSettlements(d, epochs)
      PROVE  (\A e \in Deals : RailSettled(e)') /\ (\A r \in Rails : RailBounded(r)')
  <2>1. UNCHANGED <<now, dealVars, serviceVars, lastSettled, railId, railVars>>
    BY <1>6 DEF SetMinEpochsBetweenSettlements, validatorVars
  <2>2. \A e \in Deals : TermsKept(e)
    BY <2>1 DEF TermsKept, Live, dealVars, serviceVars
  <2> QED
    BY <1>0, <2>1, <2>2, RailsQuiet
<1> QED
  BY <1>1, <1>2, <1>3, <1>4, <1>5, <1>6

LEMMA ActivateSettled ==
  ASSUME SettlementInv, TypeInv', NEW d \in Existing, ActivateEvidence(d)
  PROVE  (\A e \in Deals : RailSettled(e)') /\ (\A r \in Rails : RailBounded(r)')
<1> DEFINE r == railId[d]
           covered == evidenceCovered[d]
           rate == AmountPerEpoch(terms[d].price, BilledUnits(covered))
<1>1. /\ d \in Deals /\ Consistent(d) /\ RailSettled(d) /\ r \in Rails /\ r # 0
      /\ railRate \in [Rails -> Nat] /\ railCursor \in [Rails -> Nat] /\ now \in Nat
      /\ terms[d] \in DealTerms
  BY RailTypes DEF ActivateEvidence, StartPreparedPayment
<1>2. /\ dealState[d] = "ACCEPTED" /\ dealState' = [dealState EXCEPT ![d] = "ACTIVE"]
      /\ dealCommitted' = [dealCommitted EXCEPT ![d] = covered]
      /\ serviceStart' = [serviceStart EXCEPT ![d] = now]
      /\ serviceEnd' = [serviceEnd EXCEPT ![d] = now + DurationEpochs[terms[d].kind]]
      /\ railRate' = [railRate EXCEPT ![r] = rate]
      /\ railCursor' = [railCursor EXCEPT ![r] = IF ZeroRateAsked THEN @ ELSE now]
      /\ UNCHANGED <<now, terms, earlyTermination, settlementVars, railId, railCount, railDeal,
                     railEnd, railPaid>>
  BY DEF ActivateEvidence, StartPreparedPayment, ChangeDealState, ModifyRailPayment, ModifyPayRail
<1>3. /\ dealState \in [Deals -> DealStates] /\ dealCommitted \in [Deals -> Nat] /\ covered \in Nat
      /\ serviceStart \in [Deals -> Nat] /\ serviceEnd \in [Deals -> Nat]
  BY <1>1 DEF SettlementInv, DealInv, TypeInv, TypeOK, MarketTypeOK, EvidenceTypeOK
<1>4. \A e \in Deals \ {d} : TermsKept(e)
  BY <1>2, <1>3 DEF TermsKept, Live, settlementVars
<1>5. \A s \in Rails \ {r} : RailKept(s)
  BY <1>1, <1>2 DEF RailKept
<1>6. railCursor[r] <= now
  BY <1>1 DEF SettlementInv, RailBounded
<1>7. railCursor'[r] \in Nat /\ railCursor'[r] <= now /\ railCursor[r] <= railCursor'[r]
  BY <1>1, <1>2, <1>6
<1>8. RailSettled(d)'
  <2>1. /\ railEnd[r] = 0 /\ lastSettled[d] <= railCursor[r] /\ railPaid[r] = 0
        /\ lastSettled[d] \in Nat
    <3>1. ~Started(d) /\ Live(d)
      BY <1>1, <1>2 DEF Consistent, Live
    <3>2. lastSettled[d] \in Nat
      BY <1>1 DEF SettlementInv, DealInv, TypeInv, TypeOK, MarketTypeOK
    <3> QED
      BY <1>1, <3>1, <3>2 DEF RailSettled
  <2>2. railId'[d] = r /\ railEnd'[r] = 0 /\ railPaid'[r] = 0 /\ lastSettled'[d] = lastSettled[d]
    BY <1>2, <2>1 DEF settlementVars
  <2>3. lastSettled'[d] <= railCursor'[r]
    BY <1>1, <1>7, <2>1, <2>2
  <2>4. /\ railRate'[r] = AmountPerEpoch(terms'[d].price, BilledUnits(dealCommitted'[d]))
    BY <1>1, <1>2, <1>3 DEF AmountPerEpoch, BilledUnits
  <2>5. EffectiveTo(d, railCursor[r])' \in Nat
    <3>1. LastPayableEpoch(d)' \in Nat
      BY <1>1 DEF LastPayableEpoch, TypeInv, TypeOK, MarketTypeOK
    <3> QED
      BY <1>2, <1>7, <3>1 DEF EffectiveTo
  <2>6. DueAmount(d, EffectiveTo(d, railCursor[r]))' \in Nat
    <3> DEFINE k == terms'[d].price * BilledUnits(dealCommitted'[d])
               epoch == EffectiveTo(d, railCursor[r])'
    <3>1. k \in Nat
      <4>1. BilledUnits(covered) \in Nat
        BY <1>3, CeilDivType, MarketAssumption DEF BilledUnits
      <4>2. terms'[d].price \in Nat /\ dealCommitted'[d] = covered
        BY <1>1, <1>2, <1>3 DEF DealTerms
      <4>3. BilledUnits(dealCommitted'[d]) \in Nat
        BY <4>1, <4>2
      <4> QED
        BY <4>2, <4>3
    <3>2. serviceStart'[d] \in Nat /\ EPOCHS_IN_MONTH \in Nat \ {0}
      BY <1>1, <1>2, <1>3, MarketAssumption
    <3>3. DueAmount(d, EffectiveTo(d, railCursor[r]))' =
            IF epoch <= serviceStart'[d] THEN 0 ELSE (k * (epoch - serviceStart'[d])) \div EPOCHS_IN_MONTH
      BY DEF DueAmount, BilledUnits, CeilDiv
    <3> HIDE DEF k, epoch
    <3>4. epoch \in Nat
      BY <2>5 DEF epoch
    <3>5. (IF epoch <= serviceStart'[d] THEN 0 ELSE (k * (epoch - serviceStart'[d])) \div EPOCHS_IN_MONTH) \in Nat
      BY <3>1, <3>2, <3>4, DueNat
    <3> QED
      BY <3>3, <3>5
  <2>7. railPaid'[r] <= DueAmount(d, EffectiveTo(d, railCursor[r]))'
    BY <2>2, <2>6
  <2> QED
    BY <1>1, <2>2, <2>3, <2>4, <2>7 DEF RailSettled
<1> QED
  BY <1>1, <1>2, <1>4, <1>5, <1>7, <1>8, OwnRailStep

\* Closing a deal that has a rail, whatever it is closed as.
LEMMA CloseSettled ==
  ASSUME SettlementInv, TypeInv', NEW d \in Existing, railId[d] # 0, ~Live(d)',
         TerminatePayRail(railId[d], now), \A e \in Deals \ {d} : Live(e)' = Live(e),
         UNCHANGED <<now, terms, dealCommitted, serviceStart, serviceEnd, settlementVars, railId>>,
         \A e \in Deals \ {d} : earlyTermination'[e] = earlyTermination[e],
         Started(d) => EffectiveTo(d, railCursor[railId[d]])' = EffectiveTo(d, railCursor[railId[d]])
  PROVE  (\A e \in Deals : RailSettled(e)') /\ (\A r \in Rails : RailBounded(r)')
<1> DEFINE r == railId[d]
<1>1. /\ d \in Deals /\ RailSettled(d) /\ r \in Rails /\ r # 0 /\ railEnd \in [Rails -> Nat]
  BY RailTypes
<1>2. \A s \in Rails \ {r} : railEnd'[s] = railEnd[s]
  BY <1>1 DEF TerminatePayRail
<1>3. UNCHANGED <<railCount, railDeal, railRate, railCursor, railPaid>>
  BY DEF TerminatePayRail
<1>4. \A e \in Deals \ {d} : TermsKept(e)
  BY DEF TermsKept, settlementVars
<1>5. \A s \in Rails \ {r} : RailKept(s)
  BY <1>2, <1>3 DEF RailKept
<1>6. railCursor'[r] <= now
  BY <1>1, <1>3 DEF SettlementInv, RailBounded
<1>7. RailSettled(d)'
  <2>1. Started(d) => DueAmount(d, EffectiveTo(d, railCursor[r]))' = DueAmount(d, EffectiveTo(d, railCursor[r]))
    BY DEF DueAmount
  <2> QED
    BY <1>1, <1>3, <2>1 DEF RailSettled, Started, settlementVars
<1> QED
  BY <1>1, <1>3, <1>4, <1>5, <1>6, <1>7, OwnRailStep

LEMMA ClosingStep ==
  ASSUME SettlementInv, TypeInv', NEW d \in Existing,
         \/ \E state \in {"EXPIRED", "EARLY_TERMINATED"} : TerminateDeal(d, state)
         \/ FinalizeDeal(d)
  PROVE  (\A e \in Deals : RailSettled(e)') /\ (\A r \in Rails : RailBounded(r)')
<1>0. /\ d \in Deals /\ Consistent(d) /\ now \in Nat \ {0} /\ dealState \in [Deals -> DealStates]
      /\ earlyTermination \in [Deals -> Nat] /\ serviceEnd \in [Deals -> Nat]
  BY RailTypes DEF SettlementInv, DealInv, TypeInv, TypeOK, MarketTypeOK
<1>1. ASSUME NEW state \in {"EXPIRED", "EARLY_TERMINATED"}, TerminateDeal(d, state)
      PROVE  (\A e \in Deals : RailSettled(e)') /\ (\A r \in Rails : RailBounded(r)')
  <2>1. /\ dealState' = [dealState EXCEPT ![d] = state] /\ railStatus[d] \in {"PREPARED", "ACTIVE"}
        /\ TerminatePayRail(railId[d], now) /\ (Started(d) => now <= serviceEnd[d])
        /\ earlyTermination' = [earlyTermination EXCEPT ![d] = now]
        /\ UNCHANGED <<now, terms, dealCommitted, serviceStart, serviceEnd, settlementVars, railId>>
    BY <1>1 DEF TerminateDeal, ChangeDealState, EarlyRailTermination, TerminateRailFrom, NotAfterService
  <2>2. railId[d] # 0 /\ dealState[d] \in {"ACCEPTED", "ACTIVE"} /\ earlyTermination[d] = 0
    BY <1>0, <2>1 DEF Consistent
  <2>3. ~Live(d)' /\ (\A e \in Deals \ {d} : Live(e)' = Live(e))
        /\ (\A e \in Deals \ {d} : earlyTermination'[e] = earlyTermination[e])
    BY <1>0, <2>1 DEF Live
  <2>4. Started(d) => EffectiveTo(d, railCursor[railId[d]])' = EffectiveTo(d, railCursor[railId[d]])
    <3>1. railCursor[railId[d]] \in Nat /\ railCursor[railId[d]] <= now
          /\ railCursor'[railId[d]] = railCursor[railId[d]]
      BY <2>1, <2>2, RailTypes DEF SettlementInv, RailBounded, TerminatePayRail
    <3>2. earlyTermination'[d] = now /\ serviceEnd'[d] = serviceEnd[d] /\ railId'[d] = railId[d]
          /\ serviceEnd[d] \in Nat
      BY <1>0, <2>1
    <3> QED
      BY <1>0, <2>1, <2>2, <3>1, <3>2 DEF EffectiveTo, LastPayableEpoch
  <2> QED
    BY <2>1, <2>2, <2>3, <2>4, CloseSettled
<1>2. CASE FinalizeDeal(d)
  <2>1. /\ dealState[d] = "ACTIVE" /\ dealState' = [dealState EXCEPT ![d] = "FINALIZED"]
        /\ TerminatePayRail(railId[d], now)
        /\ UNCHANGED <<now, terms, dealCommitted, serviceVars, settlementVars, railId>>
    BY <1>2 DEF FinalizeDeal, ChangeDealState, FinalizeRail, TerminateRailFrom
  <2>2. railId[d] # 0
    BY <1>0, <2>1 DEF Consistent
  <2>3. ~Live(d)' /\ (\A e \in Deals \ {d} : Live(e)' = Live(e))
    BY <1>0, <2>1 DEF Live
  <2>4. EffectiveTo(d, railCursor[railId[d]])' = EffectiveTo(d, railCursor[railId[d]])
    BY <2>1 DEF EffectiveTo, LastPayableEpoch, serviceVars, TerminatePayRail
  <2> QED
    BY <2>1, <2>2, <2>3, <2>4, CloseSettled DEF serviceVars
<1> QED
  BY <1>1, <1>2

LEMMA SettleSettled ==
  ASSUME SettlementInv, TypeInv', NEW r \in 1 .. railCount, NEW to \in 1 .. now, SettleRail(r, to)
  PROVE  (\A e \in Deals : RailSettled(e)') /\ (\A s \in Rails : RailBounded(s)')
<1>0. PICK d \in Deals : d = railDeal[r]
  BY Decision DEF SettleRail
<1> DEFINE from == railCursor[r]
           upto == SettleUpto(d, from, to)
           amount == SettlementAmount(d, from, to)
<1>1. /\ d \in Existing /\ r \in Rails /\ Started(d)
      /\ from \in Nat /\ upto \in Nat /\ from < upto /\ upto <= to
      /\ railPaid[r] + amount <= DueAmount(d, EffectiveTo(d, upto))
  BY <1>0, Decision DEF SettleRail
<1>2. /\ railId[d] = r
      /\ railCursor' = [railCursor EXCEPT ![r] = upto]
      /\ railPaid' = [railPaid EXCEPT ![r] = @ + amount]
      /\ (lastSettled' = [lastSettled EXCEPT ![d] = upto] \/ lastSettled' = lastSettled)
      /\ UNCHANGED <<now, dealVars, serviceVars, railId, railCount, railDeal, railRate, railEnd>>
  BY <1>0 DEF SettleRail, IsRailIdValid, AdvancePayRail, validatorVars
<1> HIDE DEF from, upto, amount
<1>3. /\ railPaid \in [Rails -> Int] /\ railCursor \in [Rails -> Nat] /\ r # 0 /\ now \in Nat
      /\ lastSettled \in [Deals -> Nat] /\ RailSettled(d)
  <2>1. lastSettled \in [Deals -> Nat] /\ r # 0
    BY DEF SettlementInv, DealInv, TypeInv, TypeOK, MarketTypeOK
  <2> QED
    BY <1>1, <2>1, RailTypes
<1>4. \A e \in Deals \ {d} : TermsKept(e)
  BY <1>1, <1>2, <1>3 DEF TermsKept, Live, dealVars, serviceVars
<1>5. \A s \in Rails \ {r} : RailKept(s)
  BY <1>1, <1>2, <1>3 DEF RailKept
<1>6. railCursor'[r] = upto /\ railCursor'[r] <= now /\ railPaid'[r] = railPaid[r] + amount
  BY <1>1, <1>2, <1>3
<1>7. RailSettled(d)'
  <2>1. Live(d)' = Live(d) /\ Started(d)' /\ railId'[d] = r /\ railRate'[r] = railRate[r]
        /\ railEnd'[r] = railEnd[r]
    BY <1>1, <1>2 DEF Live, Started, dealVars, serviceVars
  <2>2. lastSettled'[d] <= railCursor'[r]
    BY <1>1, <1>2, <1>3, <1>6 DEF RailSettled, from
  <2>3. AmountPerEpoch(terms[d].price, BilledUnits(dealCommitted[d])) =
          AmountPerEpoch(terms'[d].price, BilledUnits(dealCommitted'[d]))
    BY <1>2 DEF dealVars
  <2>4. DueAmount(d, EffectiveTo(d, upto)) = DueAmount(d, EffectiveTo(d, railCursor[r]))'
    BY <1>2, <1>6 DEF dealVars, serviceVars, DueAmount, EffectiveTo, LastPayableEpoch
  <2> QED
    BY <1>1, <1>2, <1>3, <1>6, <2>1, <2>2, <2>3, <2>4 DEF RailSettled
<1> QED
  BY <1>1, <1>2, <1>3, <1>4, <1>5, <1>6, <1>7, OwnRailStep

LEMMA SettlementInvStep == SettlementInv /\ [Next]_vars => SettlementInv'
<1> SUFFICES ASSUME SettlementInv, [Next]_vars PROVE SettlementInv'
  OBVIOUS
<1>1. DealInv' /\ TypeInv'
  BY DealInvStep DEF SettlementInv, DealInv
<1>n. now \in Nat
  BY DEF SettlementInv, DealInv, TypeInv, TypeOK
<1> SUFFICES (\A e \in Deals : RailSettled(e)') /\ (\A r \in Rails : RailBounded(r)')
  BY <1>1 DEF SettlementInv, Rails, Deals
<1>2. ASSUME NEW o, NEW request \in Requests, CreateDeal(o, request)
      PROVE  (\A e \in Deals : RailSettled(e)') /\ (\A r \in Rails : RailBounded(r)')
  <2> DEFINE d == dealCount + 1
  <2>1. /\ dealState' = [dealState EXCEPT ![d] = "ACCEPTED"]
        /\ \A e \in 1 .. d : e # d => terms'[e] = terms[e]
        /\ UNCHANGED <<now, dealCommitted, serviceVars, settlementVars, railId, railVars>>
    BY <1>2 DEF CreateDeal, ChangeDealState, validatorVars
  <2>2. \A e \in Deals : railId[e] # 0 => e \in Existing
    BY DEF SettlementInv, DealInv, DealRailConsistent, Consistent, DealsCounted
  <2>3. \A e \in Existing : e \in 1 .. d /\ e # d
    <3>1. dealCount \in Nat
      BY DEF SettlementInv, DealInv, TypeInv, TypeOK, MarketTypeOK
    <3> QED
      BY <3>1 DEF Existing
  <2>4. \A e \in Deals : TermsKept(e)
    <3>1. dealState \in [Deals -> DealStates]
      BY DEF SettlementInv, DealInv, TypeInv, TypeOK, MarketTypeOK
    <3> HIDE DEF d
    <3> QED
      BY <2>1, <2>2, <2>3, <3>1 DEF TermsKept, Live, serviceVars, settlementVars
  <2> QED
    BY <1>1, <1>n, <2>1, <2>4, RailsQuiet
<1>3. ASSUME NEW d \in Existing, DealStep(d)
      PROVE  (\A e \in Deals : RailSettled(e)') /\ (\A r \in Rails : RailBounded(r)')
  BY <1>1, <1>3, QuietDealStep, ActivateSettled, ClosingStep DEF DealStep
<1>4. ASSUME NEW r \in 1 .. railCount, NEW to \in 1 .. now, SettleRail(r, to)
      PROVE  (\A e \in Deals : RailSettled(e)') /\ (\A s \in Rails : RailBounded(s)')
  BY <1>1, <1>4, SettleSettled
<1>5. CASE \/ Tick \/ ManageRegistry \/ UNCHANGED vars
           \/ \E d \in Deals, met \in BOOLEAN : SetSLI(d, met)
  <2>1. UNCHANGED <<marketVars, railId, railVars>> /\ now <= now'
    BY <1>5, <1>n DEF Tick, ManageRegistry, SetSLI, vars, contractVars, validatorVars
  <2>2. \A e \in Deals : TermsKept(e)
    BY <2>1 DEF TermsKept, Live, marketVars, dealVars, serviceVars, settlementVars
  <2> QED
    BY <1>1, <2>1, <2>2, RailsQuiet
<1> QED
  BY <1>2, <1>3, <1>4, <1>5 DEF Next, ProposeDeal, ProposeDealWithSpecificOffer

LEMMA InitSettlementInv == Init => SettlementInv
<1> SUFFICES ASSUME Init PROVE SettlementInv
  OBVIOUS
<1>1. \A d \in Deals : RailSettled(d)
  BY DEF Init, ValidatorInit, RailSettled
<1>2. \A r \in Rails : RailBounded(r)
  BY DEF Init, ValidatorInit, RailBounded
<1> QED
  BY <1>1, <1>2, InitDealInv DEF SettlementInv

LEMMA SettlementInvariant == Spec => []SettlementInv
  BY InitSettlementInv, SettlementInvStep, PTL DEF Spec

-----------------------------------------------------------------------------
(* What settlement guarantees *)

\* The market's lastSettledEpoch of a deal never runs ahead of the FilecoinPay
\* cursor of the deal's own rail, which other calls and rails may move.
THEOREM ProgressRecorded == Spec => []LastSettledWithinCursor
<1>1. SettlementInv => LastSettledWithinCursor
  BY RailTypes DEF LastSettledWithinCursor, RailSettled
<1> QED
  BY <1>1, SettlementInvariant, PTL

\* FilecoinPay accepts every decision of Validator.validatePayment, for any
\* price, size and duration: a window's payment, rounded down over the service
\* so far, stays within the rail's rate, rounded up per epoch.
THEOREM DecisionsAccepted == Spec => []DecisionAccepted
<1>1. SettlementInv => DecisionAccepted
  BY Decision DEF DecisionAccepted
<1> QED
  BY <1>1, SettlementInvariant, PTL

\* Once service has ended, no condition of validateDealSettlement makes the
\* settlement of all that a deal's rail still owes revert.
THEOREM RailsCanBeClosed == Spec => []RailClosable
<1>1. ASSUME SettlementInv, NEW d \in Existing, Started(d), ~ServiceRunning(d),
             railCursor[railId[d]] < LatestEpoch(railId[d])
      PROVE  ~SettlementReverts(d, railCursor[railId[d]], LatestEpoch(railId[d]))
  <2>1. /\ Consistent(d) /\ RailSettled(d) /\ now \in Nat
        /\ dealState[d] \in DealStates /\ railStatus[d] \in RailStatuses /\ serviceEnd[d] \in Nat
    BY <1>1, RailTypes DEF SettlementInv, DealInv, TypeInv, TypeOK, MarketTypeOK, ValidatorTypeOK
  <2>2. dealState[d] = "ACTIVE" => railId[d] # 0
    BY <2>1 DEF Consistent
  <2>3. dealState[d] = "ACTIVE" => LatestEpoch(railId[d]) = now
    BY <2>1, <2>2 DEF RailSettled, Live, LatestEpoch
  <2>4. ~(now < serviceEnd[d])
    BY <1>1 DEF ServiceRunning
  <2> QED
    BY <1>1, <2>3, <2>4 DEF SettlementReverts, SettlementTooEarly, RefreshWindowOpen,
                            AttestationMissing, ServiceRunning
<1>2. SettlementInv => RailClosable
  BY <1>1 DEF RailClosable
<1> QED
  BY <1>2, SettlementInvariant, PTL

LEMMA PaidByOwnRail ==
  ASSUME SettlementInv, NEW d \in Existing
  PROVE  SumFunctionOnSet(railPaid, RailsOf(d)) =
           IF railId[d] = 0 THEN 0 ELSE railPaid[railId[d]]
<1>1. IsFiniteSet(RailsOf(d))
  <2>1. IsFiniteSet(1 .. railCount) /\ RailsOf(d) \subseteq 1 .. railCount
    BY RailTypes, FS_Interval, ValidatorAssumption DEF RailsOf
  <2> QED
    BY <2>1, FS_Subset
<1>2. \A r \in RailsOf(d) : r # railId[d] => railPaid[r] = 0
  <2>1. ASSUME NEW r \in 1 .. railCount
        PROVE  r \in Rails
    BY RailTypes, ValidatorAssumption DEF Rails
  <2> QED
    BY <2>1 DEF RailsOf, SettlementInv, RailBounded, IsRailIdValid
<1>3. CASE railId[d] = 0
  <2>1. \A r \in RailsOf(d) : railPaid[r] = 0
    BY <1>2, <1>3, RailTypes DEF RailsOf
  <2> QED
    BY <1>1, <1>3, <2>1, SumZero
<1>4. CASE railId[d] # 0
  <2>1. railId[d] \in RailsOf(d) /\ railPaid[railId[d]] \in Int
    BY <1>4, RailTypes DEF RailsOf, Consistent
  <2> QED
    BY <1>1, <1>2, <1>4, <2>1, SumOne
<1> QED
  BY <1>3, <1>4

\* The total paid over every rail that names a deal's validator never exceeds
\* what the service delivered so far is worth, for any number of rails and
\* any sequence of settlement windows, rejections, retries and closures.
THEOREM PaymentsBounded == Spec => []NeverOverpaid
<1>1. ASSUME SettlementInv, NEW d \in Existing
      PROVE  SumFunctionOnSet(railPaid, RailsOf(d)) <=
               IF Started(d) /\ railId[d] # 0
                 THEN DueAmount(d, EffectiveTo(d, railCursor[railId[d]]))
                 ELSE 0
  BY <1>1, PaidByOwnRail, RailTypes DEF RailSettled
<1>2. SettlementInv => NeverOverpaid
  BY <1>1 DEF NeverOverpaid
<1> QED
  BY <1>2, SettlementInvariant, PTL

-----------------------------------------------------------------------------
(* The agreement *)

\* All that is paid in the name of a deal is paid by its own rail.
OwnPaid(d) == IF railId[d] = 0 THEN 0 ELSE railPaid[railId[d]]

LEMMA PaidOverOwnRail == SettlementInv => \A d \in Deals : PaidOver(d) = OwnPaid(d)
<1> SUFFICES ASSUME SettlementInv, NEW d \in Deals
             PROVE  PaidOver(d) = OwnPaid(d)
  OBVIOUS
<1>1. CASE d \in Existing
  BY <1>1, PaidByOwnRail DEF PaidOver, OwnPaid
<1>2. CASE d \notin Existing
  <2>1. RailsOf(d) = {}
    BY <1>2 DEF RailsOf, SettlementInv, DealInv, TypeInv, RailsNameDeals
  <2>2. railId[d] = 0
    BY <1>2 DEF SettlementInv, DealInv, DealRailConsistent, Consistent, DealsCounted
  <2> QED
    BY <2>1, <2>2, SumEmpty DEF PaidOver, OwnPaid
<1> QED
  BY <1>1, <1>2

LEMMA PaidOverOwnRailNext == SettlementInv' => \A d \in Deals : PaidOver(d)' = OwnPaid(d)'
<1>1. (SettlementInv => \A d \in Deals : PaidOver(d) = OwnPaid(d))'
  BY PaidOverOwnRail, PTL
<1> QED
  BY <1>1

\* What the agreement of deal e reads.
AgreementKept(e) ==
  /\ Kept(e)
  /\ railId[e] # 0 =>
       /\ terms'[e].price = terms[e].price
       /\ railCursor'[railId[e]] = railCursor[railId[e]]
       /\ railPaid'[railId[e]] = railPaid[railId[e]]

LEMMA AgreementFields ==
  ASSUME SettlementInv, NEW e \in Deals
  PROVE  /\ Consistent(e) /\ (railId[e] # 0 => railId[e] \in Rails)
         /\ Started(e) => railId[e] # 0
         /\ ~Started(e) => MonthlyAmount(e) = 0 /\ SettledTo(e) = 0 /\ PaidOver(e) = 0
<1>1. Consistent(e) /\ RailSettled(e) /\ dealState[e] \in DealStates /\ railStatus[e] \in RailStatuses
  BY DEF SettlementInv, DealInv, DealRailConsistent, TypeInv, TypeOK, MarketTypeOK, ValidatorTypeOK
<1>2. railId[e] # 0 => railId[e] \in Rails
  BY DEF SettlementInv, DealInv, TypeInv, TypeOK, ValidatorTypeOK, Rails
<1>3. Started(e) => railId[e] # 0
  BY <1>1 DEF Consistent, DealStates, RailStatuses
<1>4. ~Started(e) => MonthlyAmount(e) = 0 /\ SettledTo(e) = 0 /\ PaidOver(e) = 0
  BY <1>1, PaidOverOwnRail DEF MonthlyAmount, SettledTo, OwnPaid, RailSettled
<1> QED
  BY <1>1, <1>2, <1>3, <1>4

LEMMA AgreementFieldsNext ==
  SettlementInv' => \A e \in Deals : ~Started(e)' =>
    MonthlyAmount(e)' = 0 /\ SettledTo(e)' = 0 /\ PaidOver(e)' = 0
<1>1. SettlementInv => \A e \in Deals : ~Started(e) =>
        MonthlyAmount(e) = 0 /\ SettledTo(e) = 0 /\ PaidOver(e) = 0
  BY AgreementFields
<1>2. (SettlementInv => \A e \in Deals : ~Started(e) =>
        MonthlyAmount(e) = 0 /\ SettledTo(e) = 0 /\ PaidOver(e) = 0)'
  BY <1>1, PTL
<1> QED
  BY <1>2

LEMMA AgreementStutters ==
  ASSUME SettlementInv, SettlementInv', NEW e \in Deals, now' = now, AgreementKept(e)
  PROVE  UNCHANGED Agreement(e)!agreementVars
<1>1. Started(e) => railId[e] # 0
  BY AgreementFields
<1>2. MonthlyAmount(e)' = MonthlyAmount(e)
  BY <1>1 DEF AgreementKept, Kept, MonthlyAmount, Started, BilledUnits, CeilDiv
<1>3. SettledTo(e)' = SettledTo(e)
  BY <1>1 DEF AgreementKept, Kept, SettledTo, Started, EffectiveTo, LastPayableEpoch
<1>4. PaidOver(e)' = PaidOver(e)
  BY PaidOverOwnRail, PaidOverOwnRailNext DEF OwnPaid, AgreementKept, Kept
<1> QED
  BY <1>2, <1>3, <1>4 DEF Agreement!agreementVars, Agreement!window, Agreement!money, AgreementKept, Kept

\* A step of deal d, or a settlement of its rail, keeps the agreements of the others.
LEMMA OtherRails ==
  ASSUME SettlementInv, NEW d \in Deals, NEW e \in Deals, e # d, railId[e] # 0
  PROVE  railId[e] # railId[d] /\ railId[e] \in Rails /\ railId[e] # railCount + 1
<1>1. Consistent(e) /\ Consistent(d) /\ railId[e] \in Rails /\ railCount \in Nat
  BY AgreementFields DEF SettlementInv, DealInv, TypeInv, TypeOK, ValidatorTypeOK
<1> QED
  BY <1>1 DEF Consistent, Rails

LEMMA QuietAgreement ==
  ASSUME SettlementInv, NEW d \in Existing,
         \/ CreateValidator(d) \/ CreateForeignRail(d)
         \/ SubmitEvidence(d) \/ RefreshEvidenceStatus(d)
         \/ \E manifest \in Manifests, request \in Requests :
              UpdateManifestLocation(d, manifest, request.size)
         \/ \E epochs \in MinIntervals : SetMinEpochsBetweenSettlements(d, epochs)
  PROVE  now' = now /\ \A e \in Deals : AgreementKept(e)
<1>0. d \in Deals /\ railCount \in 0 .. MaxRails /\ terms \in [1 .. dealCount -> DealTerms]
  BY RailTypes DEF SettlementInv, DealInv, TypeInv, TypeOK, MarketTypeOK
<1>1. CASE CreateValidator(d) \/ SubmitEvidence(d) \/ RefreshEvidenceStatus(d)
  BY <1>1 DEF CreateValidator, DeployValidator, SubmitEvidence, RefreshEvidenceStatus, validatorVars,
              railVars, marketVars, dealVars, serviceVars, AgreementKept, Kept
<1>2. CASE CreateForeignRail(d)
  <2>1. /\ railCursor' = [railCursor EXCEPT ![railCount + 1] = now]
        /\ UNCHANGED <<now, railPaid, marketVars, railId, railStatus>>
    BY <1>2 DEF CreateForeignRail, CreatePayRail, validatorVars
  <2>2. \A e \in Deals : railId[e] # 0 => railCursor'[railId[e]] = railCursor[railId[e]]
    <3>1. \A e \in Deals : railId[e] # 0 => railId[e] \in Rails /\ railId[e] <= railCount
      BY AgreementFields DEF Consistent
    <3>2. railCursor \in [Rails -> Nat]
      BY DEF SettlementInv, DealInv, TypeInv, TypeOK, ValidatorTypeOK
    <3> QED
      BY <1>0, <2>1, <3>1, <3>2
  <2> QED
    BY <2>1, <2>2 DEF marketVars, dealVars, serviceVars, AgreementKept, Kept
<1>3. ASSUME NEW manifest \in Manifests, NEW request \in Requests,
             UpdateManifestLocation(d, manifest, request.size)
      PROVE  now' = now /\ \A e \in Deals : AgreementKept(e)
  <2>1. /\ terms' = [terms EXCEPT ![d].manifest = manifest, ![d].reserved = request.size]
        /\ UNCHANGED <<now, dealState, dealCommitted, serviceVars, validatorVars, railVars>>
    BY <1>3 DEF UpdateManifestLocation
  <2>2. \A e \in Existing : terms'[e].price = terms[e].price
    BY <1>0, <2>1 DEF DealTerms, Existing
  <2>3. \A e \in Deals : railId[e] # 0 => e \in Existing
    BY DEF SettlementInv, DealInv, DealRailConsistent, Consistent, DealsCounted
  <2> QED
    BY <2>1, <2>2, <2>3 DEF AgreementKept, Kept, serviceVars, validatorVars, railVars
<1>4. ASSUME NEW epochs \in MinIntervals, SetMinEpochsBetweenSettlements(d, epochs)
      PROVE  now' = now /\ \A e \in Deals : AgreementKept(e)
  BY <1>4 DEF SetMinEpochsBetweenSettlements, validatorVars, railVars, dealVars, serviceVars,
              AgreementKept, Kept
<1> QED
  BY <1>1, <1>2, <1>3, <1>4

LEMMA CreateRailAgreement ==
  ASSUME SettlementInv, SettlementInv', NEW d \in Existing, CreateRail(d), NEW e \in Deals
  PROVE  UNCHANGED Agreement(e)!agreementVars
<1>1. /\ d \in Deals /\ dealState[d] = "ACCEPTED" /\ railId[d] = 0
      /\ railId' = [railId EXCEPT ![d] = railCount + 1]
      /\ railStatus' = [railStatus EXCEPT ![d] = "PREPARED"]
      /\ railCursor' = [railCursor EXCEPT ![railCount + 1] = now]
      /\ UNCHANGED <<now, railPaid, marketVars>>
  BY RailTypes DEF CreateRail, PrepareRail, CreatePayRail
<1>2. /\ railId \in [Deals -> 0 .. MaxRails] /\ railStatus \in [Deals -> RailStatuses]
      /\ railCursor \in [Rails -> Nat]
  BY DEF SettlementInv, DealInv, TypeInv, TypeOK, ValidatorTypeOK
<1>3. CASE e # d
  <2>1. railId[e] # 0 => railId[e] \in Rails /\ railId[e] # railCount + 1
    BY <1>1, <1>3, OtherRails
  <2>2. railId[e] # 0 => railCursor'[railId[e]] = railCursor[railId[e]]
    BY <1>1, <1>2, <2>1
  <2>3. AgreementKept(e)
    BY <1>1, <1>2, <1>3, <2>2 DEF AgreementKept, Kept, marketVars, dealVars, serviceVars
  <2> QED
    BY <1>1, <2>3, AgreementStutters
<1>4. CASE e = d
  <2>1. ~Started(d) /\ ~Started(d)'
    BY <1>1, AgreementFields DEF Consistent, Started, marketVars, serviceVars
  <2>2. UNCHANGED <<MonthlyAmount(d), SettledTo(d), PaidOver(d)>>
    <3>1. MonthlyAmount(d)' = 0 /\ SettledTo(d)' = 0 /\ PaidOver(d)' = 0
      BY <1>1, <2>1, AgreementFieldsNext
    <3> QED
      BY <1>1, <2>1, <3>1, AgreementFields
  <2> QED
    BY <1>1, <1>4, <2>2 DEF Agreement!agreementVars, Agreement!window, Agreement!money,
                            marketVars, dealVars, serviceVars
<1> QED
  BY <1>3, <1>4

\* A step of deal d that the agreements of the others do not see.
LEMMA OwnAgreement ==
  ASSUME SettlementInv, SettlementInv', NEW d \in Deals, now' = now,
         \A e \in Deals \ {d} : AgreementKept(e),
         [Agreement(d)!Next]_(Agreement(d)!agreementVars)
  PROVE  \A e \in Deals : [Agreement(e)!Next]_(Agreement(e)!agreementVars)
<1> DEFINE Mapped(e) == [Agreement(e)!Next]_(Agreement(e)!agreementVars)
<1>1. ASSUME NEW e \in Deals \ {d}
      PROVE  UNCHANGED Agreement(e)!agreementVars
  BY <1>1, AgreementStutters
<1>2. \A e \in Deals \ {d} : Mapped(e)
  BY <1>1
<1>3. Mapped(d)
  OBVIOUS
<1> HIDE DEF Mapped
<1>4. \A e \in Deals : Mapped(e)
  BY <1>2, <1>3
<1> QED
  BY <1>4 DEF Mapped

LEMMA AcceptAgreement ==
  ASSUME SettlementInv, SettlementInv', NEW request \in Requests, NEW o, CreateDeal(o, request)
  PROVE  \A e \in Deals : [Agreement(e)!Next]_(Agreement(e)!agreementVars)
<1>0. PICK d \in Deals : d = dealCount + 1
  <2>1. dealCount \in 0 .. MaxDeals /\ MaxDeals \in Nat
    BY ValidatorAssumption DEF SettlementInv, DealInv, TypeInv, TypeOK, MarketTypeOK
  <2> QED
    BY <2>1 DEF CreateDeal, Deals
<1>1. /\ d \notin Existing
      /\ dealState' = [dealState EXCEPT ![d] = "ACCEPTED"]
      /\ \A e \in 1 .. d : e # d => terms'[e] = terms[e]
      /\ UNCHANGED <<now, dealCommitted, serviceVars, railId, railStatus, railVars>>
  <2>1. dealCount \in Nat
    BY DEF SettlementInv, DealInv, TypeInv, TypeOK, MarketTypeOK
  <2> QED
    BY <1>0, <2>1 DEF CreateDeal, ChangeDealState, validatorVars, Existing
<1>2. dealState \in [Deals -> DealStates]
  BY DEF SettlementInv, DealInv, TypeInv, TypeOK, MarketTypeOK
<1>3. dealState[d] = "NONE" /\ railId[d] = 0 /\ ~Started(d)
  <2>1. dealState[d] = "NONE"
    BY <1>1 DEF SettlementInv, DealInv, DealsCounted
  <2>2. Consistent(d) /\ railStatus[d] \in RailStatuses
    BY DEF SettlementInv, DealInv, DealRailConsistent, TypeInv, TypeOK, ValidatorTypeOK
  <2> QED
    BY <2>1, <2>2 DEF Consistent, RailStatuses
<1>4. \A e \in Deals \ {d} : AgreementKept(e)
  <2>1. \A e \in Deals : railId[e] # 0 => e \in Existing
    BY DEF SettlementInv, DealInv, DealRailConsistent, Consistent, DealsCounted
  <2>2. \A e \in Existing : e \in 1 .. d /\ e # d
    BY <1>0, <1>1 DEF Existing, SettlementInv, DealInv, TypeInv, TypeOK, MarketTypeOK
  <2> QED
    BY <1>1, <1>2, <2>1, <2>2 DEF AgreementKept, Kept, serviceVars, railVars
<1>5. ~Started(d)'
  BY <1>1, <1>3 DEF Started, serviceVars
<1>6. UNCHANGED <<MonthlyAmount(d), SettledTo(d), PaidOver(d)>>
  <2>1. MonthlyAmount(d)' = 0 /\ SettledTo(d)' = 0 /\ PaidOver(d)' = 0
    BY <1>5, AgreementFieldsNext
  <2> QED
    BY <1>3, <2>1, AgreementFields
<1>7. Agreement(d)!Accept
  BY <1>1, <1>2, <1>3, <1>6 DEF Agreement!Accept, Agreement!window, Agreement!money, serviceVars
<1> QED
  BY <1>1, <1>4, <1>7, OwnAgreement DEF Agreement!Next

LEMMA ActivateAgreement ==
  ASSUME SettlementInv, SettlementInv', NEW d \in Existing, ActivateEvidence(d)
  PROVE  \A e \in Deals : [Agreement(e)!Next]_(Agreement(e)!agreementVars)
<1> DEFINE r == railId[d]
           covered == evidenceCovered[d]
<1>1. /\ d \in Deals /\ r \in Rails /\ r # 0 /\ now \in Nat \ {0} /\ terms[d] \in DealTerms
      /\ railCursor \in [Rails -> Nat] /\ railStatus \in [Deals -> RailStatuses]
  BY RailTypes DEF ActivateEvidence, StartPreparedPayment, SettlementInv, DealInv, TypeInv, TypeOK,
                   ValidatorTypeOK
<1>2. /\ dealState[d] = "ACCEPTED" /\ dealState' = [dealState EXCEPT ![d] = "ACTIVE"]
      /\ dealCommitted' = [dealCommitted EXCEPT ![d] = covered]
      /\ serviceStart' = [serviceStart EXCEPT ![d] = now]
      /\ serviceEnd' = [serviceEnd EXCEPT ![d] = now + DurationEpochs[terms[d].kind]]
      /\ railCursor' = [railCursor EXCEPT ![r] = IF ZeroRateAsked THEN @ ELSE now]
      /\ \E status : railStatus' = [railStatus EXCEPT ![d] = status]
      /\ UNCHANGED <<now, terms, earlyTermination, railId, railPaid>>
  BY DEF ActivateEvidence, StartPreparedPayment, ChangeDealState, ModifyRailPayment, ModifyPayRail
<1>3. /\ dealState \in [Deals -> DealStates] /\ dealCommitted \in [Deals -> Nat] /\ covered \in Nat
      /\ serviceStart \in [Deals -> Nat] /\ serviceEnd \in [Deals -> Nat]
  BY <1>1 DEF SettlementInv, DealInv, TypeInv, TypeOK, MarketTypeOK, EvidenceTypeOK
<1>4. \A e \in Deals \ {d} : AgreementKept(e)
  <2>1. \A e \in Deals \ {d} : railId[e] # 0 => railId[e] # r /\ railId[e] \in Rails
    BY <1>1, OtherRails
  <2> QED
    BY <1>1, <1>2, <1>3, <2>1 DEF AgreementKept, Kept
<1>5. serviceEnd'[d] \in Nat /\ serviceEnd'[d] > now /\ serviceEnd'[d] # 0
  <2>1. DurationEpochs[terms[d].kind] \in Nat \ {0}
    BY <1>1, MarketAssumption DEF DealTerms
  <2> QED
    BY <1>1, <1>2, <1>3, <2>1
<1>6. MonthlyAmount(d)' \in Nat
  <2>1. terms'[d].price \in Nat
    BY <1>1, <1>2 DEF DealTerms
  <2>2. dealCommitted'[d] \in Nat /\ BilledUnits(dealCommitted'[d]) \in Nat
    BY <1>1, <1>2, <1>3, CeilDivType, MarketAssumption DEF BilledUnits
  <2>3. terms'[d].price * BilledUnits(dealCommitted'[d]) \in Nat
    BY <2>1, <2>2
  <2> QED
    BY <2>3 DEF MonthlyAmount, BilledUnits, CeilDiv
<1>7. SettledTo(d)' \in 0 .. now
  <2>1. railCursor'[r] \in 0 .. now
    <3>1. railCursor[r] <= now
      BY <1>1 DEF SettlementInv, RailBounded
    <3> QED
      BY <1>1, <1>2, <3>1
  <2>2. earlyTermination'[d] \in Nat
    BY <1>1 DEF SettlementInv, DealInv, TypeInv, TypeOK, MarketTypeOK
  <2>3. railId'[d] = r /\ railCursor'[r] \in Nat /\ now \in Nat
    BY <1>1, <1>2, <2>1
  <2>4. SettledTo(d)' = IF railCursor'[r] > LastPayableEpoch(d)' THEN LastPayableEpoch(d)' ELSE railCursor'[r]
    BY <1>5, <2>3 DEF SettledTo, EffectiveTo, Started
  <2>5. LastPayableEpoch(d)' \in Nat
    BY <1>5, <2>2 DEF LastPayableEpoch
  <2> HIDE DEF r
  <2> QED
    BY <2>1, <2>3, <2>4, <2>5
<1>8. PaidOver(d)' = PaidOver(d)
  BY <1>1, <1>2, PaidOverOwnRail, PaidOverOwnRailNext DEF OwnPaid
<1>9. Agreement(d)!Activate
  BY <1>1, <1>2, <1>3, <1>5, <1>6, <1>7, <1>8 DEF Agreement!Activate
<1> QED
  BY <1>1, <1>2, <1>4, <1>9, OwnAgreement DEF Agreement!Next

LEMMA CloseAgreement ==
  ASSUME SettlementInv, SettlementInv', NEW d \in Existing,
         \/ RejectAcceptedDeal(d)
         \/ \E state \in {"EXPIRED", "EARLY_TERMINATED"} : TerminateDeal(d, state)
         \/ FinalizeDeal(d)
  PROVE  \A e \in Deals : [Agreement(e)!Next]_(Agreement(e)!agreementVars)
<1>1. /\ d \in Deals /\ Consistent(d) /\ now \in Nat \ {0} /\ dealState \in [Deals -> DealStates]
      /\ railStatus \in [Deals -> RailStatuses]
      /\ earlyTermination \in [Deals -> Nat] /\ serviceEnd \in [Deals -> Nat]
  BY RailTypes DEF SettlementInv, DealInv, TypeInv, TypeOK, MarketTypeOK, ValidatorTypeOK
<1>2. /\ UNCHANGED <<now, terms, dealCommitted, serviceStart, serviceEnd, railId, railCursor, railPaid>>
      /\ \E state : dealState' = [dealState EXCEPT ![d] = state]
      /\ \E status : railStatus' = [railStatus EXCEPT ![d] = status]
      /\ \E epoch : earlyTermination' = [earlyTermination EXCEPT ![d] = epoch]
  <2>1. CASE RejectAcceptedDeal(d)
    <3>1. railStatus' = [railStatus EXCEPT ![d] = railStatus[d]]
          /\ earlyTermination' = [earlyTermination EXCEPT ![d] = earlyTermination[d]]
      BY <1>1, <2>1 DEF RejectAcceptedDeal, validatorVars, serviceVars
    <3> QED
      BY <2>1, <3>1 DEF RejectAcceptedDeal, ChangeDealState, validatorVars, serviceVars, railVars
  <2>2. ASSUME NEW state \in {"EXPIRED", "EARLY_TERMINATED"}, TerminateDeal(d, state)
        PROVE  <1>2!:
    BY <2>2 DEF TerminateDeal, ChangeDealState, EarlyRailTermination, TerminateRailFrom, TerminatePayRail
  <2>3. CASE FinalizeDeal(d)
    <3>1. earlyTermination' = [earlyTermination EXCEPT ![d] = earlyTermination[d]]
      BY <1>1, <2>3 DEF FinalizeDeal, serviceVars
    <3> QED
      BY <2>3, <3>1 DEF FinalizeDeal, ChangeDealState, FinalizeRail, TerminateRailFrom, TerminatePayRail,
                        serviceVars
  <2> QED
    BY <2>1, <2>2, <2>3
<1>3. \A e \in Deals \ {d} : AgreementKept(e)
  BY <1>1, <1>2 DEF AgreementKept, Kept
<1>4. PaidOver(d)' = PaidOver(d) /\ MonthlyAmount(d)' = MonthlyAmount(d)
  <2>1. PaidOver(d)' = PaidOver(d)
    BY <1>1, <1>2, PaidOverOwnRail, PaidOverOwnRailNext DEF OwnPaid
  <2> QED
    BY <1>2, <2>1 DEF MonthlyAmount, Started, BilledUnits, CeilDiv
<1>5. Started(d) => railId[d] \in Rails /\ railCursor[railId[d]] \in Nat /\ railCursor[railId[d]] <= now
  <2>1. Started(d) => railId[d] \in Rails
    BY <1>1, AgreementFields
  <2> QED
    BY <2>1 DEF SettlementInv, RailBounded, DealInv, TypeInv, TypeOK, ValidatorTypeOK
<1>6. CASE RejectAcceptedDeal(d)
  <2>1. /\ dealState[d] = "ACCEPTED" /\ dealState'[d] = "REJECTED"
        /\ earlyTermination' = earlyTermination
    BY <1>1, <1>6 DEF RejectAcceptedDeal, ChangeDealState, serviceVars
  <2>2. SettledTo(d)' = SettledTo(d)
    BY <1>2, <2>1 DEF SettledTo, Started, EffectiveTo, LastPayableEpoch
  <2>3. Agreement(d)!Reject
    BY <1>2, <1>4, <2>1, <2>2 DEF Agreement!Reject, Agreement!window, Agreement!money
  <2> QED
    BY <1>1, <1>2, <1>3, <2>3, OwnAgreement DEF Agreement!Next
<1>7. ASSUME NEW state \in {"EXPIRED", "EARLY_TERMINATED"}, TerminateDeal(d, state)
      PROVE  \A e \in Deals : [Agreement(e)!Next]_(Agreement(e)!agreementVars)
  <2>1. /\ dealState'[d] = state /\ railStatus[d] \in {"PREPARED", "ACTIVE"}
        /\ state = "EXPIRED" => dealState[d] = "ACCEPTED"
        /\ earlyTermination'[d] = now
        /\ Started(d) => now <= serviceEnd[d]
    BY <1>1, <1>7 DEF TerminateDeal, ChangeDealState, EarlyRailTermination, TerminateRailFrom,
                      NotAfterService, CanExpire
  <2>2. dealState[d] \in {"ACCEPTED", "ACTIVE"} /\ earlyTermination[d] = 0
        /\ (dealState[d] = "ACTIVE" => Started(d))
    BY <1>1, <2>1 DEF Consistent
  <2>3. SettledTo(d)' = SettledTo(d)
    <3>1. CASE ~Started(d)
      BY <1>2, <3>1 DEF SettledTo, Started
    <3>2. CASE Started(d)
      <4>1. /\ railCursor'[railId'[d]] = railCursor[railId[d]] /\ serviceEnd'[d] = serviceEnd[d]
            /\ serviceEnd[d] \in Nat /\ now <= serviceEnd[d]
        BY <1>1, <1>2, <2>1, <3>2
      <4> QED
        BY <1>1, <1>5, <2>1, <2>2, <3>2, <4>1 DEF SettledTo, Started, EffectiveTo, LastPayableEpoch
    <3> QED
      BY <3>1, <3>2
  <2>4. dealState[d] = "ACTIVE" => now <= serviceEnd[d]
    BY <2>1, <2>2
  <2>5. Agreement(d)!Terminate
    BY <1>2, <1>4, <2>1, <2>2, <2>3, <2>4 DEF Agreement!Terminate, Agreement!window, Agreement!money
  <2> QED
    BY <1>1, <1>2, <1>3, <2>5, OwnAgreement DEF Agreement!Next
<1>8. CASE FinalizeDeal(d)
  <2>1. /\ dealState[d] = "ACTIVE" /\ dealState'[d] = "FINALIZED" /\ serviceEnd[d] < now
        /\ earlyTermination' = earlyTermination
    BY <1>1, <1>8 DEF FinalizeDeal, ChangeDealState, ServiceOver, serviceVars
  <2>2. SettledTo(d)' = SettledTo(d)
    BY <1>2, <2>1 DEF SettledTo, Started, EffectiveTo, LastPayableEpoch
  <2>3. Agreement(d)!Finalize
    BY <1>2, <1>4, <2>1, <2>2 DEF Agreement!Finalize, Agreement!window, Agreement!money
  <2> QED
    BY <1>1, <1>2, <1>3, <2>3, OwnAgreement DEF Agreement!Next
<1> QED
  BY <1>6, <1>7, <1>8

\* A settlement of the deal's rail, paid or rejected.
LEMMA SettleAgreement ==
  ASSUME SettlementInv, SettlementInv', NEW r \in 1 .. railCount, NEW to \in 1 .. now, SettleRail(r, to)
  PROVE  \A e \in Deals : [Agreement(e)!Next]_(Agreement(e)!agreementVars)
<1>0. PICK d \in Deals : d = railDeal[r]
  BY Decision DEF SettleRail
<1> DEFINE from == railCursor[r]
           upto == SettleUpto(d, from, to)
           amount == SettlementAmount(d, from, to)
<1>1. /\ d \in Existing /\ r \in Rails /\ r # 0 /\ Started(d)
      /\ from \in Nat /\ upto \in Nat /\ from < upto /\ upto <= to /\ to <= now
  <2>1. r # 0 /\ now \in Nat
    BY DEF SettlementInv, DealInv, TypeInv, TypeOK, ValidatorTypeOK
  <2> QED
    BY <1>0, <2>1, Decision DEF SettleRail
<1>2. /\ railId[d] = r
      /\ railCursor' = [railCursor EXCEPT ![r] = upto]
      /\ railPaid' = [railPaid EXCEPT ![r] = @ + amount]
      /\ UNCHANGED <<now, dealVars, serviceVars, railId, railStatus>>
  BY <1>0 DEF SettleRail, IsRailIdValid, AdvancePayRail, validatorVars
<1> HIDE DEF from, upto, amount
<1>3. railPaid \in [Rails -> Int] /\ railCursor \in [Rails -> Nat] /\ now \in Nat
  BY <1>1, RailTypes
<1>4. \A e \in Deals \ {d} : AgreementKept(e)
  <2>1. \A e \in Deals \ {d} : railId[e] # 0 => railId[e] # r /\ railId[e] \in Rails
    BY <1>2, OtherRails
  <2> QED
    BY <1>2, <1>3, <2>1 DEF AgreementKept, Kept, dealVars, serviceVars
<1>5. /\ SettledTo(d) = EffectiveTo(d, from) /\ SettledTo(d)' = EffectiveTo(d, upto)
      /\ PaidOver(d)' = PaidOver(d) + amount
  <2>1. railCursor'[r] = upto /\ railPaid'[r] = railPaid[r] + amount /\ railId'[d] = r
    BY <1>1, <1>2, <1>3
  <2>2. SettledTo(d)' = EffectiveTo(d, upto)
    BY <1>1, <1>2, <2>1 DEF SettledTo, Started, EffectiveTo, LastPayableEpoch, serviceVars
  <2>3. PaidOver(d)' = PaidOver(d) + amount
    BY <1>1, <1>2, <2>1, PaidOverOwnRail, PaidOverOwnRailNext DEF OwnPaid
  <2> QED
    BY <1>1, <1>2, <2>2, <2>3 DEF SettledTo, from
<1>6. /\ SettledTo(d) \in Nat /\ SettledTo(d)' \in Nat
      /\ SettledTo(d) <= SettledTo(d)' /\ SettledTo(d)' <= now /\ SettledTo(d)' <= LastPayableEpoch(d)
      /\ amount \in {0, DueAmount(d, SettledTo(d)') - DueAmount(d, SettledTo(d))}
  <2>0. TypeInv
    BY DEF SettlementInv, DealInv
  <2>1. /\ EffectiveTo(d, from) \in Nat /\ EffectiveTo(d, upto) \in Nat
        /\ EffectiveTo(d, upto) <= upto /\ EffectiveTo(d, from) <= EffectiveTo(d, upto)
        /\ LastPayableEpoch(d) \in Nat
    BY <1>0, <1>1, <2>0, EffectiveType, EffectiveMonotone
  <2>2. EffectiveTo(d, upto) <= LastPayableEpoch(d) /\ EffectiveTo(d, upto) <= now
    BY <1>1, <1>3, <2>1 DEF EffectiveTo
  <2>3. amount \in {0, DueAmount(d, EffectiveTo(d, upto)) - DueAmount(d, EffectiveTo(d, from))}
    <3>1. CASE SettlementPays(d, from, to)
      <4>1. upto = to /\ amount = DueAmount(d, EffectiveTo(d, to)) - DueAmount(d, from)
            /\ ~NothingLeftToEarn(d, from)
        BY <3>1 DEF upto, amount, SettleUpto, SettlementAmount, SettlementPays
      <4>2. EffectiveTo(d, from) = from
        BY <1>0, <1>1, <2>0, <4>1, EffectiveMonotone
      <4> QED
        BY <4>1, <4>2
    <3>2. CASE ~SettlementPays(d, from, to)
      BY <3>2 DEF amount, SettlementAmount
    <3> QED
      BY <3>1, <3>2
  <2> QED
    BY <1>5, <2>1, <2>2, <2>3
<1>7. /\ DueAmount(d, SettledTo(d)) = Agreement(d)!Worth(SettledTo(d))
      /\ DueAmount(d, SettledTo(d)') = Agreement(d)!Worth(SettledTo(d)')
  BY <1>1 DEF DueAmount, Agreement!Worth, MonthlyAmount
<1>8. PaidOver(d)' \in {PaidOver(d), PaidOver(d) +
        (Agreement(d)!Worth(SettledTo(d)') - Agreement(d)!Worth(SettledTo(d)))}
  <2>1. PaidOver(d) \in Int
    BY <1>1, <1>2, <1>3, PaidOverOwnRail DEF OwnPaid
  <2> QED
    BY <1>5, <1>6, <1>7, <2>1
<1>9. MonthlyAmount(d)' = MonthlyAmount(d)
  BY <1>2 DEF MonthlyAmount, Started, BilledUnits, CeilDiv, dealVars, serviceVars
<1>10. Agreement(d)!Settle
  <2>1. SettledTo(d)' \in SettledTo(d) .. now
    BY <1>3, <1>6
  <2>2. Agreement(d)!lastPayable = LastPayableEpoch(d)
    BY DEF Agreement!lastPayable, LastPayableEpoch
  <2> QED
    BY <1>1, <1>2, <1>6, <1>8, <1>9, <2>1, <2>2
      DEF Agreement!Settle, Agreement!window, Started, dealVars, serviceVars
<1> QED
  BY <1>2, <1>4, <1>10, OwnAgreement DEF Agreement!Next

LEMMA TickAgreement ==
  ASSUME SettlementInv, SettlementInv', Tick
  PROVE  \A e \in Deals : [Agreement(e)!Next]_(Agreement(e)!agreementVars)
<1>1. /\ now' = now + 1
      /\ UNCHANGED <<dealVars, serviceVars, railId, railCursor, railPaid>>
  BY DEF Tick, contractVars, marketVars, validatorVars, railVars
<1>2. ASSUME NEW e \in Deals PROVE Agreement(e)!Tick
  <2>1. PaidOver(e)' = PaidOver(e)
    BY <1>1, PaidOverOwnRail, PaidOverOwnRailNext DEF OwnPaid
  <2>2. MonthlyAmount(e)' = MonthlyAmount(e) /\ SettledTo(e)' = SettledTo(e)
    BY <1>1 DEF MonthlyAmount, SettledTo, EffectiveTo, LastPayableEpoch, Started, BilledUnits, CeilDiv,
                dealVars, serviceVars
  <2> QED
    BY <1>1, <2>1, <2>2 DEF Agreement!Tick, Agreement!window, Agreement!money, dealVars, serviceVars
<1> QED
  BY <1>2 DEF Agreement!Next

LEMMA UnseenAgreement ==
  ASSUME SettlementInv, SettlementInv',
         ManageRegistry \/ UNCHANGED vars \/ \E d \in Deals, met \in BOOLEAN : SetSLI(d, met)
  PROVE  \A e \in Deals : UNCHANGED Agreement(e)!agreementVars
<1>1. now' = now /\ \A e \in Deals : AgreementKept(e)
  BY DEF ManageRegistry, SetSLI, vars, contractVars, marketVars, validatorVars, railVars, dealVars,
         serviceVars, AgreementKept, Kept
<1> QED
  BY <1>1, AgreementStutters

LEMMA AgreementDealStep ==
  ASSUME SettlementInv, SettlementInv', NEW d \in Existing, DealStep(d)
  PROVE  \A e \in Deals : [Agreement(e)!Next]_(Agreement(e)!agreementVars)
<1>1. CASE \/ CreateValidator(d) \/ CreateForeignRail(d)
           \/ SubmitEvidence(d) \/ RefreshEvidenceStatus(d)
           \/ \E manifest \in Manifests, request \in Requests :
                UpdateManifestLocation(d, manifest, request.size)
           \/ \E epochs \in MinIntervals : SetMinEpochsBetweenSettlements(d, epochs)
  BY <1>1, QuietAgreement, AgreementStutters
<1>2. CASE CreateRail(d)
  BY <1>2, CreateRailAgreement
<1>3. CASE ActivateEvidence(d)
  BY <1>3, ActivateAgreement
<1>4. CASE \/ RejectAcceptedDeal(d)
           \/ \E state \in {"EXPIRED", "EARLY_TERMINATED"} : TerminateDeal(d, state)
           \/ FinalizeDeal(d)
  BY <1>4, CloseAgreement
<1> QED
  BY <1>1, <1>2, <1>3, <1>4 DEF DealStep

LEMMA AgreementStep ==
  SettlementInv /\ SettlementInv' /\ [Next]_vars
    => \A e \in Deals : [Agreement(e)!Next]_(Agreement(e)!agreementVars)
<1> SUFFICES ASSUME SettlementInv, SettlementInv', [Next]_vars
             PROVE  \A e \in Deals : [Agreement(e)!Next]_(Agreement(e)!agreementVars)
  OBVIOUS
<1>1. CASE ManageRegistry \/ UNCHANGED vars \/ \E d \in Deals, met \in BOOLEAN : SetSLI(d, met)
  BY <1>1, UnseenAgreement
<1>2. ASSUME NEW request \in Requests, NEW o, CreateDeal(o, request)
      PROVE  \A e \in Deals : [Agreement(e)!Next]_(Agreement(e)!agreementVars)
  BY <1>2, AcceptAgreement
<1>3. CASE \E d \in Existing : DealStep(d)
  BY <1>3, AgreementDealStep
<1>4. CASE \E r \in 1 .. railCount, to \in 1 .. now : SettleRail(r, to)
  BY <1>4, SettleAgreement
<1>5. CASE Tick
  BY <1>5, TickAgreement
<1> QED
  BY <1>1, <1>2, <1>3, <1>4, <1>5 DEF Next, ProposeDeal, ProposeDealWithSpecificOffer

LEMMA AgreementInit ==
  Init => \A e \in Deals : Agreement(e)!Init
<1> SUFFICES ASSUME Init, NEW e \in Deals
             PROVE  Agreement(e)!Init
  OBVIOUS
<1>1. SettlementInv
  BY InitSettlementInv
<1>2. ~Started(e)
  BY DEF Init, Started
<1>3. MonthlyAmount(e) = 0 /\ SettledTo(e) = 0 /\ PaidOver(e) = 0
  BY <1>1, <1>2, AgreementFields
<1> QED
  BY <1>3 DEF Init, Agreement!Init

\* The agreement of every deal is kept: whatever the contracts, rails, refreshes
\* and settlements of PoRepMarket.sol, Validator.sol and FilecoinPay do in
\* between, each of their steps is to each deal one step of ServiceAgreement or
\* none, for any number of deals and rails, durations, prices and sizes.
THEOREM DealsImplementAgreement == Spec => ImplementsAgreement
<1> DEFINE AllStep == \A d \in Deals : [Agreement(d)!Next]_(Agreement(d)!agreementVars)
           AllInit == \A d \in Deals : Agreement(d)!Init
<1>1. Init => AllInit
  BY AgreementInit
<1>2. SettlementInv /\ SettlementInv' /\ [Next]_vars => AllStep
  BY AgreementStep
<1>3. ImplementsAgreement <=> AllInit /\ [][AllStep]_vars
  BY DEF ImplementsAgreement
<1> HIDE DEF AllInit, AllStep
<1>4. Spec => AllInit /\ [][AllStep]_vars
  BY <1>1, <1>2, SettlementInvariant, PTL DEF Spec
<1> QED
  BY <1>3, <1>4, PTL

-----------------------------------------------------------------------------
(* Payment and storage *)

\* Snapshots are taken of complete evidence only, and the bytes it covers are
\* those a deal commits.
EvidenceFollowed(d) ==
  /\ evidenceCovered[d] = 0 => activeCovered[d] = 0
  /\ Started(d) => dealCommitted[d] = evidenceCovered[d]

\* No snapshot is dated ahead of time, and a positive one not long after a loss.
SnapshotHonest(d) ==
  /\ refreshedAt[d] <= now
  /\ SnapshotResult(d) = "ACTIVE" /\ lostAt[d] # 0 => refreshedAt[d] <= lostAt[d] + Lag

PaidUntilLost(d) ==
  Started(d) /\ lostAt[d] # 0 =>
    PaidOver(d) <= DueAmount(d, lostAt[d] + Lag + EVIDENCE_REFRESH_GRACE_EPOCHS)

StoredInv ==
  /\ SettlementInv
  /\ lostAt \in [Deals -> Nat]
  /\ \A d \in Deals : EvidenceFollowed(d) /\ SnapshotHonest(d) /\ PaidUntilLost(d)

LEMMA EvidenceSteps ==
  ASSUME SettlementInv, NEW d \in Deals, EvidenceFollowed(d), [Next]_vars
  PROVE  EvidenceFollowed(d)'
<1>1. /\ evidenceCovered \in [Deals -> Nat] /\ activeCovered \in [Deals -> Nat]
      /\ serviceEnd \in [Deals -> Nat] /\ dealCommitted \in [Deals -> Nat]
      /\ Consistent(d) /\ Existing \subseteq Deals
  BY RailTypes DEF SettlementInv, DealInv, TypeInv, TypeOK, MarketTypeOK, EvidenceTypeOK, DealRailConsistent
<1>2. CASE /\ UNCHANGED <<evidenceCovered, activeCovered>>
           /\ serviceEnd'[d] = serviceEnd[d] /\ dealCommitted'[d] = dealCommitted[d]
  BY <1>2 DEF EvidenceFollowed, Started
<1>3. CASE \E e \in Existing : SubmitEvidence(e)
  <2>1. PICK e \in Existing : SubmitEvidence(e)
    BY <1>3
  <2>2. /\ dealState[e] = "ACCEPTED" /\ evidenceCovered[e] = 0
        /\ \E covered : evidenceCovered' = [evidenceCovered EXCEPT ![e] = covered]
        /\ UNCHANGED <<serviceEnd, dealCommitted, activeCovered>>
    BY <2>1 DEF SubmitEvidence, marketVars, dealVars, serviceVars
  <2>3. e = d => ~Started(d)
    BY <1>1, <2>2 DEF Consistent
  <2> QED
    BY <1>1, <2>2, <2>3 DEF EvidenceFollowed, Started
<1>4. CASE \E e \in Existing : RefreshEvidenceStatus(e)
  <2>1. PICK e \in Existing : RefreshEvidenceStatus(e)
    BY <1>4
  <2>2. /\ evidenceCovered[e] # 0
        /\ \E bytes : activeCovered' = [activeCovered EXCEPT ![e] = bytes]
        /\ UNCHANGED <<serviceEnd, dealCommitted, evidenceCovered>>
    BY <2>1 DEF RefreshEvidenceStatus, marketVars, dealVars, serviceVars
  <2> QED
    BY <1>1, <2>2 DEF EvidenceFollowed, Started
<1>5. CASE \E e \in Existing : ActivateEvidence(e)
  <2>1. PICK e \in Existing : ActivateEvidence(e)
    BY <1>5
  <2>2. /\ dealCommitted' = [dealCommitted EXCEPT ![e] = evidenceCovered[e]]
        /\ \E end : serviceEnd' = [serviceEnd EXCEPT ![e] = end]
        /\ UNCHANGED <<evidenceCovered, activeCovered>>
    BY <2>1 DEF ActivateEvidence, StartPreparedPayment, evidenceVars
  <2> QED
    BY <1>1, <2>2 DEF EvidenceFollowed, Started
<1>6. \A e \in Existing : DealStep(e) =>
        \/ SubmitEvidence(e) \/ RefreshEvidenceStatus(e) \/ ActivateEvidence(e)
        \/ UNCHANGED <<evidenceCovered, activeCovered, serviceEnd, dealCommitted>>
  BY DEF DealStep, CreateValidator, CreateRail, CreateForeignRail, RejectAcceptedDeal, TerminateDeal,
         FinalizeDeal, UpdateManifestLocation, SetMinEpochsBetweenSettlements,
         evidenceVars, marketVars, dealVars, serviceVars
<1>7. ASSUME ~\E e \in Existing : DealStep(e)
      PROVE  UNCHANGED <<evidenceCovered, activeCovered, serviceEnd, dealCommitted>>
  BY <1>7 DEF Next, Tick, ManageRegistry, ProposeDeal, ProposeDealWithSpecificOffer, CreateDeal, SetSLI,
              SettleRail, vars, contractVars, evidenceVars, marketVars, dealVars, serviceVars
<1> QED
  BY <1>2, <1>3, <1>4, <1>5, <1>6, <1>7

\* Who is paid for a deal: only its own rail, for a span that ends within the
\* grace period of the snapshot, and only while the snapshot is positive.
LEMMA PaidSteps ==
  ASSUME SettlementInv, SettlementInv', NEW d \in Deals, [Next]_vars, PaidOver(d)' # PaidOver(d)
  PROVE  /\ d \in Existing /\ Started(d)
         /\ activeCovered[d] = dealCommitted[d]
         /\ PaidOver(d)' <= DueAmount(d, refreshedAt[d] + EVIDENCE_REFRESH_GRACE_EPOCHS)
<1>1. \E r \in 1 .. railCount, to \in 1 .. now : SettleRail(r, to)
  <2>1. ~\E e \in Existing : CreateRail(e)
    BY CreateRailAgreement DEF Agreement!agreementVars, Agreement!money
  <2>2. \A e \in Existing : DealStep(e) => UNCHANGED <<railId, railPaid>>
    BY <2>1 DEF DealStep, CreateValidator, DeployValidator, CreateForeignRail, CreatePayRail, SubmitEvidence,
           ActivateEvidence, StartPreparedPayment, ModifyRailPayment, ModifyPayRail,
           RefreshEvidenceStatus, RejectAcceptedDeal, TerminateDeal, FinalizeDeal,
           EarlyRailTermination, FinalizeRail, TerminateRailFrom, TerminatePayRail,
           UpdateManifestLocation, SetMinEpochsBetweenSettlements, validatorVars, railVars
  <2>3. ~UNCHANGED <<railId, railPaid>>
    BY PaidOverOwnRail, PaidOverOwnRailNext DEF OwnPaid
  <2> QED
    BY <2>2, <2>3 DEF Next, Tick, ManageRegistry, ProposeDeal, ProposeDealWithSpecificOffer, CreateDeal, SetSLI,
              vars, contractVars, validatorVars, railVars
<1>2. PICK r \in 1 .. railCount, to \in 1 .. now : SettleRail(r, to)
  BY <1>1
<1>3. PICK e \in Deals : e = railDeal[r]
  BY <1>2, Decision DEF SettleRail
<1> DEFINE from == railCursor[r]
           upto == SettleUpto(e, from, to)
           amount == SettlementAmount(e, from, to)
<1>4. /\ e \in Existing /\ r \in Rails /\ Started(e) /\ from \in Nat /\ to \in Nat /\ from < to
      /\ railPaid[r] + amount <= DueAmount(e, EffectiveTo(e, upto))
  <2>1. to \in Nat
    BY DEF SettlementInv, DealInv, TypeInv, TypeOK
  <2> QED
    BY <1>2, <1>3, <2>1, Decision DEF SettleRail, CanSettle
<1>5. /\ railId[e] = r /\ railPaid' = [railPaid EXCEPT ![r] = @ + amount] /\ railId' = railId
  BY <1>2, <1>3 DEF SettleRail, IsRailIdValid, AdvancePayRail, validatorVars
<1>6. railPaid \in [Rails -> Int]
  BY <1>4, RailTypes
<1> HIDE DEF amount, upto
<1>7. e = d
  <2>1. e # d /\ railId[d] # 0 => railId[d] # r /\ railId[d] \in Rails
    BY <1>5, OtherRails
  <2> QED
    BY <1>5, <1>6, <2>1, PaidOverOwnRail, PaidOverOwnRailNext DEF OwnPaid
<1>8. PaidOver(d)' = railPaid[r] + amount /\ amount # 0
  <2>1. r # 0
    BY <1>4, <1>5, AgreementFields
  <2> QED
    BY <1>4, <1>5, <1>6, <1>7, <2>1, PaidOverOwnRail, PaidOverOwnRailNext DEF OwnPaid
<1>9. SettlementPays(d, from, to) /\ upto = to
  BY <1>7, <1>8 DEF amount, upto, SettlementAmount, SettleUpto
<1>10. /\ activeCovered[d] = dealCommitted[d]
       /\ ~(refreshedAt[d] + EVIDENCE_REFRESH_GRACE_EPOCHS < EffectiveTo(d, to))
  BY <1>9 DEF SettlementPays, EvidenceStale
<1>11. DueAmount(d, EffectiveTo(d, to)) <= DueAmount(d, refreshedAt[d] + EVIDENCE_REFRESH_GRACE_EPOCHS)
  <2>1. TypeInv /\ refreshedAt[d] + EVIDENCE_REFRESH_GRACE_EPOCHS \in Nat
    BY MarketAssumption DEF SettlementInv, DealInv, TypeInv, TypeOK, EvidenceTypeOK
  <2>2. EffectiveTo(d, to) \in Nat
    BY <1>4, <2>1, EffectiveType
  <2> QED
    BY <1>4, <1>7, <1>10, <2>1, <2>2, DueBounds
<1>12. /\ DueAmount(d, EffectiveTo(d, to)) \in Int /\ PaidOver(d)' \in Int
       /\ DueAmount(d, refreshedAt[d] + EVIDENCE_REFRESH_GRACE_EPOCHS) \in Int
  <2>1. TypeInv /\ refreshedAt[d] + EVIDENCE_REFRESH_GRACE_EPOCHS \in Nat
    BY MarketAssumption DEF SettlementInv, DealInv, TypeInv, TypeOK, EvidenceTypeOK
  <2>2. EffectiveTo(d, to) \in Nat
    BY <1>4, <2>1, EffectiveType
  <2>3. DueAmount(d, EffectiveTo(d, to)) \in Nat
    BY <1>4, <1>7, <2>1, <2>2, DueBounds
  <2>4. DueAmount(d, refreshedAt[d] + EVIDENCE_REFRESH_GRACE_EPOCHS) \in Nat
    BY <1>4, <1>7, <2>1, DueBounds
  <2>5. PaidOver(d)' \in Int
    <3>1. railPaid' \in [Rails -> Int] /\ \A c \in Deals : railId'[c] # 0 => railId'[c] \in Rails
      BY DEF SettlementInv, DealInv, TypeInv, TypeOK, ValidatorTypeOK, Rails
    <3> QED
      BY <3>1, PaidOverOwnRailNext DEF OwnPaid
  <2> QED
    BY <2>3, <2>4, <2>5
<1> QED
  BY <1>4, <1>7, <1>8, <1>9, <1>10, <1>11, <1>12

\* The window of service, and so what any span of it is worth, is fixed once.
LEMMA DueFixed ==
  ASSUME SettlementInv, SettlementInv', NEW d \in Deals, [Next]_vars
  PROVE  /\ Started(d) => /\ Started(d)'
                          /\ \A epoch \in Nat : DueAmount(d, epoch)' = DueAmount(d, epoch)
         /\ ~Started(d) /\ Started(d)' => PaidOver(d)' = 0
<1>1. [Agreement(d)!Next]_(Agreement(d)!agreementVars)
  BY AgreementStep
<1>2. Consistent(d) /\ (~Started(d) => PaidOver(d) = 0)
  BY AgreementFields
<1>3. CASE Agreement(d)!Activate
  BY <1>2, <1>3 DEF Agreement!Activate, Consistent
<1>4. CASE UNCHANGED Agreement(d)!window
  <2>1. /\ serviceStart'[d] = serviceStart[d] /\ serviceEnd'[d] = serviceEnd[d]
        /\ MonthlyAmount(d)' = MonthlyAmount(d)
    BY <1>4 DEF Agreement!window
  <2>2. Started(d)' = Started(d)
    BY <2>1 DEF Started
  <2>3. ASSUME Started(d), NEW epoch \in Nat PROVE DueAmount(d, epoch)' = DueAmount(d, epoch)
    BY <2>1, <2>2, <2>3 DEF DueAmount, MonthlyAmount
  <2> QED
    BY <2>2, <2>3
<1> QED
  BY <1>1, <1>3, <1>4 DEF Agreement!Next, Agreement!Tick, Agreement!Accept, Agreement!Reject,
     Agreement!Terminate, Agreement!Finalize, Agreement!Settle, Agreement!agreementVars, Agreement!window

LEMMA DueNow ==
  ASSUME SettlementInv, NEW d \in Deals, Started(d), NEW epoch \in Nat
  PROVE  /\ d \in Existing
         /\ DueAmount(d, epoch) \in Nat
         /\ PaidOver(d) \in Int
         /\ now <= epoch => PaidOver(d) <= DueAmount(d, epoch)
<1>1. /\ d \in Existing /\ TypeInv /\ now \in Nat
      /\ railId[d] \in Rails /\ railId[d] # 0 /\ RailSettled(d) /\ RailBounded(railId[d])
      /\ railCursor \in [Rails -> Nat] /\ railPaid \in [Rails -> Int]
  <2>1. railId[d] \in Rails /\ railId[d] # 0
    BY AgreementFields
  <2>2. d \in Existing
    BY <2>1 DEF SettlementInv, DealInv, DealRailConsistent, Consistent, DealsCounted
  <2> QED
    BY <2>1, <2>2 DEF SettlementInv, DealInv, TypeInv, TypeOK, ValidatorTypeOK
<1> DEFINE upto == EffectiveTo(d, railCursor[railId[d]])
<1>2. railCursor[railId[d]] \in Nat /\ railCursor[railId[d]] <= now
  BY <1>1 DEF RailBounded
<1>3. upto \in Nat /\ upto <= railCursor[railId[d]]
  BY <1>1, <1>2, EffectiveType
<1>4. PaidOver(d) = railPaid[railId[d]] /\ railPaid[railId[d]] <= DueAmount(d, upto)
  BY <1>1, PaidOverOwnRail DEF OwnPaid, RailSettled
<1>5. DueAmount(d, epoch) \in Nat /\ DueAmount(d, upto) \in Nat
  BY <1>1, <1>3, DueBounds
<1>6. upto <= epoch => DueAmount(d, upto) <= DueAmount(d, epoch)
  BY <1>1, <1>3, DueBounds
<1> HIDE DEF upto
<1> QED
  BY <1>1, <1>2, <1>3, <1>4, <1>5, <1>6

LEMMA DueNext ==
  SettlementInv' => \A d \in Deals, epoch \in Nat : Started(d)' =>
    /\ DueAmount(d, epoch)' \in Nat /\ PaidOver(d)' \in Int
    /\ now' <= epoch => PaidOver(d)' <= DueAmount(d, epoch)'
<1>1. SettlementInv => \A d \in Deals, epoch \in Nat : Started(d) =>
        /\ DueAmount(d, epoch) \in Nat /\ PaidOver(d) \in Int
        /\ now <= epoch => PaidOver(d) <= DueAmount(d, epoch)
  BY DueNow
<1>2. (SettlementInv => \A d \in Deals, epoch \in Nat : Started(d) =>
        /\ DueAmount(d, epoch) \in Nat /\ PaidOver(d) \in Int
        /\ now <= epoch => PaidOver(d) <= DueAmount(d, epoch))'
  BY <1>1, PTL
<1> QED
  BY <1>2

LEMMA SnapshotSteps ==
  ASSUME SettlementInv, NEW d \in Deals, EvidenceFollowed(d), SnapshotHonest(d),
         lostAt[d] \in Nat, [Adapter(d)!Next]_(Adapter(d)!snapshotVars)
  PROVE  /\ SnapshotHonest(d)'
         /\ \/ lostAt'[d] = lostAt[d]
            \/ lostAt'[d] = now /\ now' = now
            \/ ~Started(d) /\ UNCHANGED now
<1>1. now \in Nat /\ refreshedAt[d] \in Nat /\ Consistent(d)
  BY DEF SettlementInv, DealInv, TypeInv, TypeOK, EvidenceTypeOK, DealRailConsistent
<1>2. CASE UNCHANGED Adapter(d)!snapshotVars
  BY <1>2 DEF Adapter!snapshotVars, SnapshotHonest
<1>3. CASE Adapter(d)!Tick
  BY <1>1, <1>3 DEF Adapter!Tick, SnapshotHonest
<1>4. CASE Adapter(d)!Complete
  <2>1. evidenceCovered[d] = 0
    BY <1>4 DEF Adapter!Complete
  <2>2. SnapshotResult(d) # "ACTIVE" /\ ~Started(d)
    BY <1>1, <2>1 DEF EvidenceFollowed, SnapshotResult, Consistent
  <2> QED
    BY <1>4, <2>2 DEF Adapter!Complete, SnapshotHonest
<1>5. CASE Adapter(d)!Lose
  BY <1>1, <1>5, LagAssumption DEF Adapter!Lose, SnapshotHonest
<1>6. CASE Adapter(d)!Publish
  BY <1>1, <1>6 DEF Adapter!Publish, Adapter!StoredAt, SnapshotHonest
<1> QED
  BY <1>2, <1>3, <1>4, <1>5, <1>6 DEF Adapter!Next

LEMMA PaidUntilLostStep ==
  ASSUME SettlementInv, SettlementInv', NEW d \in Deals, [Next]_vars,
         EvidenceFollowed(d), SnapshotHonest(d), PaidUntilLost(d),
         lostAt[d] \in Nat, lostAt'[d] \in Nat,
         \/ lostAt'[d] = lostAt[d]
         \/ lostAt'[d] = now /\ now' = now
         \/ ~Started(d) /\ UNCHANGED now
  PROVE  PaidUntilLost(d)'
<1> DEFINE grace == Lag + EVIDENCE_REFRESH_GRACE_EPOCHS
<1>1. grace \in Nat /\ Lag \in Nat /\ EVIDENCE_REFRESH_GRACE_EPOCHS \in Nat
  BY LagAssumption, MarketAssumption
<1>2. PICK lost \in Nat : lost = lostAt'[d]
  OBVIOUS
<1>3. PICK limit \in Nat : limit = lost + Lag + EVIDENCE_REFRESH_GRACE_EPOCHS
  BY <1>1
<1> SUFFICES ASSUME Started(d)', lost # 0
             PROVE  PaidOver(d)' <= DueAmount(d, limit)'
  BY <1>2, <1>3 DEF PaidUntilLost, DueAmount
<1>4. DueAmount(d, limit)' \in Nat /\ PaidOver(d)' \in Int
      /\ (now' <= limit => PaidOver(d)' <= DueAmount(d, limit)')
  BY DueNext
<1>5. CASE ~Started(d)
  BY <1>4, <1>5, DueFixed
<1>6. CASE Started(d) /\ lost = now /\ now' = now
  BY <1>1, <1>3, <1>4, <1>6
<1>7. CASE Started(d) /\ lost = lostAt[d]
  <2>1. DueAmount(d, limit)' = DueAmount(d, limit)
    BY <1>7, DueFixed
  <2>2. CASE PaidOver(d)' = PaidOver(d)
    BY <1>2, <1>3, <1>7, <2>1, <2>2 DEF PaidUntilLost
  <2>3. CASE PaidOver(d)' # PaidOver(d)
    <3> DEFINE dated == refreshedAt[d] + EVIDENCE_REFRESH_GRACE_EPOCHS
    <3>1. /\ d \in Existing /\ activeCovered[d] = dealCommitted[d]
          /\ PaidOver(d)' <= DueAmount(d, dated)
      BY <2>3, PaidSteps
    <3>2. SnapshotResult(d) = "ACTIVE"
      <4>1. dealCommitted[d] # 0
        BY <1>7 DEF SettlementInv, DealInv, DealRailConsistent, Consistent
      <4> QED
        BY <1>7, <3>1, <4>1 DEF SnapshotResult, EvidenceFollowed
    <3>3. refreshedAt[d] \in Nat /\ TypeInv
      BY DEF SettlementInv, DealInv, TypeInv, TypeOK, EvidenceTypeOK
    <3>4. dated \in Nat /\ dated <= limit
      BY <1>1, <1>3, <1>7, <3>2, <3>3 DEF SnapshotHonest
    <3>5. DueAmount(d, dated) <= DueAmount(d, limit) /\ DueAmount(d, dated) \in Nat /\ DueAmount(d, limit) \in Nat
      BY <3>1, <3>3, <3>4, DueBounds
    <3> HIDE DEF dated
    <3> QED
      BY <1>4, <2>1, <3>1, <3>5
  <2> QED
    BY <2>2, <2>3
<1> QED
  BY <1>2, <1>5, <1>6, <1>7

LEMMA StoredInvStep ==
  StoredInv /\ [[Next]_vars /\ AdaptersStep]_storedVars => StoredInv'
<1> SUFFICES ASSUME StoredInv, [[Next]_vars /\ AdaptersStep]_storedVars
             PROVE  StoredInv'
  OBVIOUS
<1>1. [Next]_vars
  BY DEF storedVars
<1>2. SettlementInv /\ SettlementInv'
  BY <1>1, SettlementInvStep DEF StoredInv
<1>3. CASE AdaptersStep
  <2>1. lostAt' \in [Deals -> Nat]
    <3>1. 0 .. now \subseteq Nat
      BY <1>2 DEF SettlementInv, DealInv, TypeInv, TypeOK
    <3> QED
      BY <1>3, <3>1 DEF AdaptersStep
  <2>2. ASSUME NEW d \in Deals
        PROVE  EvidenceFollowed(d)' /\ SnapshotHonest(d)' /\ PaidUntilLost(d)'
    <3>1. /\ EvidenceFollowed(d) /\ SnapshotHonest(d) /\ PaidUntilLost(d)
          /\ lostAt[d] \in Nat /\ lostAt'[d] \in Nat
      BY <2>1 DEF StoredInv
    <3>2. [Adapter(d)!Next]_(Adapter(d)!snapshotVars)
      BY <1>3 DEF AdaptersStep
    <3>3. EvidenceFollowed(d)'
      BY <1>1, <1>2, <3>1, EvidenceSteps
    <3> QED
      BY <1>1, <1>2, <3>1, <3>2, <3>3, SnapshotSteps, PaidUntilLostStep
  <2> QED
    BY <1>2, <2>1, <2>2 DEF StoredInv, Deals
<1>4. CASE UNCHANGED storedVars
  <2>1. lostAt' = lostAt /\ UNCHANGED vars
    BY <1>4 DEF storedVars
  <2>2. ASSUME NEW d \in Deals
        PROVE  EvidenceFollowed(d)' /\ SnapshotHonest(d)' /\ PaidUntilLost(d)'
    <3>1. EvidenceFollowed(d) /\ SnapshotHonest(d) /\ PaidUntilLost(d) /\ lostAt[d] \in Nat
      BY DEF StoredInv
    <3>2. EvidenceFollowed(d)'
      BY <1>1, <1>2, <3>1, EvidenceSteps
    <3>3. SnapshotHonest(d)'
      BY <2>1, <3>1 DEF SnapshotHonest, SnapshotResult, vars, contractVars, evidenceVars
    <3> QED
      BY <1>1, <1>2, <2>1, <3>1, <3>2, <3>3, PaidUntilLostStep
  <2> QED
    BY <1>2, <2>1, <2>2 DEF StoredInv, Deals
<1> QED
  BY <1>3, <1>4

LEMMA InitStoredInv == StoredInit => StoredInv
<1> SUFFICES ASSUME StoredInit PROVE StoredInv
  OBVIOUS
<1>1. SettlementInv
  BY InitSettlementInv DEF StoredInit
<1>2. \A d \in Deals : EvidenceFollowed(d) /\ SnapshotHonest(d) /\ PaidUntilLost(d)
  BY DEF StoredInit, Init, EvidenceFollowed, SnapshotHonest, SnapshotResult, PaidUntilLost, Started
<1> QED
  BY <1>1, <1>2 DEF StoredInv, StoredInit

\* With adapters that keep their promise, a provider that lost part of a deal
\* is never paid, over all rails, more than the service is worth up to the
\* grace period after the loss, and the lag of the adapter: for any number of
\* deals and rails, any durations, prices, grace and lag, and any order of
\* losses, refreshes, settlements, terminations and closures.
THEOREM PaidOnlyWhileStored == StoredSpec => []PaidWhileStored
<1>1. StoredInv => PaidWhileStored
  BY DEF StoredInv, PaidUntilLost, PaidWhileStored
<1> QED
  BY <1>1, InitStoredInv, StoredInvStep, PTL DEF StoredSpec

=============================================================================
