----------------------------- MODULE SalesProofs ----------------------------
(* Proofs about Sales for any prices, baskets, settings, calendar and calls. *)
EXTENDS Sales, Sums, TLAPS

-----------------------------------------------------------------------------
(* The catalogue *)

\* CVS-008: whatever is asked, every product gets some modules of the catalogue,
\* its required ones among them.
LEMMA NormalizedModules ==
  ASSUME NEW b \in Baskets
  PROVE  /\ Normalized(b.product, b.asked) \subseteq Modules
         /\ Required[b.product] \subseteq Normalized(b.product, b.asked)
<1>1. b.product \in Products /\ b.asked \subseteq Modules
  BY SalesAssumption
<1>2. /\ Required[b.product] \subseteq Modules
      /\ Preselected[b.product] \subseteq Modules
  BY <1>1 DEF Products, Required, Preselected, Modules
<1> QED BY <1>1, <1>2 DEF Normalized

\* The catalogue is finite.
LEMMA ModulesFinite == IsFiniteSet(Modules)
<1>1. \A x : IsFiniteSet({x})
  BY FS_Singleton
<1>2. \A S, x : IsFiniteSet(S) => IsFiniteSet(S \cup {x})
  BY FS_AddElement
<1>3. Modules = {"escavador"} \cup {"targetdata"} \cup {"ia_deepseek"}
                  \cup {"serasa_procon"} \cup {"analise_contratual_ia"}
                  \cup {"revisao_humana"} \cup {"reuniao_equipe"}
  BY DEF Modules
<1> QED BY <1>1, <1>2, <1>3

\* The total of a basket is what its modules cost, whether the product forces them,
\* preselects them or the client adds them, and it is not negative.
LEMMA TotalIsPrice ==
  ASSUME NEW b \in Baskets, NEW prices,
         \A m \in DOMAIN prices : prices[m] \in Nat
  PROVE  LET selected == Normalized(b.product, b.asked)
             total == Total(b.product, selected, prices)
         IN total \in Nat /\ total = PriceOf(selected, prices)
<1> DEFINE all == [m \in Modules |-> Price(m, prices)]
           selected == Normalized(b.product, b.asked)
           required == Required[b.product]
<1>1. \A m \in Modules : all[m] \in Nat
  <2>1. \A m \in Modules : ListPrice[m] \in Nat
    BY DEF Modules, ListPrice
  <2> QED BY <2>1 DEF Price
<1>2. ASSUME NEW S \in SUBSET Modules
      PROVE  /\ PriceOf(S, prices) = SumFunctionOnSet(all, S)
             /\ PriceOf(S, prices) \in Nat /\ IsFiniteSet(S)
  <2> DEFINE f == [m \in S |-> Price(m, prices)]
  <2>1. IsFiniteSet(S)
    BY ModulesFinite, FS_Subset
  <2>2. \A m \in S : f[m] = all[m]
    OBVIOUS
  <2>3. PriceOf(S, prices) = SumFunctionOnSet(f, S)
    BY DEF PriceOf, SumFunction
  <2> HIDE DEF f, all
  <2>4. SumFunctionOnSet(f, S) = SumFunctionOnSet(all, S)
    BY <2>1, <2>2, SumSame
  <2> QED BY <1>1, <2>1, <2>3, <2>4, SumNat
<1>3. selected \subseteq Modules /\ required \subseteq selected
  BY NormalizedModules
<1> HIDE DEF all, selected, required
<1>4. CASE b.product = MeetingProduct
  <2>1. Total(b.product, selected, prices) = 0 + PriceOf(selected, prices)
    BY <1>4 DEF Total, BasePrice, Extras
  <2> QED BY <1>2, <1>3, <2>1 DEF selected
<1>5. CASE b.product # MeetingProduct
  <2> DEFINE extra == selected \ required
  <2>1. Total(b.product, selected, prices)
          = PriceOf(required, prices) + PriceOf(extra, prices)
    BY <1>5 DEF Total, BasePrice, Extras, required
  <2>2. /\ extra \subseteq Modules /\ required \subseteq Modules
        /\ selected = required \cup extra /\ required \cap extra = {}
    BY <1>3
  <2> HIDE DEF extra
  <2>3. SumFunctionOnSet(all, required \cup extra)
          = SumFunctionOnSet(all, required) + SumFunctionOnSet(all, extra)
    BY <1>1, <1>2, <2>2, SumUnion
  <2> QED BY <1>2, <1>3, <2>1, <2>2, <2>3 DEF selected
<1> QED BY <1>4, <1>5

-----------------------------------------------------------------------------
(* Payment options *)

\* An organization without configuration can charge.
LEMMA DefaultChargeable == Chargeable(Default)
<1>1. DOMAIN Default.methods = {}
  BY DEF Default
<1>2. Default.methods \in [{} -> MethodRule]
  BY DEF Default
<1>3. InstallmentConfig(Default)
  BY <1>1, <1>2 DEF InstallmentConfig, Default
<1>4. Valid(Default)
  BY <1>1 DEF Valid, CardOnly, Default
<1> QED BY <1>1, <1>3, <1>4 DEF Chargeable, SomeMethod

\* A configuration that passed the validators and P-1 pays any total at once,
\* and offers no installments but on a card.
LEMMA ChargeableOptions ==
  ASSUME NEW cfg, Chargeable(cfg), NEW total
  PROVE  /\ Offered(total, cfg) \subseteq 1..24
         /\ 1 \in Offered(total, cfg)
         /\ MethodsFor(1, cfg) # {}
         /\ \A n \in Nat \ {0, 1} : MethodsFor(n, cfg) \subseteq {"cartao"}
<1>1. cfg.max \in 1..24
  BY DEF Chargeable, InstallmentConfig
<1>2. Offered(total, cfg) \subseteq 1..24 /\ 1 \in Offered(total, cfg)
  BY <1>1 DEF Offered, MaxInstallments
<1>3. CASE DOMAIN cfg.methods = {}
  <2>1. EffectiveMethods(cfg)
          = [m \in Methods |-> [enabled |-> TRUE,
               max |-> IF m \in InstallmentMethods THEN cfg.max ELSE 1]]
    BY <1>3 DEF EffectiveMethods
  <2>2. MethodsFor(1, cfg) # {}
    BY <1>1, <2>1 DEF MethodsFor, Methods, InstallmentMethods
  <2>3. \A n \in Nat \ {0, 1} : MethodsFor(n, cfg) \subseteq {"cartao"}
    BY <2>1 DEF MethodsFor, InstallmentMethods
  <2> QED BY <1>2, <2>2, <2>3
<1>4. CASE DOMAIN cfg.methods # {}
  <2>1. EffectiveMethods(cfg) = cfg.methods
    BY <1>4 DEF EffectiveMethods
  <2>2. \A m \in DOMAIN cfg.methods : cfg.methods[m].max \in 1..24
    BY DEF Chargeable, InstallmentConfig, MethodRule
  <2>3. PICK m \in DOMAIN cfg.methods : cfg.methods[m].enabled
    BY <1>4 DEF Chargeable, SomeMethod
  <2>4. m \in MethodsFor(1, cfg)
    BY <2>1, <2>2, <2>3 DEF MethodsFor
  <2>5. \A k \in DOMAIN cfg.methods \ {"cartao"} : cfg.methods[k].max = 1
    BY DEF Chargeable, Valid, CardOnly, InstallmentMethods
  <2>6. \A n \in Nat \ {0, 1} : MethodsFor(n, cfg) \subseteq {"cartao"}
    BY <2>1, <2>5 DEF MethodsFor
  <2> QED BY <1>2, <2>4, <2>6
<1> QED BY <1>3, <1>4

\* Every option has one amount and one due date per installment.
LEMMA OptionShape ==
  ASSUME NEW total, NEW n \in Nat, NEW cfg, NEW day
  PROVE  LET o == Option(total, n, cfg, day)
         IN /\ o.parcelas = n /\ o.methods = MethodsFor(n, cfg)
            /\ DOMAIN o.amounts = 1..n /\ DOMAIN o.due = 1..n
<1>1. DOMAIN Amounts(total, n, cfg) = 1..n
  BY DEF Amounts, PriceAmounts, EqualAmounts
<1>2. DOMAIN DueDates(day, n, cfg) = 1..n
  BY DEF DueDates
<1> QED BY <1>1, <1>2 DEF Option

-----------------------------------------------------------------------------
(* Due dates *)

\* The months are numbered from one and none is longer than 31 days.
LEMMA CalendarMonths ==
  /\ IsFiniteSet(Months) /\ Months \subseteq Nat \ {0}
  /\ \A m \in Months : MonthDays[m] \in 28..31 /\ 1..m \subseteq Months
<1>1. /\ IsFiniteSet(Months) /\ Months = 1..Cardinality(Months)
      /\ \A m \in Months : MonthDays[m] \in 28..31
  BY InstallmentsAssumption DEF Months
<1>2. Cardinality(Months) \in Nat
  BY <1>1, FS_CardinalityType
<1> QED BY <1>1, <1>2

\* The months before a date are counted one after the other.
LEMMA DaysCounted ==
  /\ \A m \in Months : DaysBefore(m) \in Nat
  /\ 1 \in Months => DaysBefore(1) = 0
  /\ \A m \in Months : m - 1 \in Months => DaysBefore(m) = DaysBefore(m - 1) + MonthDays[m - 1]
  /\ \A j, m \in Months : j < m => DaysBefore(j) + MonthDays[j] <= DaysBefore(m)
<1> DEFINE Before(m) == {k \in Months : k < m}
<1>0. \A k \in Months : k \in Nat /\ ~(k < 1)
  BY CalendarMonths
<1>1. ASSUME NEW m
      PROVE  /\ IsFiniteSet(Before(m))
             /\ \A k \in Before(m) : MonthDays[k] \in Nat
  BY CalendarMonths, FS_Subset
<1>2. ASSUME NEW m \in Months PROVE DaysBefore(m) \in Nat
  <2> HIDE DEF Before
  <2>1. SumFunctionOnSet(MonthDays, Before(m)) \in Nat
    BY <1>1, SumNat
  <2> QED BY <2>1 DEF DaysBefore, Before
<1>3. 1 \in Months => DaysBefore(1) = 0
  <2>1. Before(1) = {}
    BY <1>0
  <2> QED BY <2>1, SumEmpty DEF DaysBefore
<1>4. ASSUME NEW j \in Months
      PROVE  SumFunctionOnSet(MonthDays, Before(j) \cup {j}) = DaysBefore(j) + MonthDays[j]
  <2>1. j \notin Before(j) /\ MonthDays[j] \in Nat
    BY CalendarMonths
  <2>2. DaysBefore(j) = SumFunctionOnSet(MonthDays, Before(j))
    BY DEF DaysBefore
  <2> HIDE DEF Before
  <2>3. \A k \in Before(j) \cup {j} : MonthDays[k] \in Int
    BY <1>1, <2>1
  <2>4. SumFunctionOnSet(MonthDays, Before(j) \cup {j})
          = MonthDays[j] + SumFunctionOnSet(MonthDays, Before(j))
    BY <1>1, <2>1, <2>3, SumAdd
  <2> QED BY <1>2, <2>1, <2>2, <2>4
<1>5. ASSUME NEW m \in Months, m - 1 \in Months
      PROVE  DaysBefore(m) = DaysBefore(m - 1) + MonthDays[m - 1]
  <2>0. \A k \in Months : k < m <=> k < m - 1 \/ k = m - 1
    BY <1>0
  <2>1. Before(m) = Before(m - 1) \cup {m - 1}
    BY <1>5, <2>0
  <2>2. DaysBefore(m) = SumFunctionOnSet(MonthDays, Before(m))
    BY DEF DaysBefore
  <2> HIDE DEF Before
  <2> QED BY <1>4, <1>5, <2>1, <2>2
<1>6. ASSUME NEW j \in Months, NEW m \in Months, j < m
      PROVE  DaysBefore(j) + MonthDays[j] <= DaysBefore(m)
  <2>0. \A k \in Months : k < j => k < m
    BY <1>0, <1>6
  <2>1. Before(j) \cup {j} \subseteq Before(m)
    BY <1>6, <2>0
  <2>2. DaysBefore(m) = SumFunctionOnSet(MonthDays, Before(m))
    BY DEF DaysBefore
  <2> HIDE DEF Before
  <2>3. SumFunctionOnSet(MonthDays, Before(j) \cup {j})
          <= SumFunctionOnSet(MonthDays, Before(m))
    BY <1>1, <2>1, SumGrows
  <2> QED BY <1>4, <2>2, <2>3
<1> QED BY <1>2, <1>3, <1>5, <1>6

\* A date some days later is a date of the calendar, if the calendar reaches it.
LEMMA DaysLater ==
  ASSUME NEW x \in Dates, NEW days \in Nat, NEW end \in Months,
         DaysBefore(x.m) + x.d + days <= DaysBefore(end) + MonthDays[end]
  PROVE  /\ PlusDays(x, days) \in Dates
         /\ PlusDays(x, days).m <= end
<1> DEFINE n == DaysBefore(x.m) + x.d + days
           In(m) == n - DaysBefore(m) \in 1..MonthDays[m]
           Late == {m \in Months : n <= DaysBefore(m) + MonthDays[m]}
           month == CHOOSE m \in Months : In(m)
<1>1. n \in Nat \ {0}
  <2>1. x.m \in Months /\ x.d \in 1..31
    BY DEF Dates
  <2> QED BY <2>1, DaysCounted
<1>2. PICK j \in Late : \A m \in Late : j <= m
  <2>1. end \in Late /\ Late \in SUBSET Nat
    BY CalendarMonths
  <2> HIDE DEF Late, n
  <2> QED BY <2>1, SmallestNumber
<1> HIDE DEF n
<1>3. In(j)
  <2>0. DaysBefore(j) \in Nat /\ MonthDays[j] \in Nat /\ j \in Nat \ {0}
    BY DaysCounted, CalendarMonths
  <2>1. CASE j = 1
    BY <1>1, <1>2, <2>0, <2>1, DaysCounted
  <2>2. CASE j # 1
    <3>1. j - 1 \in Months /\ ~(j <= j - 1)
      BY <2>0, <2>2, CalendarMonths
    <3>2. DaysBefore(j - 1) \in Nat /\ MonthDays[j - 1] \in Nat
      BY <3>1, DaysCounted, CalendarMonths
    <3>3. n > DaysBefore(j - 1) + MonthDays[j - 1]
      BY <1>1, <1>2, <3>1, <3>2
    <3> QED BY <1>1, <1>2, <2>0, <3>1, <3>2, <3>3, DaysCounted
  <2> QED BY <2>1, <2>2
<1>4. month \in Months /\ In(month)
  <2>1. \E m \in Months : In(m)
    BY <1>3
  <2> HIDE DEF In
  <2> QED BY <2>1
<1>5. PlusDays(x, days) = [m |-> month, d |-> n - DaysBefore(month)]
  BY DEF PlusDays, n
<1> HIDE DEF month
<1>6. DaysBefore(month) \in Nat /\ MonthDays[month] \in 28..31
  BY <1>4, DaysCounted, CalendarMonths
<1>7. PlusDays(x, days) \in Dates
  BY <1>4, <1>5, <1>6 DEF Dates
<1>8. month <= end
  <2> SUFFICES ASSUME end < month PROVE FALSE
    BY <1>4, CalendarMonths
  <2>1. DaysBefore(end) + MonthDays[end] <= DaysBefore(month)
    BY <1>4, DaysCounted
  <2>2. DaysBefore(end) \in Nat /\ MonthDays[end] \in Nat
    BY DaysCounted, CalendarMonths
  <2> QED BY <1>1, <1>4, <1>6, <2>1, <2>2 DEF n
<1> QED BY <1>5, <1>7, <1>8

\* Every month has the days up to the 28th, and a month later is a date.
LEMMA MonthsLater ==
  ASSUME NEW x \in Dates, NEW k \in Nat, x.m + k \in Months
  PROVE  /\ AddMonths(x, k) \in Dates /\ AddMonths(x, k).m = x.m + k
         /\ AddMonths(x, k).d <= x.d
         /\ x.d <= 28 => AddMonths(x, k).d = x.d
         /\ x.d > 28 => AddMonths(x, k).d >= 28
         /\ AddMonths(x, k).d # x.d => AddMonths(x, k).d = MonthDays[x.m + k]
<1>1. x.m \in Nat /\ x.d \in 1..31 /\ MonthDays[x.m + k] \in 28..31
  BY CalendarMonths DEF Dates
<1> QED BY <1>1 DEF AddMonths, Dates

\* The first installment is due within a month of the base date.
LEMMA FirstDueDate ==
  ASSUME NEW x \in Dates, NEW cfg, InstallmentConfig(cfg),
         PlusDays(x, cfg.first) \in Dates,
         PlusDays(x, cfg.first).m + 1 \in Months
  PROVE  LET base == PlusDays(x, cfg.first)
             due == FirstDue(x, cfg)
         IN /\ due \in Dates /\ NotAfter(base, due) /\ NotAfter(due, AddMonths(base, 1))
            /\ due.m <= base.m + 1
            /\ cfg.day # Unset => due.d = cfg.day /\ due.d <= 28
<1> DEFINE base == PlusDays(x, cfg.first)
           fixed == [base EXCEPT !.d = cfg.day]
           next == AddMonths(base, 1)
           after == [next EXCEPT !.d = cfg.day]
<1>1. base \in Dates /\ base.m + 1 \in Months
  OBVIOUS
<1>2. FirstDue(x, cfg) = IF cfg.day = Unset THEN base
                         ELSE IF NotAfter(base, fixed) THEN fixed ELSE after
  BY DEF FirstDue
<1> HIDE DEF base
<1>3. /\ base.m \in Months /\ base.m \in Nat /\ base.d \in 1..31
      /\ \A m \in Months : MonthDays[m] \in 28..31
  BY <1>1, CalendarMonths DEF Dates
<1>4. /\ next \in Dates /\ next.m = base.m + 1 /\ next.d \in Nat
      /\ base.d <= 28 => next.d = base.d
      /\ base.d > 28 => next.d >= 28
  BY <1>1, MonthsLater DEF Dates
<1> DEFINE due == FirstDue(x, cfg)
<1> SUFFICES /\ due \in Dates /\ NotAfter(base, due) /\ NotAfter(due, next)
             /\ due.m <= base.m + 1
             /\ cfg.day # Unset => due.d = cfg.day /\ due.d <= 28
  BY DEF base
<1>5. CASE cfg.day = Unset
  BY <1>1, <1>2, <1>3, <1>4, <1>5 DEF NotAfter
<1>6. CASE cfg.day # Unset
  <2>1. cfg.day \in 1..28
    BY <1>6 DEF InstallmentConfig
  <2>2. fixed \in Dates /\ fixed.m = base.m /\ fixed.d = cfg.day
    BY <1>1, <1>3, <2>1 DEF Dates
  <2>3. after \in Dates /\ after.m = base.m + 1 /\ after.d = cfg.day
    BY <1>3, <1>4, <2>1 DEF Dates
  <2> HIDE DEF fixed, next, after, due
  <2>4. CASE NotAfter(base, fixed)
    <3>1. due = fixed
      BY <1>2, <1>6, <2>4 DEF due
    <3> QED BY <1>3, <1>4, <2>1, <2>2, <2>4, <3>1 DEF NotAfter
  <2>5. CASE ~NotAfter(base, fixed)
    <3>1. due = after
      BY <1>2, <1>6, <2>5 DEF due
    <3>2. base.d > cfg.day
      BY <1>3, <2>1, <2>2, <2>5 DEF NotAfter
    <3> QED BY <1>3, <1>4, <2>1, <2>3, <3>1, <3>2 DEF NotAfter
  <2> QED BY <2>4, <2>5
<1> QED BY <1>5, <1>6

-----------------------------------------------------------------------------
(* Powers and rounding *)

\* Powers of a natural number
LEMMA PowerSteps ==
  ASSUME NEW x \in Nat
  PROVE  /\ Power(x, 0) = 1
         /\ \A k \in Nat : Power(x, k) \in Nat /\ Power(x, k + 1) = x * Power(x, k)
<1> DEFINE Powers(f) == f = [k \in Nat |-> IF k = 0 THEN 1 ELSE x * f[k - 1]]
           power == CHOOSE f : Powers(f)
<1>1. PICK g \in [Nat -> Nat] : g[0] = 1 /\ \A k \in Nat : g[k + 1] = x * g[k]
  <2> DEFINE step == [v \in Nat |-> x * v]
  <2>1. 1 \in Nat /\ step \in [Nat -> Nat]
    OBVIOUS
  <2> HIDE DEF step
  <2>2. PICK g \in [Nat -> Nat] : g[0] = 1 /\ \A k \in Nat : g[k + 1] = step[g[k]]
    <3>1. \E g : Iterates(g, Nat, 1, step)
      BY <2>1, Recursion
    <3> QED BY <3>1 DEF Iterates
  <2>3. \A k \in Nat : step[g[k]] = x * g[k]
    BY <2>2 DEF step
  <2> QED BY <2>2, <2>3
<1>2. Powers(g)
  <2> SUFFICES ASSUME NEW k \in Nat
               PROVE  g[k] = IF k = 0 THEN 1 ELSE x * g[k - 1]
    BY <1>1
  <2>1. CASE k # 0
    <3>1. k - 1 \in Nat /\ (k - 1) + 1 = k
      BY <2>1
    <3> QED BY <1>1, <2>1, <3>1
  <2> QED BY <1>1, <2>1
<1>3. Powers(power)
  <2> HIDE DEF Powers
  <2> QED BY <1>2
<1>4. \A n : Power(x, n) = power[n]
  BY DEF Power
<1> HIDE DEF power
<1> DEFINE Good == {k \in Nat : power[k] \in Nat}
<1>5. power[0] = 1 /\ \A k \in Nat : power[k + 1] = x * power[k]
  BY <1>3
<1>6. Nat \subseteq Good
  <2>1. 0 \in Good /\ \A k \in Nat : k \in Good => k + 1 \in Good
    BY <1>5
  <2> HIDE DEF Good
  <2> QED BY <2>1, NatInduces
<1> QED BY <1>4, <1>5, <1>6

\* A higher base grows faster.
LEMMA PowersApart ==
  ASSUME NEW x \in Nat \ {0}, NEW y \in Nat, x < y
  PROVE  \A k \in Nat : /\ Power(x, k) \in Nat \ {0} /\ Power(y, k) \in Nat \ {0}
                        /\ Power(x, k) <= Power(y, k)
                        /\ k > 0 => Power(x, k) < Power(y, k)
<1> DEFINE p(k) == Power(x, k)
           q(k) == Power(y, k)
           Apart(k) == p(k) \in Nat \ {0} /\ q(k) \in Nat \ {0} /\ p(k) <= q(k)
           Good == {k \in Nat : Apart(k) /\ (k > 0 => p(k) < q(k))}
<1>1. 0 \in Good
  <2>1. p(0) = 1 /\ q(0) = 1
    BY PowerSteps
  <2> HIDE DEF p, q
  <2> QED BY <2>1
<1>2. ASSUME NEW k \in Nat, k \in Good PROVE k + 1 \in Good
  <2>1. p(k + 1) = x * p(k) /\ q(k + 1) = y * q(k)
    BY PowerSteps
  <2>2. Apart(k)
    BY <1>2
  <2> HIDE DEF p, q
  <2>3. \A a, b \in Nat \ {0} : a <= b =>
           x * a \in Nat \ {0} /\ y * b \in Nat \ {0} /\ x * a < y * b
    OBVIOUS
  <2>4. p(k + 1) \in Nat \ {0} /\ q(k + 1) \in Nat \ {0} /\ p(k + 1) < q(k + 1)
    BY <2>1, <2>2, <2>3
  <2> QED BY <2>4
<1>3. Nat \subseteq Good
  <2> HIDE DEF Good
  <2> QED BY <1>1, <1>2, NatInduces
<1> QED BY <1>3

\* Rounding to the nearest is off by at most a half.
LEMMA HalfUpNear ==
  ASSUME NEW a \in Int, NEW b \in Nat \ {0}
  PROVE  /\ HalfUp(a, b) \in Int
         /\ -b <= 2 * (b * HalfUp(a, b) - a)
         /\ 2 * (b * HalfUp(a, b) - a) <= b
<1> DEFINE c == IF a >= 0 THEN a ELSE -a
           q == c \div b
           r == c % b
           u == IF 2 * r >= b THEN 1 ELSE 0
<1>1. c \in Nat
  OBVIOUS
<1>2. q \in Nat /\ r \in 0..(b - 1) /\ c = b * q + r
  <2> HIDE DEF c
  <2> QED BY <1>1
<1>3. HalfUp(a, b) = IF a >= 0 THEN q + u ELSE -(q + u)
  BY DEF HalfUp
<1> HIDE DEF q, r
<1>4. b * (q + u) = b * q + b * u /\ b * u = IF 2 * r >= b THEN b ELSE 0
  BY <1>2
<1>5. b * (-(q + u)) = -(b * (q + u))
  BY <1>2
<1>6. -b <= 2 * (b * (q + u) - c) /\ 2 * (b * (q + u) - c) <= b
  BY <1>2, <1>4
<1>7. q + u \in Int /\ b * (q + u) \in Int
  BY <1>2
<1>8. CASE a >= 0
  BY <1>3, <1>6, <1>7, <1>8
<1>9. CASE ~(a >= 0)
  <2>1. HalfUp(a, b) = -(q + u) /\ c = -a
    BY <1>3, <1>9
  <2> HIDE DEF u, c
  <2> QED BY <1>5, <1>6, <1>7, <2>1
<1> QED BY <1>8, <1>9

\* What is owed, one installment after the other
LEMMA BalanceSteps ==
  ASSUME NEW total \in Int, NEW n \in Nat \ {0}, NEW rate \in Nat,
         Payment(total, n, rate) \in Int
  PROVE  LET b == Balance(total, n, rate)
         IN /\ b \in [1..n -> Int] /\ b[1] = total
            /\ \A k \in 1..(n - 1) :
                 b[k + 1] = b[k] - (Payment(total, n, rate) - Interest(b[k], rate))
<1> DEFINE pmt == Payment(total, n, rate)
           Left(v) == v - (pmt - Interest(v, rate))
           Owed(f) == f = [k \in 1..n |-> IF k = 1 THEN total ELSE Left(f[k - 1])]
           owed == CHOOSE f : Owed(f)
<1>0. pmt \in Int /\ \A v \in Int : Interest(v, rate) \in Int
  BY InstallmentsAssumption, HalfUpNear DEF Interest
<1>a. Balance(total, n, rate) = owed
  BY DEF Balance
<1> HIDE DEF pmt
<1>1. PICK g \in [Nat -> Int] : g[0] = total /\ \A k \in Nat : g[k + 1] = Left(g[k])
  <2> DEFINE step == [v \in Int |-> Left(v)]
  <2>1. step \in [Int -> Int]
    BY <1>0
  <2> HIDE DEF step
  <2>2. PICK g \in [Nat -> Int] : g[0] = total /\ \A k \in Nat : g[k + 1] = step[g[k]]
    <3>1. \E g : Iterates(g, Int, total, step)
      BY <2>1, Recursion
    <3> QED BY <3>1 DEF Iterates
  <2>3. \A k \in Nat : step[g[k]] = Left(g[k])
    BY <2>2 DEF step
  <2> HIDE DEF Left
  <2> QED BY <2>2, <2>3
<1> HIDE DEF Left
<1>2. Owed([k \in 1..n |-> g[k - 1]])
  <2> DEFINE f == [k \in 1..n |-> g[k - 1]]
  <2> SUFFICES ASSUME NEW k \in 1..n
               PROVE  f[k] = IF k = 1 THEN total ELSE Left(f[k - 1])
    OBVIOUS
  <2>1. CASE k = 1
    BY <1>1, <2>1
  <2>2. CASE k # 1
    <3>1. k - 2 \in Nat /\ (k - 2) + 1 = k - 1 /\ (k - 1) - 1 = k - 2 /\ k - 1 \in 1..n
      BY <2>2
    <3> QED BY <1>1, <2>2, <3>1
  <2> QED BY <2>1, <2>2
<1>3. Owed(owed)
  <2> HIDE DEF Owed
  <2> QED BY <1>2
<1> HIDE DEF owed
<1>4. /\ DOMAIN owed = 1..n /\ owed[1] = total
      /\ owed = [k \in 1..n |-> owed[k]]
      /\ \A k \in 1..(n - 1) : owed[k + 1] = Left(owed[k])
  <2>1. owed = [k \in 1..n |-> IF k = 1 THEN total ELSE Left(owed[k - 1])]
    BY <1>3
  <2>2. ASSUME NEW k \in 1..(n - 1) PROVE owed[k + 1] = Left(owed[k])
    <3>1. k + 1 \in 1..n /\ k + 1 # 1 /\ (k + 1) - 1 = k
      OBVIOUS
    <3> HIDE DEF Owed
    <3> QED BY <2>1, <3>1
  <2>3. DOMAIN owed = 1..n /\ owed[1] = total
    BY <2>1
  <2>4. owed = [k \in 1..n |-> owed[k]]
    BY <2>1
  <2> QED BY <2>2, <2>3, <2>4
<1> DEFINE Good == {k \in Nat : k + 1 \in 1..n => owed[k + 1] \in Int}
<1>5. Nat \subseteq Good
  <2>1. 0 \in Good
    BY <1>4
  <2>2. ASSUME NEW k \in Nat, k \in Good PROVE k + 1 \in Good
    <3> SUFFICES ASSUME (k + 1) + 1 \in 1..n PROVE owed[(k + 1) + 1] \in Int
      OBVIOUS
    <3>1. k + 1 \in 1..(n - 1) /\ owed[k + 1] \in Int
      BY <2>2
    <3>2. Left(owed[k + 1]) \in Int
      BY <1>0, <3>1 DEF Left
    <3> QED BY <1>4, <3>1, <3>2
  <2> HIDE DEF Good
  <2> QED BY <2>1, <2>2, NatInduces
<1>6. ASSUME NEW k \in 1..n PROVE owed[k] \in Int
  <2>1. k - 1 \in Nat /\ (k - 1) + 1 = k
    OBVIOUS
  <2> QED BY <1>5, <2>1
<1> QED BY <1>a, <1>4, <1>6 DEF Left, pmt

-----------------------------------------------------------------------------
(* Amounts *)

\* Without interest the installments are the equal part of the total, and the
\* last one takes the cents that are left.
LEMMA EqualSchedule ==
  ASSUME NEW total \in Nat, NEW n \in Nat \ {0}
  PROVE  LET a == EqualAmounts(total, n)
         IN /\ SumFunction(a) = total
            /\ \A k \in 1..(n - 1) : a[k] = a[1]
            /\ a[n] - a[1] \in 0..(n - 1)
<1> DEFINE a == EqualAmounts(total, n)
           part == total \div n
           left == Residue(total, n)
           Head == 1..(n - 1)
<1>1. part \in Nat /\ left \in 0..(n - 1) /\ total = part * n + left
  BY DEF Residue
<1>2. a = [k \in 1..n |-> part + (IF k = n THEN left ELSE 0)]
  BY DEF EqualAmounts
<1> HIDE DEF a, part, left
<1>3. DOMAIN a = 1..n /\ a[n] = part + left /\ \A k \in Head : a[k] = part
  BY <1>1, <1>2
<1>4. IsFiniteSet(Head) /\ Cardinality(Head) = n - 1
  BY FS_Interval
<1>5. SumFunctionOnSet(a, Head) = part * (n - 1)
  <2> HIDE DEF Head
  <2> QED BY <1>1, <1>3, <1>4, SumConstant
<1>6. n \notin Head /\ 1..n = Head \cup {n}
  OBVIOUS
<1>7. SumFunctionOnSet(a, Head \cup {n}) = (part + left) + part * (n - 1)
  <2>1. \A k \in Head \cup {n} : a[k] \in Int
    BY <1>1, <1>3
  <2> HIDE DEF Head
  <2> QED BY <1>3, <1>4, <1>5, <1>6, <2>1, SumAdd
<1>8. SumFunction(a) = total
  <2>1. SumFunction(a) = SumFunctionOnSet(a, DOMAIN a)
    BY DEF SumFunction
  <2>2. SumFunction(a) = (part + left) + part * (n - 1)
    BY <1>3, <1>6, <1>7, <2>1
  <2>3. (part + left) + part * (n - 1) = part * n + left
    BY <1>1
  <2> QED BY <1>1, <2>2, <2>3
<1>9. a[1] = IF n = 1 THEN part + left ELSE part
  BY <1>3
<1>10. a[n] - a[1] \in 0..(n - 1)
  BY <1>1, <1>3, <1>9
<1>11. \A k \in 1..(n - 1) : a[k] = a[1]
  BY <1>3, <1>9
<1> QED BY <1>8, <1>10, <1>11 DEF a

\* One installment more: how far what is still owed is from the exact schedule,
\* with p and q the powers of Basis + i and of Basis, and e times i * q the error.
LEMMA DriftStep ==
  ASSUME NEW i \in Nat, NEW B \in Nat \ {0}, NEW total \in Int, NEW pmt \in Int,
         NEW g \in Int, NEW p \in Nat, NEW q \in Nat, NEW r \in Int,
         NEW e \in Int, e = i * (q * g) - i * (total * p) + pmt * (B * (p - q)),
         -(B * (p - q)) <= 2 * e, 2 * e <= B * (p - q),
         -B <= 2 * (B * r - g * i), 2 * (B * r - g * i) <= B,
         NEW f \in Int,
         f = i * ((B * q) * (g - (pmt - r))) - i * (total * ((B + i) * p))
               + pmt * (B * ((B + i) * p - B * q))
  PROVE  /\ -(B * ((B + i) * p - B * q)) <= 2 * f
         /\ 2 * f <= B * ((B + i) * p - B * q)
<1> DEFINE h == B * r - g * i
           w == i * q
<1>1. f = (B + i) * e + w * h
  OBVIOUS
<1>2. w \in Nat /\ h \in Int
  OBVIOUS
<1>3. -(B * w) <= 2 * (w * h) /\ 2 * (w * h) <= B * w
  <2> HIDE DEF h, w
  <2>1. -B <= 2 * h /\ 2 * h <= B
    BY DEF h
  <2>2. w * (B - 2 * h) >= 0 /\ w * (B + 2 * h) >= 0
    BY <1>2, <2>1
  <2>3. w * (B - 2 * h) = B * w - 2 * (w * h) /\ w * (B + 2 * h) = B * w + 2 * (w * h)
    BY <1>2
  <2>4. B * w \in Int /\ w * h \in Int
    BY <1>2
  <2> QED BY <2>2, <2>3, <2>4
<1>4. /\ -((B + i) * (B * (p - q))) <= 2 * ((B + i) * e)
      /\ 2 * ((B + i) * e) <= (B + i) * (B * (p - q))
  <2> DEFINE c == B + i
             d == B * (p - q)
  <2>1. c \in Nat /\ d \in Int /\ -d <= 2 * e /\ 2 * e <= d
    OBVIOUS
  <2> HIDE DEF c, d
  <2>2. c * (d - 2 * e) >= 0 /\ c * (d + 2 * e) >= 0
    BY <2>1
  <2>3. c * (d - 2 * e) = c * d - 2 * (c * e) /\ c * (d + 2 * e) = c * d + 2 * (c * e)
    BY <2>1
  <2>4. c * d \in Int /\ c * e \in Int
    BY <2>1
  <2>5. -(c * d) <= 2 * (c * e) /\ 2 * (c * e) <= c * d
    BY <2>2, <2>3, <2>4
  <2> QED BY <2>5 DEF c, d
<1>5. (B + i) * (B * (p - q)) + B * w = B * ((B + i) * p - B * q)
  OBVIOUS
<1>6. /\ (B + i) * e \in Int /\ w * h \in Int
      /\ (B + i) * (B * (p - q)) \in Int /\ B * w \in Int
  BY <1>2
<1> QED BY <1>1, <1>3, <1>4, <1>5, <1>6

\* The error of a balance after k equal payments, times i and the power of Basis
Error(total, pmt, i, k, g) ==
  i * (Power(Basis, k) * g) - i * (total * Power(Basis + i, k))
    + pmt * (Basis * (Power(Basis + i, k) - Power(Basis, k)))

Grown(i, k) == Power(Basis + i, k) - Power(Basis, k)

\* It is at most k half-cents carried at the monthly rate.
Near(total, pmt, i, k, g) ==
  /\ -(Basis * Grown(i, k)) <= 2 * Error(total, pmt, i, k, g)
  /\ 2 * Error(total, pmt, i, k, g) <= Basis * Grown(i, k)

\* The installments with interest are equal up to the last one.
LEMMA PriceSchedule ==
  ASSUME NEW total \in Nat, NEW n \in Nat, n > 1, NEW i \in Nat \ {0}
  PROVE  LET a == PriceAmounts(total, n, i)
             drift == a[n] - a[1]
         IN /\ \A k \in 1..(n - 1) : a[k] = a[1]
            /\ (IF drift < 0 THEN -drift ELSE drift) * i * Power(Basis, n - 1)
                 <= Power(Basis + i, n) - Power(Basis, n)
<1> DEFINE B == Basis
           p(k) == Power(B + i, k)
           q(k) == Power(B, k)
           pmt == Payment(total, n, i)
           owed == Balance(total, n, i)
           a == PriceAmounts(total, n, i)
           Left(g) == g - (pmt - Interest(g, i))
           span == B * Grown(i, n)
<1>1. B \in Nat \ {0} /\ B + i \in Nat /\ B < B + i
  BY InstallmentsAssumption
<1>2. \A k \in Nat : /\ p(k) \in Nat \ {0} /\ q(k) \in Nat \ {0} /\ q(k) <= p(k)
                     /\ k > 0 => q(k) < p(k)
                     /\ p(k + 1) = (B + i) * p(k) /\ q(k + 1) = B * q(k)
  BY <1>1, PowerSteps, PowersApart
<1>3. p(0) = 1 /\ q(0) = 1
  BY <1>1, PowerSteps
<1> HIDE DEF p, q
<1>4. span \in Nat \ {0} /\ span = B * (p(n) - q(n))
  <2>1. span = B * (p(n) - q(n))
    BY DEF Grown, p, q
  <2>2. p(n) - q(n) \in Nat \ {0}
    BY <1>2
  <2> DEFINE c == p(n) - q(n)
  <2> HIDE DEF c, span
  <2>3. \A b, x \in Nat \ {0} : b * x \in Nat \ {0}
    OBVIOUS
  <2>4. span = B * c /\ c \in Nat \ {0}
    BY <2>1, <2>2 DEF c
  <2> QED BY <1>1, <2>1, <2>3, <2>4
<1>5. pmt \in Int /\ -span <= 2 * (span * pmt - total * i * p(n))
      /\ 2 * (span * pmt - total * i * p(n)) <= span
  <2>1. total * i * p(n) \in Int
    BY <1>2
  <2>2. pmt = HalfUp(total * i * p(n), span)
    BY DEF Payment, Grown, p
  <2> HIDE DEF span, pmt
  <2> QED BY <1>4, <2>1, <2>2, HalfUpNear
<1>6. ASSUME NEW g \in Int
      PROVE  /\ Interest(g, i) \in Int
             /\ -B <= 2 * (B * Interest(g, i) - g * i)
             /\ 2 * (B * Interest(g, i) - g * i) <= B
  BY <1>1, HalfUpNear DEF Interest
<1>7. /\ owed \in [1..n -> Int] /\ owed[1] = total
      /\ \A k \in 1..(n - 1) : owed[k + 1] = Left(owed[k])
  BY <1>5, BalanceSteps
<1> HIDE DEF owed
<1>8. a = [k \in 1..n |-> IF k < n THEN pmt ELSE owed[n] + Interest(owed[n], i)]
  BY DEF PriceAmounts, owed
<1>9. /\ \A k \in 1..(n - 1) : a[k] = a[1]
      /\ a[n] - a[1] = Left(owed[n])
  <2>1. owed[n] \in Int /\ Interest(owed[n], i) \in Int
    BY <1>6, <1>7
  <2>2. a[1] = pmt /\ a[n] = owed[n] + Interest(owed[n], i)
    BY <1>8
  <2>3. \A k \in 1..(n - 1) : a[k] = pmt
    BY <1>8
  <2> HIDE DEF a, pmt
  <2> QED BY <1>5, <2>1, <2>2, <2>3
<1> HIDE DEF a
<1>10. ASSUME NEW k \in Nat, NEW g \in Int, Near(total, pmt, i, k, g)
       PROVE  Near(total, pmt, i, k + 1, Left(g))
  <2> DEFINE r == Interest(g, i)
             e == Error(total, pmt, i, k, g)
             f == Error(total, pmt, i, k + 1, Left(g))
  <2>1. /\ p(k) \in Nat /\ q(k) \in Nat /\ r \in Int
        /\ p(k + 1) = (B + i) * p(k) /\ q(k + 1) = B * q(k)
    BY <1>2, <1>6
  <2>2. e = i * (q(k) * g) - i * (total * p(k)) + pmt * (B * (p(k) - q(k)))
    BY DEF Error, p, q
  <2>3. f = i * ((B * q(k)) * (g - (pmt - r))) - i * (total * ((B + i) * p(k)))
              + pmt * (B * ((B + i) * p(k) - B * q(k)))
    <3>1. f = i * (q(k + 1) * (g - (pmt - r))) - i * (total * p(k + 1))
                + pmt * (B * (p(k + 1) - q(k + 1)))
      BY DEF Error, p, q
    <3> QED BY <2>1, <3>1
  <2>4. -(B * (p(k) - q(k))) <= 2 * e /\ 2 * e <= B * (p(k) - q(k))
    BY <1>10 DEF Near, Grown, p, q
  <2>5. -B <= 2 * (B * r - g * i) /\ 2 * (B * r - g * i) <= B
    BY <1>6
  <2> HIDE DEF r, e, f, pmt
  <2>6. e \in Int /\ f \in Int
    BY <1>1, <1>5, <2>1, <2>2, <2>3
  <2>7. /\ -(B * ((B + i) * p(k) - B * q(k))) <= 2 * f
        /\ 2 * f <= B * ((B + i) * p(k) - B * q(k))
    <3> DEFINE P == p(k)
               Q == q(k)
    <3>1. P \in Nat /\ Q \in Nat /\ e = i * (Q * g) - i * (total * P) + pmt * (B * (P - Q))
      BY <2>1, <2>2
    <3>2. f = i * ((B * Q) * (g - (pmt - r))) - i * (total * ((B + i) * P))
                + pmt * (B * ((B + i) * P - B * Q))
      BY <2>3
    <3>3. -(B * (P - Q)) <= 2 * e /\ 2 * e <= B * (P - Q)
      BY <2>4
    <3>4. i \in Nat /\ total \in Int
      OBVIOUS
    <3> HIDE DEF P, Q, B
    <3>5. /\ -(B * ((B + i) * P - B * Q)) <= 2 * f
          /\ 2 * f <= B * ((B + i) * P - B * Q)
      BY <1>1, <1>5, <2>1, <2>5, <2>6, <3>1, <3>2, <3>3, <3>4, DriftStep
    <3> QED BY <3>5 DEF P, Q
  <2>8. Grown(i, k + 1) = (B + i) * p(k) - B * q(k)
    BY <2>1 DEF Grown, p, q
  <2> QED BY <2>7, <2>8 DEF Near, f, pmt
<1> DEFINE Good == {k \in Nat : k < n => Near(total, pmt, i, k, owed[k + 1])}
<1>11. Nat \subseteq Good
  <2>1. 0 \in Good
    <3>1. Error(total, pmt, i, 0, total) = 0 /\ Grown(i, 0) = 0
      BY <1>1, <1>3, <1>5 DEF Error, Grown, p, q
    <3>2. Near(total, pmt, i, 0, total)
      BY <1>1, <3>1 DEF Near
    <3> QED BY <1>7, <3>2
  <2>2. ASSUME NEW k \in Nat, k \in Good PROVE k + 1 \in Good
    <3> SUFFICES ASSUME k + 1 < n PROVE Near(total, pmt, i, k + 1, owed[(k + 1) + 1])
      OBVIOUS
    <3>1. Near(total, pmt, i, k, owed[k + 1])
      BY <2>2
    <3>2. k + 1 \in 1..(n - 1) /\ owed[k + 1] \in Int
      BY <1>7
    <3> HIDE DEF Left, pmt
    <3> QED BY <1>7, <1>10, <3>1, <3>2
  <2> HIDE DEF Good
  <2> QED BY <2>1, <2>2, NatInduces
<1>12. Near(total, pmt, i, n, Left(owed[n])) /\ Left(owed[n]) \in Int
  <2>1. n - 1 \in Nat /\ n - 1 < n /\ (n - 1) + 1 = n /\ n \in 1..n
    OBVIOUS
  <2>2. Near(total, pmt, i, n - 1, owed[n])
    BY <1>11, <2>1
  <2>3. owed[n] \in Int
    BY <1>7, <2>1
  <2>4. Left(owed[n]) \in Int
    BY <1>5, <1>6, <2>3
  <2> HIDE DEF Left, pmt
  <2> QED BY <1>10, <2>1, <2>2, <2>3, <2>4
<1> DEFINE drift == Left(owed[n])
           e == Error(total, pmt, i, n, drift)
           d == IF drift < 0 THEN -drift ELSE drift
<1>13. d * i * q(n - 1) <= p(n) - q(n)
  <2>1. -span <= 2 * e /\ 2 * e <= span /\ drift \in Int
    BY <1>12 DEF Near
  <2> HIDE DEF drift, d, pmt, span
  <2>2. e = i * (q(n) * drift) - (total * i * p(n) - span * pmt)
    <3>1. e = i * (q(n) * drift) - i * (total * p(n)) + pmt * span
      BY <1>4 DEF Error, p, q
    <3> HIDE DEF e
    <3> QED BY <1>2, <1>4, <1>5, <2>1, <3>1
  <2>3. i * (q(n) * drift) \in Int /\ e \in Int /\ span * pmt \in Int
        /\ total * i * p(n) \in Int
    <3>1. i * (q(n) * drift) \in Int /\ span * pmt \in Int /\ total * i * p(n) \in Int
      BY <1>2, <1>4, <1>5, <2>1
    <3> HIDE DEF e
    <3> QED BY <2>2, <3>1
  <2> HIDE DEF e
  <2>4. -span <= i * (q(n) * drift) /\ i * (q(n) * drift) <= span
    BY <1>4, <1>5, <2>1, <2>2, <2>3
  <2>5. i * (q(n) * d) <= span
    BY <1>2, <1>4, <2>1, <2>3, <2>4 DEF d
  <2>6. q(n) = B * q(n - 1) /\ q(n - 1) \in Nat /\ p(n) - q(n) \in Nat /\ d \in Nat
    <3>1. n - 1 \in Nat /\ (n - 1) + 1 = n
      OBVIOUS
    <3> QED BY <1>2, <2>1, <3>1 DEF d
  <2>7. B * (d * i * q(n - 1)) <= B * (p(n) - q(n))
    BY <1>1, <1>4, <2>5, <2>6
  <2> DEFINE x == d * i * q(n - 1)
             y == p(n) - q(n)
  <2>8. x \in Nat /\ y \in Nat /\ B * x <= B * y
    BY <2>6, <2>7
  <2> HIDE DEF x, y
  <2>9. x <= y
    BY <1>1, <2>8
  <2> QED BY <2>9 DEF x, y
<1> QED BY <1>9, <1>13 DEF p, q, a

-----------------------------------------------------------------------------
(* The inductive invariant *)

LEMMA SettingType ==
  ASSUME setting \in [Puts \cup {None} -> Settings], NEW p \in Puts \cup {None}
  PROVE  InstallmentConfig(setting[p].installments)
BY SalesAssumption

\* The configuration that the handlers read can charge.
LEMMA ConfigChargeable == TermsInv => Chargeable(config)
BY DefaultChargeable DEF TermsInv, config

\* What the handlers read is what some administrator wrote, or nothing.
LEMMA ConfigRead ==
  TypeOK => config \in Terms /\ \A m \in DOMAIN overrides : overrides[m] \in Nat
<1> SUFFICES ASSUME TypeOK
             PROVE  config \in Terms /\ \A m \in DOMAIN overrides : overrides[m] \in Nat
  OBVIOUS
<1>1. CASE row = None
  BY <1>1 DEF config, overrides, Terms
<1>2. CASE row # None
  <2>1. \A f \in Fields : setting[row.fields[f]] \in Settings
    BY <1>2 DEF TypeOK, ConfigTypeOK, Row
  <2>2. /\ setting[row.fields["installment_config"]] \in Settings
        /\ setting[row.fields["module_overrides"]] \in Settings
    BY <2>1, SalesAssumption
  <2> QED BY <1>2, <2>2, SalesAssumption DEF config, overrides, Terms
<1> QED BY <1>1, <1>2

LEMMA InitIInv == Init => IInv
<1> SUFFICES ASSUME Init PROVE IInv
  OBVIOUS
<1> USE DEF Init, ConfigInit
<1>1. Charges = {}
  BY DEF Charges
<1>2. ConfigTypeOK
  BY DEF ConfigTypeOK, Row, Fresh
<1>3. TypeOK
  BY <1>1, <1>2 DEF TypeOK
<1>4. Chargeable(setting[None].installments)
  BY SettingType DEF Chargeable
<1>5. row # None => row.fields["installment_config"] = None
  BY SalesAssumption DEF Fresh
<1>6. TermsInv
  BY <1>4, <1>5 DEF TermsInv
<1>7. InstallmentsOnlyOnCard /\ ChargesInv
  BY <1>1 DEF InstallmentsOnlyOnCard, ChargesInv, SnapshotAddsUp
<1> QED BY <1>3, <1>6, <1>7 DEF IInv

\* No update makes the row hold terms that cannot charge.
LEMMA ConfigKeepsTerms ==
  ASSUME IInv, NEW p \in Puts, SaveConfig(p)
  PROVE  ConfigTypeOK' /\ TermsInv'
<1> USE ConfigAssumption, SalesAssumption DEF IInv, TypeOK, ConfigTypeOK, SaveConfig
<1> DEFINE f == "installment_config"
<1>1. CASE Accepted(p) /\ SelectForUpdate(p)
  <2> USE <1>1 DEF SelectForUpdate
  <2>1. ConfigTypeOK'
    BY DEF Locked
  <2>2. f \in changed[p] => Chargeable(setting[p].installments)
    BY SettingType DEF Accepted, Chargeable
  <2>3. TermsInv'
    BY <2>2 DEF TermsInv
  <2> QED BY <2>1, <2>3
<1>2. CASE Upsert(p)
  <2> USE <1>2 DEF Upsert
  <2>1. Base(p) \in Row
    BY DEF Base, Fresh, Row
  <2>2. row' \in Row /\ row'.fields = Merged(p)
    BY <2>1 DEF Merged, Row
  <2>3. ConfigTypeOK'
    BY <2>2
  <2>4. Chargeable(setting[Merged(p)[f]].installments)
    <3>1. CASE f \in changed[p]
      BY <3>1 DEF Merged, TermsInv
    <3>2. CASE f \notin changed[p]
      BY <3>2 DEF Merged, TermsInv, Base, Fresh
    <3> QED BY <3>1, <3>2
  <2>5. TermsInv'
    BY <2>2, <2>4 DEF TermsInv
  <2> QED BY <2>3, <2>5
<1>3. CASE Fail(p)
  BY <1>3 DEF Fail, TermsInv
<1> QED BY <1>1, <1>2, <1>3

\* What a request freezes.
LEMMA RequestIsPriced ==
  ASSUME IInv, CreateRequest
  PROVE  SnapshotAddsUp'
         /\ request'.product \in Products /\ request'.total \in Nat
         /\ request'.run \subseteq DOMAIN Plan[request'.product]
         /\ DOMAIN request' = {"product", "total", "snapshot", "run", "plan"}
<1> DEFINE selected == Normalized(basket.product, basket.asked)
<1>1. basket.product \in Products
  BY SalesAssumption DEF IInv, TypeOK
<1>2. /\ request'.product = basket.product /\ DOMAIN request'.snapshot = selected
      /\ request'.run = PlanFor(basket.product, selected)
      /\ DOMAIN request' = {"product", "total", "snapshot", "run", "plan"}
  BY DEF CreateRequest
<1>3. request'.total = Total(basket.product, selected, overrides)
  BY DEF CreateRequest
<1>4. basket \in Baskets /\ \A m \in DOMAIN overrides : overrides[m] \in Nat
  BY ConfigRead DEF IInv, TypeOK
<1>5. request'.total \in Nat /\ request'.total = PriceOf(selected, overrides)
  BY <1>3, <1>4, TotalIsPrice
<1>6. request'.snapshot = [m \in selected |-> Price(m, overrides)]
  BY DEF CreateRequest
<1>7. SnapshotAddsUp'
  BY <1>5, <1>6 DEF SnapshotAddsUp, PriceOf
<1> QED BY <1>1, <1>2, <1>5, <1>7 DEF PlanFor

\* What a reservation is about to charge.
LEMMA ReservedCharge ==
  ASSUME IInv, NEW n \in Nat, NEW method \in Methods, NEW consent,
         Reserve(n, method, consent)
  PROVE  Charge(paying') /\ (paying'.option.parcelas > 1 => method = "cartao")
         /\ paying'.method = method /\ Charged(paying', request.total)
<1>1. Chargeable(config)
  BY ConfigChargeable DEF IInv
<1>2. n \in 1..24 /\ (n > 1 => method = "cartao")
  BY <1>1, ChargeableOptions, OptionShape DEF Reserve
<1>3. config \in Terms
  BY ConfigRead DEF IInv
<1>4. Charge(paying') /\ (paying'.option.parcelas > 1 => method = "cartao")
      /\ paying'.method = method
  BY <1>1, <1>2, OptionShape DEF Reserve, Charge, IInv, TypeOK, Chargeable
<1>5. Charged(paying', request.total)
  <2> DEFINE opt == Option(request.total, n, config, today)
  <2>1. /\ request' = request /\ n \in Offered(request.total, config)
        /\ Consents(consent, opt)
        /\ paying' = [option |-> opt, method |-> method, consent |-> consent,
                      on |-> today, terms |-> config]
    BY DEF Reserve
  <2>2. opt.parcelas = n
    BY DEF Option
  <2> HIDE DEF opt
  <2>3. /\ paying'.option = opt /\ paying'.terms = config /\ paying'.on = today
        /\ paying'.consent = consent
    BY <2>1
  <2>4. opt = Option(request.total, opt.parcelas, config, today)
    BY <2>2 DEF opt
  <2> QED BY <1>1, <1>3, <2>1, <2>2, <2>3, <2>4 DEF Charged
<1> QED BY <1>4, <1>5

\* Every step preserves the inductive invariant.
LEMMA StepIInv == IInv /\ [Next]_vars => IInv'
<1> SUFFICES ASSUME IInv, [Next]_vars PROVE IInv'
  OBVIOUS
<1> USE DEF IInv, saleVars
<1>0. CASE UNCHANGED vars
  BY <1>0 DEF vars, configVars, TypeOK, ConfigTypeOK, TermsInv,
     InstallmentsOnlyOnCard, Charges, Charge, ChargesInv,
     SnapshotAddsUp, Charged
<1>1. ASSUME NEW p \in Puts, SaveConfig(p) PROVE IInv'
  <2>1. UNCHANGED <<setting, today, saleVars>>
    BY <1>1 DEF SaveConfig
  <2>2. ConfigTypeOK' /\ TermsInv'
    BY <1>1, ConfigKeepsTerms
  <2>3. TypeOK' /\ InstallmentsOnlyOnCard' /\ ChargesInv'
    BY <2>1, <2>2 DEF TypeOK, InstallmentsOnlyOnCard, Charges, Charge,
       ChargesInv, SnapshotAddsUp, Charged
  <2> QED BY <2>2, <2>3
<1>2. CASE PassTime \/ EstimatePricing \/ OpenCase \/ Release
  <2>1. UNCHANGED <<configVars, setting, basket, request>> /\ today' \in Days
    BY <1>2 DEF PassTime, EstimatePricing, OpenCase, Release, TypeOK
  <2>2. paying' \in {paying, None}
    BY <1>2 DEF PassTime, EstimatePricing, OpenCase, Release
  <2>3. Charges' \subseteq Charges
    BY <2>1, <2>2 DEF Charges
  <2>4. screen' # None => DOMAIN screen' \subseteq 1..24
    <3>1. Chargeable(config)
      BY ConfigChargeable
    <3>2. CASE OpenCase
      BY <3>1, <3>2, ChargeableOptions DEF OpenCase
    <3>3. CASE UNCHANGED screen
      BY <3>3 DEF TypeOK
    <3> QED BY <1>2, <3>2, <3>3 DEF PassTime, EstimatePricing, Release
  <2>5. TypeOK'
    BY <2>1, <2>2, <2>3, <2>4 DEF TypeOK, ConfigTypeOK, configVars, Charge
  <2>6. TermsInv' /\ InstallmentsOnlyOnCard'
    BY <2>1, <2>3 DEF TermsInv, InstallmentsOnlyOnCard, configVars
  <2>7. preview' # None =>
          preview'.total = Total(basket.product, PreviewedModules(basket),
                                 preview'.overrides)
    BY <1>2 DEF PassTime, EstimatePricing, OpenCase, Release, ChargesInv
  <2>8. ChargesInv'
    BY <2>1, <2>3, <2>7 DEF ChargesInv, SnapshotAddsUp, Charged
  <2> QED BY <2>5, <2>6, <2>8
<1>3. CASE CreateRequest
  <2> USE <1>3 DEF CreateRequest
  <2>1. UNCHANGED <<configVars, setting, today, basket, screen, paying>>
    OBVIOUS
  <2>2. paying = None /\ request'.plan = None
    BY DEF TypeOK
  <2>3. Charges' = {}
    BY <2>1, <2>2 DEF Charges
  <2>4. TypeOK'
    BY <2>1, <2>2, <2>3, RequestIsPriced DEF TypeOK, ConfigTypeOK, configVars
  <2>5. TermsInv' /\ InstallmentsOnlyOnCard' /\ ChargesInv'
    BY <2>1, <2>3, RequestIsPriced
       DEF TermsInv, InstallmentsOnlyOnCard, configVars, ChargesInv
  <2> QED BY <2>4, <2>5
<1>4. ASSUME NEW n \in Nat, NEW method \in Methods, NEW consent,
             Reserve(n, method, consent)
      PROVE  IInv'
  <2>1. /\ UNCHANGED <<configVars, setting, today, basket, preview, request, screen>>
        /\ request # None /\ request.plan = None
    BY <1>4 DEF Reserve
  <2>2. Charges' \subseteq {paying'}
    BY <2>1 DEF Charges
  <2>3. TypeOK' /\ InstallmentsOnlyOnCard'
    BY <1>4, <2>1, <2>2, ReservedCharge
       DEF TypeOK, ConfigTypeOK, configVars, InstallmentsOnlyOnCard, Charge
  <2>4. TermsInv' /\ ChargesInv'
    BY <1>4, <2>1, <2>2, ReservedCharge
       DEF TermsInv, configVars, ChargesInv, SnapshotAddsUp
  <2> QED BY <2>3, <2>4
<1>5. CASE Finish
  <2>1. /\ UNCHANGED <<configVars, setting, today, basket, preview, screen>>
        /\ paying # None /\ paying' = None /\ request # None
        /\ request' = [request EXCEPT !.plan = paying]
    BY <1>5 DEF Finish, TypeOK
  <2>2. /\ request'.plan = paying /\ request'.product = request.product
        /\ request'.run = request.run /\ request'.snapshot = request.snapshot
        /\ request'.total = request.total
        /\ DOMAIN request' = DOMAIN request
    BY <2>1 DEF TypeOK
  <2>3. Charges' \subseteq Charges
    BY <2>1, <2>2 DEF Charges
  <2>4. TypeOK'
    BY <2>1, <2>2, <2>3 DEF TypeOK, ConfigTypeOK, configVars, Charge
  <2>5. TermsInv' /\ InstallmentsOnlyOnCard'
    BY <2>1, <2>2, <2>3 DEF TermsInv, InstallmentsOnlyOnCard, configVars
  <2>6. ChargesInv'
    BY <2>1, <2>2, <2>3 DEF ChargesInv, SnapshotAddsUp, Charged
  <2> QED BY <2>4, <2>5, <2>6
<1>6. CASE Pay
  <2>1. request # None => config.max \in Nat
    BY ConfigChargeable DEF Chargeable, InstallmentConfig
  <2>2. \E n \in Nat, method \in Methods : \E consent : Reserve(n, method, consent)
    BY <1>6, <2>1 DEF Pay
  <2> QED BY <1>4, <2>2
<1> QED BY <1>0, <1>1, <1>2, <1>3, <1>5, <1>6 DEF Next

\* The inductive invariant of a sale.
THEOREM Invariance == Spec => []IInv
<1> QED BY InitIInv, StepIInv, PTL DEF Spec

\* Whatever the administrators write, at any moment of the sale, only a credit
\* card is charged in installments.
THEOREM OnlyCardsInInstallments == Spec => []InstallmentsOnlyOnCard
<1>1. IInv => InstallmentsOnlyOnCard
  BY DEF IInv
<1> QED BY <1>1, Invariance, PTL

\* Whatever the organization overrides, the frozen total is the sum of the prices frozen with it.
THEOREM SnapshotIsTotal == Spec => []SnapshotAddsUp
<1>1. IInv => SnapshotAddsUp
  BY DEF IInv, ChargesInv
<1> QED BY <1>1, Invariance, PTL

\* Under every price, rate and calendar an unpaid request has an option at once
\* and a method that pays it.
THEOREM SomethingPays == Spec => []AlwaysPayable
<1>1. IInv => AlwaysPayable
  BY ConfigChargeable, ChargeableOptions DEF IInv, AlwaysPayable
<1> QED BY <1>1, Invariance, PTL

-----------------------------------------------------------------------------
(* The amounts and the dates that are charged *)

\* The due dates of an option of the payment are those that DueDatesMonthly asks.
LEMMA OptionDates ==
  ASSUME NEW x \in Days, NEW cfg \in Terms, InstallmentConfig(cfg), NEW n \in 1..cfg.max
  PROVE  LET due == DueDates(x, n, cfg)  base == PlusDays(x, cfg.first)
         IN /\ due[1] \in Dates /\ NotAfter(base, due[1])
            /\ NotAfter(due[1], AddMonths(base, 1))
            /\ \A k \in 1..n :
                 /\ due[k].m = due[1].m + k - 1 /\ due[k] \in Dates
                 /\ cfg.day # Unset => due[k].d = cfg.day
                 /\ due[k].d # due[1].d => due[k].d = MonthDays[due[k].m]
<1> DEFINE base == PlusDays(x, cfg.first)
           first == FirstDue(x, cfg)
           due == DueDates(x, n, cfg)
<1>0. x \in Dates /\ cfg.first \in Nat /\ cfg.max \in Nat
  BY SalesAssumption DEF InstallmentConfig
<1>1. PICK end \in Months :
        /\ end + cfg.max \in Months
        /\ DaysBefore(x.m) + x.d + cfg.first <= DaysBefore(end) + MonthDays[end]
  BY CalendarAssumption
<1>2. base \in Dates /\ base.m <= end
  BY <1>0, <1>1, DaysLater
<1>3. base.m \in Months /\ base.m \in Nat /\ end \in Nat
  BY <1>2, CalendarMonths DEF Dates
<1>4. \A m \in Nat \ {0} : m <= end + cfg.max => m \in Months
  BY <1>0, <1>1, <1>3, CalendarMonths
<1>5. /\ first \in Dates /\ NotAfter(base, first) /\ NotAfter(first, AddMonths(base, 1))
      /\ first.m <= base.m + 1
      /\ cfg.day # Unset => first.d = cfg.day /\ first.d <= 28
  <2>1. base.m + 1 \in Months
    BY <1>0, <1>2, <1>3, <1>4
  <2> QED BY <1>0, <1>2, <2>1, FirstDueDate
<1> HIDE DEF base, first
<1>6. due = [k \in 1..n |-> AddMonths(first, k - 1)]
  BY DEF DueDates, first
<1> HIDE DEF due
<1>7. first.m \in Nat \ {0} /\ first.m \in Months /\ first.d \in 1..31
  BY <1>5, CalendarMonths DEF Dates
<1>8. ASSUME NEW k \in 1..n
      PROVE  /\ due[k] = AddMonths(first, k - 1) /\ due[k] \in Dates
             /\ due[k].m = first.m + (k - 1)
             /\ first.d <= 28 => due[k].d = first.d
             /\ due[k].d # first.d => due[k].d = MonthDays[first.m + (k - 1)]
  <2>1. first.m + (k - 1) \in Months /\ k - 1 \in Nat
    BY <1>0, <1>2, <1>3, <1>4, <1>5, <1>7
  <2>2. due[k] = AddMonths(first, k - 1)
    BY <1>6
  <2> QED BY <1>5, <2>1, <2>2, MonthsLater
<1>9. due[1] = first
  <2>1. first.m + 0 = first.m /\ MonthDays[first.m] \in 28..31
        /\ first.d <= MonthDays[first.m] /\ first = [m |-> first.m, d |-> first.d]
    BY <1>5, <1>7, CalendarMonths DEF Dates
  <2>2. due[1] = AddMonths(first, 0)
    BY <1>8
  <2> QED BY <2>1, <2>2 DEF AddMonths
<1>10. ASSUME NEW k \in 1..n
       PROVE  /\ due[k].m = due[1].m + k - 1 /\ due[k] \in Dates
              /\ cfg.day # Unset => due[k].d = cfg.day
              /\ due[k].d # due[1].d => due[k].d = MonthDays[due[k].m]
  BY <1>5, <1>7, <1>8, <1>9
<1> QED BY <1>5, <1>9, <1>10 DEF due, base

\* The amounts of an option of the payment are those that ScheduleCloses asks.
LEMMA OptionAmounts ==
  ASSUME NEW total \in Nat, NEW cfg, InstallmentConfig(cfg), NEW n \in Nat \ {0}, NEW day
  PROVE  LET o == Option(total, n, cfg, day)  a == o.amounts  i == cfg.rate
             drift == a[n] - a[1]
         IN /\ SumFunction(a) = o.total
            /\ \A k \in 1..(n - 1) : a[k] = a[1]
            /\ IF i = 0 \/ n <= cfg.free
               THEN o.total = total /\ drift \in 0..(n - 1)
               ELSE (IF drift < 0 THEN -drift ELSE drift) * i * Power(Basis, n - 1)
                      <= Power(Basis + i, n) - Power(Basis, n)
<1> DEFINE a == Amounts(total, n, cfg)
           drift == a[n] - a[1]
<1>1. cfg.rate \in Nat /\ cfg.free \in Nat \ {0}
  BY DEF InstallmentConfig
<1>2. /\ Option(total, n, cfg, day).amounts = a
      /\ Option(total, n, cfg, day).total = TotalToPay(total, n, cfg)
  BY DEF Option
<1>3. CASE cfg.rate = 0 \/ n <= cfg.free
  <2>1. ~WithInterest(n, cfg)
    BY <1>1, <1>3 DEF WithInterest
  <2>2. a = EqualAmounts(total, n) /\ TotalToPay(total, n, cfg) = total
    BY <2>1 DEF Amounts, TotalToPay
  <2>3. /\ SumFunction(a) = total
        /\ \A k \in 1..(n - 1) : a[k] = a[1]
        /\ drift \in 0..(n - 1)
    BY <2>2, EqualSchedule
  <2> HIDE DEF a
  <2> QED BY <1>2, <1>3, <2>2, <2>3
<1>4. CASE ~(cfg.rate = 0 \/ n <= cfg.free)
  <2>1. WithInterest(n, cfg) /\ n > 1 /\ cfg.rate \in Nat \ {0}
    BY <1>1, <1>4 DEF WithInterest
  <2>2. a = PriceAmounts(total, n, cfg.rate) /\ TotalToPay(total, n, cfg) = SumFunction(a)
    BY <2>1 DEF Amounts, TotalToPay
  <2>3. /\ \A k \in 1..(n - 1) : a[k] = a[1]
        /\ (IF drift < 0 THEN -drift ELSE drift) * cfg.rate * Power(Basis, n - 1)
             <= Power(Basis + cfg.rate, n) - Power(Basis, n)
    BY <2>1, <2>2, PriceSchedule
  <2> HIDE DEF a
  <2> QED BY <1>2, <1>4, <2>2, <2>3
<1> QED BY <1>3, <1>4

\* What is charged is an option of the frozen total, with at most as many
\* installments as its terms allow.
LEMMA ChargeIsOption ==
  ASSUME IInv, NEW c \in Charges
  PROVE  /\ c.terms \in Terms /\ InstallmentConfig(c.terms) /\ c.on \in Days
         /\ request.total \in Nat /\ c.option.parcelas \in 1..c.terms.max
         /\ c.option = Option(request.total, c.option.parcelas, c.terms, c.on)
<1>1. Charge(c) /\ Charged(c, request.total)
  BY DEF IInv, TypeOK, ChargesInv
<1>2. request # None
  BY DEF IInv, TypeOK, Charges
<1>3. request.total \in Nat
  BY <1>2 DEF IInv, ChargesInv
<1>4. c.option.parcelas \in 1..c.terms.max
  BY <1>1 DEF Charged, Offered, MaxInstallments, Chargeable, InstallmentConfig
<1> QED BY <1>1, <1>3, <1>4 DEF Charge, Charged

\* For every total, rate and number of installments, with or without interest:
\* the amounts add up to the total charged, all but the last are equal, and the
\* last one differs by the rounding only.
THEOREM ScheduleAddsUp == Spec => []ScheduleCloses
<1>1. IInv => ScheduleCloses
  <2> SUFFICES ASSUME IInv, NEW c \in Charges
               PROVE  LET o == c.option  n == o.parcelas  i == c.terms.rate
                          a == o.amounts  drift == a[n] - a[1]
                      IN /\ SumFunction(a) = o.total
                         /\ \A k \in 1..(n - 1) : a[k] = a[1]
                         /\ IF i = 0 \/ n <= c.terms.free
                            THEN o.total = request.total /\ drift \in 0..(n - 1)
                            ELSE (IF drift < 0 THEN -drift ELSE drift)
                                     * i * Power(Basis, n - 1)
                                   <= Power(Basis + i, n) - Power(Basis, n)
    BY DEF ScheduleCloses
  <2> DEFINE n == c.option.parcelas
             total == request.total
             cfg == c.terms
  <2>1. /\ InstallmentConfig(cfg) /\ total \in Nat
        /\ n \in Nat \ {0} /\ c.option = Option(total, n, cfg, c.on)
    <3>1. cfg.max \in Nat
      BY ChargeIsOption DEF InstallmentConfig
    <3> QED BY <3>1, ChargeIsOption
  <2> HIDE DEF n, total, cfg
  <2>2. LET o == Option(total, n, cfg, c.on)  a == o.amounts  i == cfg.rate
            drift == a[n] - a[1]
        IN /\ SumFunction(a) = o.total
           /\ \A k \in 1..(n - 1) : a[k] = a[1]
           /\ IF i = 0 \/ n <= cfg.free
              THEN o.total = total /\ drift \in 0..(n - 1)
              ELSE (IF drift < 0 THEN -drift ELSE drift) * i * Power(Basis, n - 1)
                     <= Power(Basis + i, n) - Power(Basis, n)
    BY <2>1, OptionAmounts
  <2> QED BY <2>1, <2>2 DEF n, total, cfg
<1> QED BY <1>1, Invariance, PTL

\* On every calendar: the first installment is due in the month that follows the
\* configured days, then there is one a month, each on a day that exists.
THEOREM DueEveryMonth == Spec => []DueDatesMonthly
<1>1. IInv => DueDatesMonthly
  <2> SUFFICES ASSUME IInv, NEW c \in Charges
               PROVE  LET due == c.option.due  base == PlusDays(c.on, c.terms.first)
                      IN /\ due[1] \in Dates /\ NotAfter(base, due[1])
                         /\ NotAfter(due[1], AddMonths(base, 1))
                         /\ \A k \in 1..c.option.parcelas :
                              /\ due[k].m = due[1].m + k - 1 /\ due[k] \in Dates
                              /\ c.terms.day # Unset => due[k].d = c.terms.day
                              /\ due[k].d # due[1].d => due[k].d = MonthDays[due[k].m]
    BY DEF DueDatesMonthly
  <2> DEFINE n == c.option.parcelas
  <2>1. /\ c.terms \in Terms /\ InstallmentConfig(c.terms) /\ c.on \in Days
        /\ n \in 1..c.terms.max
        /\ c.option = Option(request.total, n, c.terms, c.on)
    BY ChargeIsOption
  <2> HIDE DEF n
  <2>2. c.option.due = DueDates(c.on, n, c.terms)
    BY <2>1 DEF Option
  <2> QED BY <2>1, <2>2, OptionDates DEF n
<1> QED BY <1>1, Invariance, PTL

\* The request costs what the preview said, unless the prices were rewritten in
\* between; a payment that sent the total of its screen is charged that total.
THEOREM ChargedAsShown == Spec => ShownIsCharged
<1>1. IInv => \A c \in Charges : c.consent # None => c.option.total = c.consent
  BY DEF IInv, ChargesInv, Charged, Consents
<1>2. IInv /\ [Next]_vars
        => [request = None /\ request' # None /\ preview # None
              /\ preview.overrides = overrides
            => request'.total = preview.total]_vars
  <2> SUFFICES ASSUME IInv, Next, request = None, request' # None, preview # None,
                      preview.overrides = overrides
               PROVE  request'.total = preview.total
    BY DEF vars
  <2>1. CreateRequest
    BY DEF Next, SaveConfig, PassTime, EstimatePricing, OpenCase, Pay, Reserve, Finish,
       Release, saleVars, IInv, TypeOK
  <2> QED BY <2>1 DEF CreateRequest, PreviewedModules, IInv, ChargesInv
<1> QED BY <1>1, <1>2, Invariance, PTL DEF Spec, ShownIsCharged
=============================================================================
