---------------------------- MODULE Installments ----------------------------
(***************************************************************************)
(* Payment options of a total (services/pricing/installments.py): how many *)
(* installments, their amounts with or without interest, their due dates   *)
(* and the methods that may pay them.  Money in cents.  The code's rate is *)
(* in hundredths of a percent and its decimals keep 28 digits; here a rate *)
(* is in units of 1/Basis and the arithmetic is exact.                     *)
(*                                                                         *)
(* A date is a month, counted from the first of the calendar, and a day.   *)
(***************************************************************************)
EXTENDS Integers, FiniteSets, Functions

CONSTANTS
  Basis,      \* 10000 in the code
  MonthDays,  \* the calendar: the days of each month
  Unset       \* no fixed day of the month

ASSUME InstallmentsAssumption ==
  /\ Basis \in Nat \ {0}
  /\ IsFiniteSet(DOMAIN MonthDays)
  /\ MonthDays \in [1..Cardinality(DOMAIN MonthDays) -> 28..31]
  /\ Unset \notin 1..28

Methods == {"pix", "boleto", "cartao", "debito"}
InstallmentMethods == {"cartao"}

MethodRule == [enabled : BOOLEAN, max : 1..24]

InstallmentConfig(cfg) ==
  /\ cfg.enabled \in BOOLEAN /\ cfg.max \in 1..24 /\ cfg.free \in 1..24
  /\ cfg.rate \in Nat /\ cfg.minimum \in Nat
  /\ cfg.first \in 0..365 /\ cfg.day \in 1..28 \cup {Unset}
  /\ DOMAIN cfg.methods \subseteq Methods
  /\ cfg.methods \in [DOMAIN cfg.methods -> MethodRule]

Default == [enabled |-> FALSE, max |-> 1, free |-> 1, rate |-> 0, minimum |-> 0,
            first |-> 30, day |-> Unset, methods |-> <<>>]

CardOnly(cfg) ==
  \A m \in DOMAIN cfg.methods \ InstallmentMethods : cfg.methods[m].max = 1

\* The cross-field validator, and P-1 of PUT pricing/config
Valid(cfg) ==
  /\ cfg.free <= cfg.max
  /\ \A m \in DOMAIN cfg.methods : cfg.methods[m].max <= cfg.max
  /\ CardOnly(cfg)
SomeMethod(cfg) ==
  DOMAIN cfg.methods # {} => \E m \in DOMAIN cfg.methods : cfg.methods[m].enabled

-----------------------------------------------------------------------------
(* Methods *)

EffectiveMethods(cfg) ==
  IF DOMAIN cfg.methods # {} THEN cfg.methods
  ELSE [m \in Methods |-> [enabled |-> TRUE,
                           max |-> IF m \in InstallmentMethods THEN cfg.max ELSE 1]]

MethodsFor(n, cfg) ==
  LET rule == EffectiveMethods(cfg)
  IN {m \in DOMAIN rule : rule[m].enabled /\ rule[m].max >= n}

-----------------------------------------------------------------------------
(* Amounts *)

\* Decimal.quantize(1, ROUND_HALF_UP): ties away from zero
HalfUp(a, b) ==
  IF a >= 0 THEN (a \div b) + (IF 2 * (a % b) >= b THEN 1 ELSE 0)
  ELSE -(((-a) \div b) + (IF 2 * ((-a) % b) >= b THEN 1 ELSE 0))

WithInterest(n, cfg) == n > cfg.free /\ cfg.rate # 0

\* The residue of the division goes to the last installment.
Residue_Lost(total, n) == 0  \* mutant: residue dropped
Residue(total, n) == total - (total \div n) * n

EqualAmounts(total, n) ==
  [k \in 1..n |-> (total \div n) + (IF k = n THEN Residue(total, n) ELSE 0)]

Power(x, n) == LET power[k \in Nat] == IF k = 0 THEN 1 ELSE x * power[k - 1] IN power[n]

\* pv * i / (1 - (1 + i)^-n), over integers
Payment(total, n, rate) ==
  LET grown == Power(Basis + rate, n)
  IN HalfUp(total * rate * grown, Basis * (grown - Power(Basis, n)))

Interest(balance, rate) == HalfUp(balance * rate, Basis)

\* What is owed before each installment
Balance(total, n, rate) ==
  LET pmt == Payment(total, n, rate)
      balance[k \in 1..n] ==
        IF k = 1 THEN total
        ELSE balance[k - 1] - (pmt - Interest(balance[k - 1], rate))
  IN balance

PriceAmounts(total, n, rate) ==
  LET pmt == Payment(total, n, rate)
      balance == Balance(total, n, rate)
  IN [k \in 1..n |-> IF k < n THEN pmt ELSE balance[n] + Interest(balance[n], rate)]

Amounts(total, n, cfg) ==
  IF WithInterest(n, cfg) THEN PriceAmounts(total, n, cfg.rate)
  ELSE EqualAmounts(total, n)

-----------------------------------------------------------------------------
(* Due dates *)

Months == DOMAIN MonthDays
Dates == {d \in [m : Months, d : 1..31] : d.d <= MonthDays[d.m]}

DaysBefore(m) == SumFunctionOnSet(MonthDays, {k \in Months : k < m})
PlusDays(x, days) ==
  LET n == DaysBefore(x.m) + x.d + days
      m == CHOOSE m \in Months : n - DaysBefore(m) \in 1..MonthDays[m]
  IN [m |-> m, d |-> n - DaysBefore(m)]

NotAfter(x, y) == x.m < y.m \/ (x.m = y.m /\ x.d <= y.d)

\* The last day of the target month if it has not that day
AddMonths(x, k) ==
  LET last == MonthDays[x.m + k]
  IN [m |-> x.m + k, d |-> IF x.d <= last THEN x.d ELSE last]

FirstDue_Early(today, cfg) ==  \* mutant: a fixed day already past
  LET base == PlusDays(today, cfg.first)
  IN IF cfg.day = Unset THEN base ELSE [base EXCEPT !.d = cfg.day]
FirstDue(today, cfg) ==
  LET base == PlusDays(today, cfg.first)
      fixed == [base EXCEPT !.d = cfg.day]
  IN IF cfg.day = Unset THEN base
     ELSE IF NotAfter(base, fixed) THEN fixed
     ELSE [AddMonths(base, 1) EXCEPT !.d = cfg.day]

DueDates(today, n, cfg) ==
  [k \in 1..n |-> AddMonths(FirstDue(today, cfg), k - 1)]

-----------------------------------------------------------------------------
(* The options offered for a total *)

MaxInstallments(total, cfg) == IF cfg.enabled /\ total > 0 THEN cfg.max ELSE 1

Offered(total, cfg) ==
  {n \in 1..MaxInstallments(total, cfg) :
     n = 1 \/ Amounts(total, n, cfg)[1] >= cfg.minimum}

TotalToPay(total, n, cfg) ==
  IF WithInterest(n, cfg) THEN SumFunction(Amounts(total, n, cfg)) ELSE total

Option(total, n, cfg, today) ==
  [parcelas |-> n, amounts |-> Amounts(total, n, cfg), due |-> DueDates(today, n, cfg),
   total |-> TotalToPay(total, n, cfg), methods |-> MethodsFor(n, cfg)]
=============================================================================
