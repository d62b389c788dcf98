------------------------------- MODULE Sales --------------------------------
(***************************************************************************)
(* ONE sale, from the wizard to the plan that is charged: the price        *)
(* preview (handlers/pricing.py estimate_pricing), the request it becomes  *)
(* (handlers/requests.py create_request), the case screen with its payment *)
(* options (handlers/cases.py get_case) and the payment that recomputes    *)
(* them (handlers/payments.py create_case_payment), while administrators   *)
(* rewrite the prices and the installment rules (PricingConfig) and the    *)
(* day changes.  Concurrent payments of one request are in CasePayment and *)
(* the request's numbering and quota in CaseIntake: here one call pays at  *)
(* a time.                                                                 *)
(***************************************************************************)
EXTENDS PricingConfig, Catalog, Installments

CONSTANTS
  Baskets,   \* what the wizard may hold: a product and the modules asked for
  Settings,  \* what a PUT may ask for: overrides and installments
  Days       \* the dates the sale may go through

ASSUME SalesAssumption ==
  /\ Fields = {"module_overrides", "installment_config"}
  /\ \A b \in Baskets : b.product \in Products /\ b.asked \subseteq Modules
  /\ \A s \in Settings : /\ InstallmentConfig(s.installments)
                          /\ \A m \in DOMAIN s.overrides : s.overrides[m] \in Nat
  /\ Days \subseteq Dates

\* The terms an organization may charge on
Terms == {s.installments : s \in Settings} \cup {Default}

\* The calendar reaches the last installment of every sale.
ASSUME CalendarAssumption ==
  \A x \in Days : \A cfg \in Terms :
    \E m \in Months :
      /\ m + cfg.max \in Months
      /\ DaysBefore(x.m) + x.d + cfg.first <= DaysBefore(m) + MonthDays[m]

VARIABLES
  setting,  \* what each PUT asks for, and (None) what the row starts with
  today,
  basket,   \* what the wizard holds
  preview,  \* None or the estimate on the wizard's screen
  request,  \* None or the row of public.requests
  screen,   \* None or the total of each option on the case screen
  paying    \* None or the payment in flight: its option, method and consent

saleVars == <<basket, preview, request, screen, paying>>
vars == <<configVars, setting, today, saleVars>>

\* read_module_overrides, read_installment_config
overrides == IF row = None THEN <<>>
             ELSE setting[row.fields["module_overrides"]].overrides
config == IF row = None THEN Default
          ELSE setting[row.fields["installment_config"]].installments

Init ==
  /\ ConfigInit
  /\ setting \in [Puts \cup {None} -> Settings]
  /\ Valid(setting[None].installments) /\ SomeMethod(setting[None].installments)
  /\ row = None => setting[None] = [overrides |-> <<>>, installments |-> Default]
  /\ today \in Days /\ basket \in Baskets
  /\ preview = None /\ request = None /\ screen = None /\ paying = None

-----------------------------------------------------------------------------
(* Configuration and calendar *)

\* update_pricing_config validates the body before it opens its transaction.
Accepted_Schema(p) ==  \* mutant: P-1 left to the screen
  "installment_config" \in changed[p] => Valid(setting[p].installments)
Accepted(p) ==
  "installment_config" \in changed[p]
    => Valid(setting[p].installments) /\ SomeMethod(setting[p].installments)

SaveConfig(p) ==
  /\ (Accepted(p) /\ SelectForUpdate(p)) \/ Upsert(p) \/ Fail(p)
  /\ UNCHANGED <<setting, today, saleVars>>

PassTime ==
  /\ \E d \in Days : NotAfter(today, d) /\ d # today /\ today' = d
  /\ UNCHANGED <<configVars, setting, saleVars>>

-----------------------------------------------------------------------------
(* The wizard *)

PreviewedModules_AsAsked(b) == b.asked  \* mutant: preview without normalization
PreviewedModules(b) == Normalized(b.product, b.asked)

\* estimate_pricing; the options it also lists are those of OpenCase.
EstimatePricing ==
  /\ request = None /\ preview = None
  /\ preview' = [overrides |-> overrides,
                 total |-> Total(basket.product, PreviewedModules(basket), overrides)]
  /\ UNCHANGED <<configVars, setting, today, basket, request, screen, paying>>

\* Prices are frozen: total_price_cents and the modules of price_snapshot.
CreateRequest ==
  LET selected == Normalized(basket.product, basket.asked)
  IN /\ request = None
     /\ request' =
          [product |-> basket.product,
           total |-> Total(basket.product, selected, overrides),
           snapshot |-> [m \in selected |-> Price(m, overrides)],
           run |-> PlanFor(basket.product, selected), plan |-> None]
     /\ preview' = None
     /\ UNCHANGED <<configVars, setting, today, basket, screen, paying>>

-----------------------------------------------------------------------------
(* The case screen and the payment *)

OpenCase ==
  /\ request # None /\ request.plan = None
  /\ screen' = [n \in Offered(request.total, config)
                  |-> TotalToPay(request.total, n, config)]
  /\ UNCHANGED <<configVars, setting, today, basket, preview, request, paying>>

\* PaymentSelectionSchema: debit is paid at once.
Sendable(n, method) == method = "debito" => n = 1

\* PRC-02: the total the screen showed is the one recomputed.
Consents(consent, opt) == consent \in {None, opt.total}

\* TX 1 and the reservation; other selections are refused and change nothing.
Reserve(n, method, consent) ==
  LET opt == Option(request.total, n, config, today)
  IN /\ request # None /\ request.plan = None /\ paying = None
     /\ Sendable(n, method)
     /\ n \in Offered(request.total, config)
     /\ method \in opt.methods
     /\ Consents(consent, opt)
     /\ paying' = [option |-> opt, method |-> method, consent |-> consent,
                   on |-> today, terms |-> config]
     /\ UNCHANGED <<configVars, setting, today, basket, preview, request, screen>>

\* The user picks an option; the screen sends its total, an API client may not.
Pay ==
  \E n \in 1..(IF request = None THEN 0 ELSE config.max), method \in Methods :
    \/ Reserve(n, method, None)
    \/ screen # None /\ n \in DOMAIN screen /\ Reserve(n, method, screen[n])

\* The provider answers and TX 2 records the plan.
Finish ==
  /\ paying # None
  /\ request' = [request EXCEPT !.plan = paying]
  /\ paying' = None
  /\ UNCHANGED <<configVars, setting, today, basket, preview, screen>>

\* The provider raises: the reservation is released.
Release ==
  /\ paying # None /\ paying' = None
  /\ UNCHANGED <<configVars, setting, today, basket, preview, request, screen>>

Next ==
  \/ \E p \in Puts : SaveConfig(p)
  \/ PassTime \/ EstimatePricing \/ CreateRequest \/ OpenCase
  \/ Pay \/ Finish \/ Release

Spec == Init /\ [][Next]_vars

-----------------------------------------------------------------------------
(* Properties *)

Charge(c) ==
  /\ c.on \in Days /\ c.method \in Methods /\ InstallmentConfig(c.terms)
  /\ DOMAIN c.option.amounts = 1..c.option.parcelas
  /\ DOMAIN c.option.due = 1..c.option.parcelas

Charges == {c \in {paying} \cup {IF request = None THEN None ELSE request.plan} :
              c # None}

TypeOK ==
  /\ ConfigTypeOK
  /\ setting \in [Puts \cup {None} -> Settings]
  /\ today \in Days /\ basket \in Baskets
  /\ request # None => /\ DOMAIN request
                            = {"product", "total", "snapshot", "run", "plan"}
                       /\ request.product \in Products
                       /\ request.run \subseteq DOMAIN Plan[request.product]
  /\ screen # None => DOMAIN screen \subseteq 1..24
  /\ paying # None => request # None /\ request.plan = None
  /\ \A c \in Charges : Charge(c)

\* The frozen total is what the frozen modules cost, one by one.
SnapshotAddsUp == request # None => request.total = SumFunction(request.snapshot)

\* The installments add up to the total that is charged.  Without interest that
\* is the frozen total and installments differ by less than their number of
\* cents; with interest the last one absorbs the rounding of the others, which
\* n half-cents carried at the monthly rate bound: ((1+i)^n - 1) / i cents.
ScheduleCloses ==
  \A c \in Charges :
    LET o == c.option  n == o.parcelas  i == c.terms.rate  a == o.amounts
        drift == a[n] - a[1]
    IN /\ SumFunction(a) = o.total
       /\ \A k \in 1..(n - 1) : a[k] = a[1]
       /\ IF i = 0 \/ n <= c.terms.free
          THEN o.total = request.total /\ drift \in 0..(n - 1)
          ELSE (IF drift < 0 THEN -drift ELSE drift) * i * Power(Basis, n - 1)
                 <= Power(Basis + i, n) - Power(Basis, n)

\* The first installment is due at least the configured days after the choice
\* and within a month of that; then one per month, on the fixed day if there is
\* one, on the first one's day or the end of a shorter month if not.
DueDatesMonthly ==
  \A c \in Charges :
    LET due == c.option.due  base == PlusDays(c.on, c.terms.first)
    IN /\ due[1] \in Dates /\ NotAfter(base, due[1])
       /\ NotAfter(due[1], AddMonths(base, 1))
       /\ \A k \in 1..c.option.parcelas :
            /\ due[k].m = due[1].m + k - 1 /\ due[k] \in Dates
            /\ c.terms.day # Unset => due[k].d = c.terms.day
            /\ due[k].d # due[1].d => due[k].d = MonthDays[due[k].m]

\* installments.py:13 "Apenas o cartão de crédito parcela": whatever the
\* administrators write, only a credit card is charged in installments.
InstallmentsOnlyOnCard ==
  \A c \in Charges : c.option.parcelas > 1 => c.method = "cartao"

\* P-1 (pricing.py:189) "senão a org fica sem forma de cobrar": whatever the
\* administrators write, in parts and while a sale is under way, a request of any
\* total has the option at once under the rules in force, and a method for it.
AlwaysPayable ==
  request # None => 1 \in Offered(request.total, config) /\ MethodsFor(1, config) # {}

\* The customer is charged what was shown.  CVS-008 (pricing.py:86) "para o
\* preview bater com o cobrado": the request costs what the preview said, unless
\* the prices were rewritten in between; and PRC-02: a payment that sent the
\* total its screen showed is charged that total, whatever was rewritten.
ShownIsCharged ==
  /\ [][request = None /\ request' # None /\ preview # None
          /\ preview.overrides = overrides
        => request'.total = preview.total]_vars
  /\ [](\A c \in Charges : c.consent # None => c.option.total = c.consent)

-----------------------------------------------------------------------------
(* The inductive invariant *)

Chargeable(cfg) == InstallmentConfig(cfg) /\ Valid(cfg) /\ SomeMethod(cfg)

\* Every configuration that the row holds, that a call read or that a call past
\* its validation is about to write can charge.
TermsInv ==
  LET terms(r) == setting[r.fields["installment_config"]].installments
  IN /\ Chargeable(setting[None].installments)
     /\ row # None => Chargeable(terms(row))
     /\ \A p \in Puts :
          /\ read[p] # None => Chargeable(terms(read[p]))
          /\ putPc[p] = "read" /\ "installment_config" \in changed[p]
               => Chargeable(setting[p].installments)

\* What is charged is an option of the request, on the terms and the day of the
\* payment; what a preview shows is a total of the wizard's basket.
Charged(c, total) ==
  /\ c.terms \in Terms /\ Chargeable(c.terms)
  /\ c.option.parcelas \in Offered(total, c.terms)
  /\ c.option = Option(total, c.option.parcelas, c.terms, c.on)
  /\ Consents(c.consent, c.option)

ChargesInv ==
  /\ SnapshotAddsUp /\ (request # None => request.total \in Nat)
  /\ \A c \in Charges : Charged(c, request.total)
  /\ preview # None =>
       preview.total = Total(basket.product, PreviewedModules(basket), preview.overrides)

IInv == TypeOK /\ TermsInv /\ InstallmentsOnlyOnCard /\ ChargesInv
=============================================================================
