------------------------------ MODULE Finance -------------------------------
(***************************************************************************)
(* The financial area of ONE organization: the tabs computed from          *)
(* public.requests (overview, services, clients, sales, receivables,       *)
(* payments: services/financial/*.py), the registers of API costs, taxes   *)
(* and invoices, and the executive report (handlers/financial*.py), while  *)
(* sales are opened and paid and the clock moves.                          *)
(*                                                                         *)
(* Every statement of a report sees what is committed when it starts (READ *)
(* COMMITTED).  The reader is an active admin (OrgAdmins); text search,    *)
(* names, the notes of a sale and the automatic API tariff are left out.   *)
(***************************************************************************)
EXTENDS Periods, Sequences, SequencesExt

CONSTANTS
  Ids,       \* ids of requests: random, in no order of time
  Offers,    \* what may be sold: product, client and total
  Legacy,    \* rows that may exist at the start, of any status
  Taxes, Notes, Costs,  \* registrations an admin may send
  Clock,     \* the instants the clock goes through
  Reads,     \* the periods the reader asks for
  Term,      \* installment_config.primeiro_vencimento_dias
  PageSize,
  MaxRows,   \* bound on the rows added
  None

VARIABLES
  now,
  requests,  \* None or the row of each id
  registers, \* taxes, notes and costs: sequences of the rows inserted
  reader     \* the admin's session: paging through sales, or a report

vars == <<now, requests, registers, reader>>

Received == {"paid"}
Pending == {"pending", "processing"}
Canceled == {"canceled", "expired", "failed"}
Simulated == {"simulated"}
Refunded == {"refunded"}
PaymentStatus == Received \cup Pending \cup Canceled \cup Simulated \cup Refunded

\* A row of public.requests
Sale ==
  LET Goods == Offers \cup Legacy
  IN [product : {x.product : x \in Goods}, client : {x.client : x \in Goods},
      total : Nat \cup {None}, created : Int, status : PaymentStatus,
      plan : [requested : Clock \cup {None}, at : Clock] \cup {None}]

ASSUME FinanceAssumption ==
  /\ Ids \subseteq Int /\ Clock \subseteq Int /\ Reads \subseteq Presets
  /\ Term \in Nat /\ PageSize \in Nat \ {0} /\ None \notin Sale \cup Int
  /\ Legacy \subseteq Sale /\ \A o \in Offers : o.total \in Nat \cup {None}
  /\ \A x \in Taxes :
       /\ DOMAIN x = {"type", "status", "estimated", "confirmed", "month", "external",
                      "ref"}
       /\ x.estimated \in Nat /\ x.confirmed \in Nat \cup {None} /\ x.month \in Int
  /\ \A n \in Notes :
       DOMAIN n = {"type", "numero", "serie", "status", "provider", "external", "ref"}
  /\ \A c \in Costs :
       /\ DOMAIN c = {"provider", "quantity", "unit", "status", "external", "ref"}
       /\ c.quantity \in Nat /\ c.unit \in Nat

\* The calendar holds the months and the year around every instant, and the clock
\* is looked at often enough to see every month.
ASSUME ClockAssumption ==
  /\ \A t \in Clock : Covers(BrDay(t))
  /\ \A t, u \in Clock :
       t < u => \E v \in Clock : t < v /\ v - t <= 24 * 28

Idle == [pc |-> "idle"]
Rows == {s \in Ids : requests[s] # None}
Added == Cardinality(Rows) + Len(registers.taxes) + Len(registers.notes)
           + Len(registers.costs)

Init ==
  /\ now \in Clock
  /\ requests \in [Ids -> Legacy \cup {None}]
  /\ \A s, z \in Rows : s = z
  /\ \A s \in Rows : requests[s].created <= now
  /\ registers = [taxes |-> <<>>, notes |-> <<>>, costs |-> <<>>]
  /\ reader = Idle

-----------------------------------------------------------------------------
(* Sales and payments, as CaseIntake and CasePayment make them *)

OpenSale(s, offer) ==
  /\ requests[s] = None /\ Added < MaxRows
  /\ requests' = [requests EXCEPT ![s] =
       [product |-> offer.product, client |-> offer.client, total |-> offer.total,
        created |-> now, status |-> "pending", plan |-> None]]
  /\ UNCHANGED <<now, registers, reader>>

Moves(s, from, to, plan) ==
  /\ s \in Rows /\ requests[s].status = from
  /\ requests' = [requests EXCEPT ![s].status = to, ![s].plan = plan]
  /\ UNCHANGED <<now, registers, reader>>

Reserve(s) ==
  /\ s \in Rows /\ requests[s].plan = None /\ requests[s].total # None
  /\ Moves(s, "pending", "processing", None)
Release(s) == Moves(s, "processing", "pending", None)

\* TX 2 of a card payment: installment_plan has payment.requested_at; "at" is
\* when the payment was really made.
CardPays(s, result) ==
  Moves(s, "processing", result, [requested |-> now, at |-> now])

\* _paid_snapshot: a Pix plan has paid_at, and no payment.requested_at.
PixPays(s) ==
  /\ s \in Rows /\ requests[s].plan = None /\ requests[s].total # None
  /\ Moves(s, "pending", "paid", [requested |-> None, at |-> now])

SaleStep ==
  \E s \in Ids :
    \/ \E offer \in Offers : OpenSale(s, offer)
    \/ Reserve(s) \/ Release(s) \/ PixPays(s)
    \/ \E result \in {"simulated", "pending"} : CardPays(s, result)

PassTime ==
  /\ \E t \in Clock : now < t /\ (\A u \in Clock : now < u => t <= u) /\ now' = t
  /\ UNCHANGED <<requests, registers, reader>>

-----------------------------------------------------------------------------
(* Registers: rows are only inserted *)

\* The unique indexes on external_id (019), beside the provider for costs (018)
\* and notes, and on the number of a note: since 022 two missing providers, or
\* series, are the same.
SameExternal(a, b) == a.external # None /\ a.external = b.external
SameCost(a, b) == SameExternal(a, b) /\ a.provider = b.provider
SameNote(a, b) ==
  \/ SameExternal(a, b) /\ a.provider = b.provider
  \/ a.numero # None /\ a.numero = b.numero /\ a.type = b.type /\ a.serie = b.serie

TaxAccepted(x) == x.status \in {"confirmado", "divergente"} => x.confirmed # None
NoteAccepted(n) == n.status = "authorized" => n.numero # None

\* 409 when another row of the table is the same
Insert(table, row, Same(_, _)) ==
  /\ Added < MaxRows
  /\ \A k \in DOMAIN registers[table] : ~Same(registers[table][k], row)
  /\ registers' = [registers EXCEPT ![table] = Append(@, row)]
  /\ UNCHANGED <<now, requests, reader>>

\* A tax is dated the first day of its month, in Brasilia.
CreateTax(x) ==
  TaxAccepted(x) /\ Insert("taxes", [x EXCEPT !.ref = 24 * x.month + 3], SameExternal)

Dated(row) == [row EXCEPT !.ref = IF @ = None THEN now ELSE @]

CreateApiCost(c) == Insert("costs", Dated(c), SameCost)
CreateFiscalDocument(n) == NoteAccepted(n) /\ Insert("notes", Dated(n), SameNote)

Register ==
  \/ \E x \in Taxes : CreateTax(x)
  \/ \E n \in Notes : CreateFiscalDocument(n)
  \/ \E c \in Costs : CreateApiCost(c)

-----------------------------------------------------------------------------
(* The tabs over requests *)

Preset(period) == Days(period, BrDay(now))  \* resolve_range
Month == FirstOf(MonthStarts, BrDay(now))

OrZero(cents) == IF cents = None THEN 0 ELSE cents
\* GROUP BY: the key and the amount of each row, as functions on the same rows
Grouped(key, amount) ==
  [g \in Range(key) |-> SumFunctionOnSet(amount, {x \in DOMAIN key : key[x] = g})]

Totals(S) == [s \in S |-> OrZero(requests[s].total)]
Cents(S) == SumFunction(Totals(S))

Sold(days) == {s \in Rows : Within(requests[s].created, days)}
With(S, bucket) == {s \in S : requests[s].status \in bucket}

Overview(days) ==
  LET S == Sold(days)
  IN [gross |-> Cents(S), received |-> Cents(With(S, Received)),
      pending |-> Cents(With(S, Pending)), canceled |-> Cents(With(S, Canceled)),
      simulated |-> Cents(With(S, Simulated)), refunded |-> Cents(With(S, Refunded))]

Gross(days) == Cents(Sold(days))
ByProduct(days) ==
  Grouped([s \in Sold(days) |-> requests[s].product], Totals(Sold(days)))

\* Sales without a client form a group of their own.
Joined_Inner(days) == {s \in Sold(days) : requests[s].client # None}  \* mutant: JOIN
Joined(days) == Sold(days)
ByClient(days) ==
  Grouped([s \in Joined(days) |-> requests[s].client], Totals(Joined(days)))

SaleStatus(st) ==
  CASE st \in Refunded -> "refunded" [] st \in Canceled -> "canceled"
    [] st \in Received -> "paid" [] st \in Simulated -> "simulated"
    [] OTHER -> "pending"

BySaleStatus(days) ==
  Grouped([s \in Sold(days) |-> SaleStatus(requests[s].status)], Totals(Sold(days)))

\* created_at::date + term: a date of UTC
Due(s) == UtcDay(requests[s].created) + Term
Late_DueToday(s) == Due(s) <= UtcDay(now)  \* mutant
Late(s) == Due(s) < UtcDay(now)

Receivables(days) ==
  LET S == With(Sold(days), Pending)
  IN [total |-> Cents(S), overdue |-> Cents({s \in S : Late(s)}),
      due |-> Cents({s \in S : ~Late(s)})]

\* COALESCE(installment_plan.payment.requested_at, created_at)
PaidAt(s) ==
  LET t == requests[s].plan.requested IN IF t = None THEN requests[s].created ELSE t
Payments(days) ==
  {s \in Rows : requests[s].plan # None /\ Within(PaidAt(s), days)}

-----------------------------------------------------------------------------
(* The tabs over the registers *)

In(table, days) ==
  {k \in DOMAIN registers[table] : Within(registers[table][k].ref, days)}
Processed(days) ==
  {k \in In("costs", days) : registers.costs[k].status = "processado"}
CostsOf(K) == [k \in K |-> registers.costs[k].quantity * registers.costs[k].unit]
ApiCosts(days) == SumFunction(CostsOf(Processed(days)))
ByProvider(days) ==
  Grouped([k \in Processed(days) |-> registers.costs[k].provider],
          CostsOf(Processed(days)))

Void == {"cancelado", "nao_aplicavel"}
Levied(days) == {k \in In("taxes", days) : registers.taxes[k].status \notin Void}
BestKnown(x) == IF x.confirmed # None THEN x.confirmed ELSE x.estimated
TaxesOf(K) == [k \in K |-> BestKnown(registers.taxes[k])]
TaxesDue(days) == SumFunction(TaxesOf(Levied(days)))
TypesOf(K) == [k \in K |-> registers.taxes[k].type]
ByType_All(days) ==  \* mutant: without the filter of status
  Grouped(TypesOf(In("taxes", days)), TaxesOf(In("taxes", days)))
ByType(days) == Grouped(TypesOf(Levied(days)), TaxesOf(Levied(days)))

ByStatus(days) ==
  LET notes == In("notes", days)
  IN Grouped([k \in notes |-> registers.notes[k].status], [k \in notes |-> 1])
Invoices(days) ==
  Cardinality({k \in In("notes", days) : registers.notes[k].status = "authorized"})

-----------------------------------------------------------------------------
(* Paging through the sales *)

Newer_NoId(s, z) == requests[s].created > requests[z].created  \* mutant
Newer(s, z) ==
  \/ requests[s].created > requests[z].created
  \/ requests[s].created = requests[z].created /\ s > z

\* The orders ORDER BY allows: one, unless rows tie.
Sorted(S) ==
  {q \in SetToSeqs(S) : \A i, j \in DOMAIN q : i < j => ~Newer(q[j], q[i])}

StartPaging(period) ==
  /\ reader.pc = "idle"
  /\ reader' = [pc |-> "list", period |-> period, page |-> 1,
                days |-> Preset(period), first |-> None, shown |-> {}]
  /\ UNCHANGED <<now, requests, registers>>

\* list_sales, first statement: the rows of the page
ListPage ==
  LET S == Sold(reader.days)
      offset == (reader.page - 1) * PageSize
  IN /\ reader.pc = "list"
     /\ \E q \in Sorted(S) :
          reader' = [reader EXCEPT !.pc = "count",
            !.first = IF reader.page = 1 THEN S ELSE @,
            !.shown = @ \cup {q[i] : i \in {k \in DOMAIN q :
                                offset < k /\ k <= offset + PageSize}}]
     /\ UNCHANGED <<now, requests, registers>>

\* Second statement: the total; the next page is asked for as long as there is
\* one, and resolves its period anew.
CountPage ==
  LET pages == (Cardinality(Sold(reader.days)) + PageSize - 1) \div PageSize
  IN /\ reader.pc = "count"
     /\ reader' = IF reader.page < pages
                  THEN [reader EXCEPT !.pc = "next", !.page = @ + 1]
                  ELSE [reader EXCEPT !.pc = "done"]
     /\ UNCHANGED <<now, requests, registers>>

NextPage ==
  /\ reader.pc = "next"
  /\ reader' = [reader EXCEPT !.pc = "list", !.days = Preset(reader.period)]
  /\ UNCHANGED <<now, requests, registers>>

-----------------------------------------------------------------------------
(* The executive report and the tabs: one transaction each, several         *)
(* statements.  Left out: the KPIs of requests in the report, which no other *)
(* section repeats, and the list under a tab.                                *)

ExecutiveReport == <<"api", "tax", "fiscal",            \* inside compute_overview
                     "api", "byProvider", "tax", "byType", "fiscal", "byStatus">>
ApiCostTab == <<"api", "byProvider">>
TaxTab == <<"tax", "byType">>
NoteTab == <<"fiscal", "byStatus">>
ServiceTab == <<"gross", "byProduct">>
ClientTab == <<"gross", "byClient">>

Reports == {ExecutiveReport, ApiCostTab, TaxTab, NoteTab, ServiceTab, ClientTab}

Section(name, days) ==
  CASE name = "api" -> ApiCosts(days) [] name = "byProvider" -> ByProvider(days)
    [] name = "tax" -> TaxesDue(days) [] name = "byType" -> ByType(days)
    [] name = "fiscal" -> Invoices(days) [] name = "byStatus" -> ByStatus(days)
    [] name = "gross" -> Gross(days) [] name = "byProduct" -> ByProduct(days)
    [] name = "byClient" -> ByClient(days)

StartReport(period, statements) ==
  /\ reader.pc = "idle"
  /\ reader' = [pc |-> "report", days |-> Preset(period), statements |-> statements,
                before |-> Added, got |-> <<>>]
  /\ UNCHANGED <<now, requests, registers>>

NextStatement ==
  LET k == Len(reader.got) + 1
  IN /\ reader.pc = "report"
     /\ reader' = [reader EXCEPT
          !.got = Append(@, Section(reader.statements[k], reader.days)),
          !.pc = IF k = Len(reader.statements) THEN "printed" ELSE @]
     /\ UNCHANGED <<now, requests, registers>>

Close ==
  /\ reader.pc \in {"done", "printed"} /\ reader' = Idle
  /\ UNCHANGED <<now, requests, registers>>

Read ==
  \/ \E period \in Reads :
       StartPaging(period) \/ \E statements \in Reports : StartReport(period, statements)
  \/ ListPage \/ CountPage \/ NextPage \/ NextStatement \/ Close

Next == SaleStep \/ PassTime \/ Register \/ Read

Spec == Init /\ [][Next]_vars

-----------------------------------------------------------------------------
(* Properties *)

\* buckets.py:13 and the heads of sales.py, receivables.py, clients_revenue.py:
\* whatever the statuses, prices and clients, every tab sums to the overview.
TabsReconcile ==
  \A period \in Reads :
    LET days == Preset(period)
        o == Overview(days)
        sales == BySaleStatus(days)
        Of(st) == IF st \in DOMAIN sales THEN sales[st] ELSE 0
    IN /\ o.gross = o.received + o.pending + o.canceled + o.simulated + o.refunded
       /\ o.gross = SumFunction(ByProduct(days)) /\ o.gross = SumFunction(ByClient(days))
       /\ Of("paid") = o.received /\ Of("pending") = o.pending
       /\ Of("canceled") = o.canceled
       /\ Receivables(days).total = o.pending
       /\ o.pending = Receivables(days).overdue + Receivables(days).due

\* period.py:48: when a month ends in Brasilia, what the tabs showed for the
\* month is what they now show for the last month; no sale falls in between,
\* and none is counted in both.
MonthHandsOver ==
  [][now # now' /\ Month # Month'
     => /\ Sold(Preset("lastMonth"))' = Sold(Preset("month"))
        /\ Payments(Preset("lastMonth"))' = Payments(Preset("month"))
        /\ Levied(Preset("lastMonth"))' = Levied(Preset("month"))
        /\ (Sold(Preset("lastMonth")) \cap Sold(Preset("month")))' = {}]_vars

\* receivables.py:8: a receivable is overdue only after its term of whole days
\* has passed, and a day later at most, whatever the hour and time zone of the
\* sale.
TermIsKept ==
  \A s \in With(Rows, Pending) :
    LET hours == now - requests[s].created
    IN /\ Late(s) => hours > 24 * Term
       /\ hours >= 24 * (Term + 1) => Late(s)

\* sales.py:87 "sem chave unica o OFFSET duplicaria/pularia": going through the
\* pages while sales are opened and the period moves, no sale of the first page's
\* period that is still in the last page's is skipped.
NoSaleSkipped ==
  reader.pc = "done" => reader.first \cap Sold(reader.days) \subseteq reader.shown

\* The figure that two sections share, and its value in a section.
Figure(name) ==
  CASE name \in {"api", "byProvider"} -> "cost" [] name \in {"tax", "byType"} -> "tax"
    [] name \in {"fiscal", "byStatus"} -> "invoices" [] OTHER -> "sales"
Value(name, section) ==
  CASE name \in {"api", "tax", "fiscal", "gross"} -> section
    [] name = "byStatus" ->
         IF "authorized" \in DOMAIN section THEN section["authorized"] ELSE 0
    [] OTHER -> SumFunction(section)

\* financial_reports.py:58-64: one transaction, which line 54 calls a "leitura
\* consistente", but under READ COMMITTED each section is a statement that sees its
\* own snapshot.  Two sections with one figure may differ by what is registered or
\* sold in between, the later one showing more; if nothing is, they agree.
SectionsAgree ==
  reader.pc = "printed" =>
    \A i, j \in DOMAIN reader.got :
      LET name == reader.statements
          Shown(k) == Value(name[k], reader.got[k])
      IN i < j /\ Figure(name[i]) = Figure(name[j]) =>
           /\ Shown(i) <= Shown(j)
           /\ reader.before = Added => Shown(i) = Shown(j)

\* payments.py:37 "um pagamento pertence ao periodo em que foi FEITO".
PaymentsByPaymentDate ==
  \A period \in Reads :
    LET days == Preset(period)
    IN Payments(days) =
         {s \in Rows : requests[s].plan # None /\ Within(requests[s].plan.at, days)}
=============================================================================
