---------------------------- MODULE FinanceProofs ---------------------------
(***************************************************************************)
(* Proofs about Finance for any sales, registrations, calendar, term, page *)
(* size and number of steps.  FinanceInv is the inductive invariant: the   *)
(* types, and what the reader may rely on between two of its statements.   *)
(***************************************************************************)
EXTENDS Finance, Sums, SequenceTheorems

-----------------------------------------------------------------------------
(* The calendar *)

\* The first of the month of a day is the last one that is not after it.
LEMMA FirstOfIs ==
  ASSUME NEW S \in SUBSET Int, NEW day \in Int, NEW m \in S, m <= day,
         \A x \in S : x <= m \/ x > day
  PROVE  FirstOf(S, day) = m
<1> DEFINE T == {x \in S : x <= day}
<1>1. m \in T /\ \A x \in T : m >= x
  OBVIOUS
<1>2. \A x \in T : (\A y \in T : x >= y) => x = m
  BY <1>1
<1>3. Max(T) = m
  BY <1>1, <1>2 DEF Max
<1> QED BY <1>3 DEF FirstOf

\* k, m and n open the last month, the month of the day and the next one.
MonthsAt(day, k, m, n) ==
  /\ k \in MonthStarts /\ m \in MonthStarts /\ n \in MonthStarts
  /\ k < m /\ m <= day /\ day < n /\ n - m <= 31 /\ m - k <= 31

\* What FirstOf, NextMonth and PrevMonth (period.py) find on a day the calendar covers.
LEMMA MonthsOf ==
  ASSUME NEW day \in Int, NEW k, NEW m, NEW n, MonthsAt(day, k, m, n)
  PROVE  /\ FirstOf(MonthStarts, day) = m
         /\ NextMonth(m) = n /\ PrevMonth(m) = k
<1>1. /\ MonthStarts \in SUBSET Int /\ k \in Int /\ m \in Int /\ n \in Int
      /\ \A x, y \in MonthStarts : y > x => y - x >= 28
  BY PeriodsAssumption DEF MonthsAt
<1>2. \A x \in MonthStarts : x <= m \/ x >= n
  BY <1>1 DEF MonthsAt
<1>3. \A x \in MonthStarts : x <= k \/ x >= m
  BY <1>1 DEF MonthsAt
<1>4. \A x \in MonthStarts : x <= n \/ x >= n + 28
  BY <1>1 DEF MonthsAt
<1>5. FirstOf(MonthStarts, day) = m
  <2>1. \A x \in MonthStarts : x <= m \/ x > day
    BY <1>1, <1>2 DEF MonthsAt
  <2> QED BY <1>1, <2>1, FirstOfIs DEF MonthsAt
<1>6. NextMonth(m) = n
  <2>1. n <= m + 32 /\ \A x \in MonthStarts : x <= n \/ x > m + 32
    BY <1>1, <1>4 DEF MonthsAt
  <2> QED BY <1>1, <2>1, FirstOfIs DEF MonthsAt, NextMonth
<1>7. PrevMonth(m) = k
  <2>1. k <= m - 1 /\ \A x \in MonthStarts : x <= k \/ x > m - 1
    BY <1>1, <1>3 DEF MonthsAt
  <2> QED BY <1>1, <2>1, FirstOfIs DEF MonthsAt, PrevMonth
<1> QED BY <1>5, <1>6, <1>7

\* y and z open the year of the day and the next one.
YearsAt(day, y, z) ==
  /\ y \in YearStarts /\ z \in YearStarts
  /\ y <= day /\ day < z /\ \A x \in YearStarts : x <= y \/ x >= z

\* What the preset "year" finds: January 1 of the day's year, and of the next one.
LEMMA YearsOf ==
  ASSUME NEW day \in Int, NEW y, NEW z, YearsAt(day, y, z)
  PROVE  FirstOf(YearStarts, day) = y /\ Min({s \in YearStarts : s > y}) = z
<1>1. YearStarts \in SUBSET Int /\ y \in Int /\ z \in Int
  BY PeriodsAssumption DEF YearsAt
<1>2. FirstOf(YearStarts, day) = y
  <2>1. \A x \in YearStarts : x <= y \/ x > day
    BY <1>1 DEF YearsAt
  <2> QED BY <1>1, <2>1, FirstOfIs DEF YearsAt
<1>3. Min({s \in YearStarts : s > y}) = z
  <2> DEFINE T == {s \in YearStarts : s > y}
  <2>1. z \in T /\ \A x \in T : z <= x
    BY <1>1 DEF YearsAt
  <2>2. \A x \in T : (\A w \in T : x <= w) => x = z
    BY <1>1, <2>1
  <2> QED BY <2>1, <2>2 DEF Min
<1> QED BY <1>2, <1>3

\* The day in Brasilia is a number, and does not go back with time.
LEMMA DayOf ==
  ASSUME NEW t \in Int, NEW u \in Int, t <= u
  PROVE  BrDay(t) \in Int /\ BrDay(t) <= BrDay(u)
BY DEF BrDay

\* A period is a pair of days, and moves forward with the clock.
LEMMA PeriodMoves ==
  ASSUME NEW period \in Presets, NEW t \in Clock, NEW u \in Clock, t <= u
  PROVE  /\ Days(period, BrDay(t)) \in Int \X Int
         /\ Days(period, BrDay(t))[1] <= Days(period, BrDay(u))[1]
         /\ Days(period, BrDay(t))[2] <= Days(period, BrDay(u))[2]
<1> DEFINE a == BrDay(t)
           b == BrDay(u)
<1>0. /\ a \in Int /\ b \in Int /\ a <= b /\ Covers(a) /\ Covers(b)
      /\ MonthStarts \in SUBSET Int /\ YearStarts \in SUBSET Int
  BY DayOf, PeriodsAssumption, FinanceAssumption, ClockAssumption
<1> HIDE DEF a, b
<1>1. PICK k, m, n : MonthsAt(a, k, m, n)
  BY <1>0 DEF Covers, MonthsAt
<1>2. PICK kk, mm, nn : MonthsAt(b, kk, mm, nn)
  BY <1>0 DEF Covers, MonthsAt
<1>3. PICK y, z : YearsAt(a, y, z)
  BY <1>0 DEF Covers, YearsAt
<1>4. PICK yy, zz : YearsAt(b, yy, zz)
  BY <1>0 DEF Covers, YearsAt
<1>5. /\ FirstOf(MonthStarts, a) = m /\ NextMonth(m) = n /\ PrevMonth(m) = k
      /\ FirstOf(MonthStarts, b) = mm /\ NextMonth(mm) = nn /\ PrevMonth(mm) = kk
  BY <1>0, <1>1, <1>2, MonthsOf
<1>6. /\ FirstOf(YearStarts, a) = y /\ Min({s \in YearStarts : s > y}) = z
      /\ FirstOf(YearStarts, b) = yy /\ Min({s \in YearStarts : s > yy}) = zz
  BY <1>0, <1>3, <1>4, YearsOf
<1>7. /\ k \in Int /\ m \in Int /\ n \in Int /\ kk \in Int /\ mm \in Int /\ nn \in Int
      /\ k <= kk /\ m <= mm /\ n <= nn
  BY <1>0, <1>1, <1>2, PeriodsAssumption DEF MonthsAt
<1>8. y \in Int /\ z \in Int /\ yy \in Int /\ zz \in Int /\ y <= yy /\ z <= zz
  BY <1>0, <1>3, <1>4 DEF YearsAt
<1>9. /\ Days(period, a) \in Int \X Int
      /\ Days(period, a)[1] <= Days(period, b)[1]
      /\ Days(period, a)[2] <= Days(period, b)[2]
  <2>1. CASE period = "today"
    BY <1>0, <2>1 DEF Days
  <2>2. CASE period = "7d"
    BY <1>0, <2>2 DEF Days
  <2>3. CASE period = "month"
    BY <1>5, <1>7, <2>3 DEF Days
  <2>4. CASE period = "lastMonth"
    BY <1>5, <1>7, <2>4 DEF Days
  <2>5. CASE period = "year"
    BY <1>6, <1>8, <2>5 DEF Days
  <2> QED BY <2>1, <2>2, <2>3, <2>4, <2>5 DEF Presets
<1> QED BY <1>9 DEF a, b

\* When the month changes, what was the month is the last one, and ends where the
\* new one starts.
LEMMA MonthBecomesLast ==
  ASSUME NEW t \in Clock, NEW u \in Clock, t < u, \A v \in Clock : t < v => u <= v,
         FirstOf(MonthStarts, BrDay(t)) # FirstOf(MonthStarts, BrDay(u))
  PROVE  /\ Days("lastMonth", BrDay(u)) = Days("month", BrDay(t))
         /\ Days("lastMonth", BrDay(u))[2] = Days("month", BrDay(u))[1]
         /\ Days("lastMonth", BrDay(u))[2] \in Int
<1> DEFINE a == BrDay(t)
           b == BrDay(u)
<1>0. /\ a \in Int /\ b \in Int /\ a <= b /\ b <= a + 28 /\ Covers(a) /\ Covers(b)
  <2>1. t \in Int /\ u \in Int
    BY FinanceAssumption
  <2>2. PICK v \in Clock : t < v /\ v - t <= 24 * 28
    BY ClockAssumption
  <2>3. u - t <= 24 * 28
    BY <2>1, <2>2, FinanceAssumption
  <2>4. b <= a + 28
    BY <2>1, <2>3 DEF BrDay
  <2> QED BY <2>1, <2>4, DayOf, ClockAssumption
<1> HIDE DEF a, b
<1>1. PICK k, m, n : MonthsAt(a, k, m, n)
  BY <1>0 DEF Covers, MonthsAt
<1>2. PICK kk, mm, nn : MonthsAt(b, kk, mm, nn)
  BY <1>0 DEF Covers, MonthsAt
<1>3. /\ FirstOf(MonthStarts, a) = m /\ NextMonth(m) = n /\ PrevMonth(m) = k
      /\ FirstOf(MonthStarts, b) = mm /\ NextMonth(mm) = nn /\ PrevMonth(mm) = kk
  BY <1>0, <1>1, <1>2, MonthsOf
<1>4. m # mm
  BY <1>3 DEF a, b
<1>5. mm = n /\ kk = m /\ mm \in Int
  <2>1. /\ k \in Int /\ m \in Int /\ n \in Int /\ kk \in Int /\ mm \in Int /\ nn \in Int
        /\ \A x, y \in MonthStarts : y > x => y - x >= 28
    BY <1>1, <1>2, PeriodsAssumption DEF MonthsAt
  <2>2. n <= mm
    BY <1>0, <1>1, <1>2, <1>4, <2>1 DEF MonthsAt
  <2>3. mm = n
    BY <1>0, <1>1, <1>2, <2>1, <2>2 DEF MonthsAt
  <2>4. kk = m
    BY <1>0, <1>1, <1>2, <2>1, <2>3 DEF MonthsAt
  <2> QED BY <2>1, <2>3, <2>4
<1> QED BY <1>3, <1>5 DEF Days, a, b

\* created_at::date + term < current_date, in hours: more than the term has passed, and
\* a day past the term always suffices.
LEMMA TermInHours ==
  ASSUME NEW c \in Int, NEW n \in Int, NEW T \in Nat
  PROVE  /\ UtcDay(c) + T < UtcDay(n) => n - c > 24 * T
         /\ n - c >= 24 * (T + 1) => UtcDay(c) + T < UtcDay(n)
BY DEF UtcDay

-----------------------------------------------------------------------------
(* Types, and what each step keeps *)

Stamped(S, instants) == {[x EXCEPT !.ref = t] : x \in S, t \in instants}

TaxRows == Stamped(Taxes, {24 * x.month + 3 : x \in Taxes})
NoteRows == Stamped(Notes, Clock \cup {n.ref : n \in Notes})
CostRows == Stamped(Costs, Clock \cup {c.ref : c \in Costs})

TypeOK ==
  /\ now \in Clock
  /\ requests \in [Ids -> Sale \cup {None}] /\ IsFiniteSet(Rows)
  /\ registers \in [taxes : Seq(TaxRows), notes : Seq(NoteRows), costs : Seq(CostRows)]

\* What a sale is never changes, whatever becomes of its payment.
Kept(s) ==
  /\ requests'[s].product = requests[s].product
  /\ requests'[s].client = requests[s].client
  /\ requests'[s].total = requests[s].total
  /\ requests'[s].created = requests[s].created

\* A step of the sales moves a payment, or adds a row.
LEMMA MovesKeeps ==
  ASSUME TypeOK, NEW s \in Ids, NEW from, NEW to \in PaymentStatus,
         NEW plan \in [requested : Clock \cup {None}, at : Clock] \cup {None},
         Moves(s, from, to, plan)
  PROVE  /\ requests' \in [Ids -> Sale \cup {None}] /\ Rows' = Rows
         /\ \A z \in Rows : Kept(z)
<1>1. s \in Ids /\ requests[s] # None /\ requests[s] \in Sale
  BY DEF TypeOK, Moves, Rows
<1> DEFINE r == [requests[s] EXCEPT !.status = to, !.plan = plan]
<1>2. requests' = [requests EXCEPT ![s] = r]
  BY DEF Moves
<1>3. /\ r \in Sale /\ r.product = requests[s].product /\ r.client = requests[s].client
      /\ r.total = requests[s].total /\ r.created = requests[s].created
  BY <1>1 DEF Sale
<1>4. r # None
  BY <1>3, FinanceAssumption
<1> HIDE DEF r
<1> QED BY <1>1, <1>2, <1>3, <1>4 DEF TypeOK, Rows, Kept

\* A sale that opens adds its row, of the type of the rows, and touches no other.
LEMMA OpenKeeps ==
  ASSUME TypeOK, NEW s \in Ids, NEW offer \in Offers, OpenSale(s, offer)
  PROVE  /\ requests' \in [Ids -> Sale \cup {None}]
         /\ s \notin Rows /\ Rows' = Rows \cup {s} /\ \A z \in Rows : Kept(z)
<1> DEFINE r == [product |-> offer.product, client |-> offer.client,
                 total |-> offer.total, created |-> now, status |-> "pending",
                 plan |-> None]
<1>1. requests' = [requests EXCEPT ![s] = r] /\ requests[s] = None
  BY DEF OpenSale
<1>2. r \in Sale
  BY FinanceAssumption DEF Sale, TypeOK, PaymentStatus, Pending
<1>3. r # None
  BY <1>2, FinanceAssumption
<1> HIDE DEF r
<1> QED BY <1>1, <1>2, <1>3 DEF TypeOK, Rows, Kept

\* A step of the sales adds at most one row, and changes nothing that a tab adds up.
LEMMA SalesKeep ==
  ASSUME TypeOK, SaleStep
  PROVE  /\ TypeOK' /\ UNCHANGED <<now, registers, reader>>
         /\ Rows \subseteq Rows' /\ \A z \in Rows : Kept(z)
         /\ Rows' = Rows \/ \E s : s \notin Rows /\ Rows' = Rows \cup {s}
<1>0. PICK s \in Ids :
        \/ \E offer \in Offers : OpenSale(s, offer)
        \/ Reserve(s) \/ Release(s) \/ PixPays(s)
        \/ \E result \in {"simulated", "pending"} : CardPays(s, result)
  BY DEF SaleStep
<1>1. CASE \E offer \in Offers : OpenSale(s, offer)
  <2>1. PICK offer \in Offers : OpenSale(s, offer)
    BY <1>1
  <2>2. UNCHANGED <<now, registers, reader>>
    BY <2>1 DEF OpenSale
  <2>3. IsFiniteSet(Rows')
    BY <2>1, OpenKeeps, FS_AddElement DEF TypeOK
  <2> QED BY <2>1, <2>2, <2>3, OpenKeeps DEF TypeOK
<1>2. CASE Reserve(s) \/ Release(s) \/ PixPays(s)
           \/ \E result \in {"simulated", "pending"} : CardPays(s, result)
  <2>1. PICK from, to \in PaymentStatus,
              plan \in [requested : Clock \cup {None}, at : Clock] \cup {None} :
          Moves(s, from, to, plan)
    BY <1>2 DEF Reserve, Release, PixPays, CardPays, PaymentStatus, Received, Pending,
                Canceled, Simulated, Refunded, TypeOK
  <2>2. UNCHANGED <<now, registers, reader>>
    BY <2>1 DEF Moves
  <2> QED BY <2>1, <2>2, MovesKeeps DEF TypeOK
<1> QED BY <1>0, <1>1, <1>2

Tables == {"taxes", "notes", "costs"}

\* The rows of a register stay where they are.
Longer(table) ==
  /\ DOMAIN registers[table] \subseteq DOMAIN registers'[table]
  /\ \A k \in DOMAIN registers[table] : registers'[table][k] = registers[table][k]

\* A row is inserted in a register.
Appends(table, row) ==
  /\ \/ table = "taxes" /\ row \in TaxRows
     \/ table = "notes" /\ row \in NoteRows
     \/ table = "costs" /\ row \in CostRows
  /\ registers' = [registers EXCEPT ![table] = Append(@, row)]
  /\ UNCHANGED <<now, requests, reader>>

\* Inserting a row in a register keeps its type and the rows that were there.
LEMMA AppendKeeps ==
  ASSUME TypeOK, NEW table \in Tables, NEW row, Appends(table, row)
  PROVE  /\ TypeOK' /\ Added' = Added + 1 /\ \A t \in Tables : Longer(t)
<1> DEFINE rows == Cardinality(Rows)
           i == Len(registers.taxes)
           j == Len(registers.notes)
           k == Len(registers.costs)
           ii == Len(registers'.taxes)
           jj == Len(registers'.notes)
           kk == Len(registers'.costs)
<1>1. i \in Nat /\ j \in Nat /\ k \in Nat /\ rows \in Nat
  BY FS_CardinalityType DEF TypeOK
<1>2. Rows' = Rows
  BY DEF Rows, Appends
<1>3. Added = rows + i + j + k /\ Added' = rows + ii + jj + kk
  BY <1>2 DEF Added
<1>4. /\ registers' \in [taxes : Seq(TaxRows), notes : Seq(NoteRows), costs : Seq(CostRows)]
      /\ Longer("taxes") /\ Longer("notes") /\ Longer("costs") /\ Added' = Added + 1
  <2>1. CASE table = "taxes"
    <3>1. row \in TaxRows
          /\ registers' = [taxes |-> Append(registers.taxes, row),
                    notes |-> registers.notes,
                    costs |-> registers.costs]
      BY <2>1 DEF TypeOK, Appends
    <3>2. registers' \in [taxes : Seq(TaxRows), notes : Seq(NoteRows), costs : Seq(CostRows)]
      <4>1. Append(registers.taxes, row) \in Seq(TaxRows)
        BY <3>1 DEF TypeOK
      <4> QED BY <3>1, <4>1 DEF TypeOK
    <3>3. Longer("taxes") /\ Longer("notes") /\ Longer("costs")
      BY <3>1 DEF TypeOK, Longer
    <3>4. ii = i + 1 /\ jj = j /\ kk = k
      BY <3>1 DEF TypeOK
    <3>5. Added' = Added + 1
      <4> HIDE DEF i, j, k, ii, jj, kk, rows
      <4> QED BY <1>1, <1>3, <3>4
    <3> QED BY <3>2, <3>3, <3>5
  <2>2. CASE table = "notes"
    <3>1. row \in NoteRows
          /\ registers' = [taxes |-> registers.taxes,
                    notes |-> Append(registers.notes, row),
                    costs |-> registers.costs]
      BY <2>2 DEF TypeOK, Appends
    <3>2. registers' \in [taxes : Seq(TaxRows), notes : Seq(NoteRows), costs : Seq(CostRows)]
      <4>1. Append(registers.notes, row) \in Seq(NoteRows)
        BY <3>1 DEF TypeOK
      <4> QED BY <3>1, <4>1 DEF TypeOK
    <3>3. Longer("taxes") /\ Longer("notes") /\ Longer("costs")
      BY <3>1 DEF TypeOK, Longer
    <3>4. ii = i /\ jj = j + 1 /\ kk = k
      BY <3>1 DEF TypeOK
    <3>5. Added' = Added + 1
      <4> HIDE DEF i, j, k, ii, jj, kk, rows
      <4> QED BY <1>1, <1>3, <3>4
    <3> QED BY <3>2, <3>3, <3>5
  <2>3. CASE table = "costs"
    <3>1. row \in CostRows
          /\ registers' = [taxes |-> registers.taxes,
                    notes |-> registers.notes,
                    costs |-> Append(registers.costs, row)]
      BY <2>3 DEF TypeOK, Appends
    <3>2. registers' \in [taxes : Seq(TaxRows), notes : Seq(NoteRows), costs : Seq(CostRows)]
      <4>1. Append(registers.costs, row) \in Seq(CostRows)
        BY <3>1 DEF TypeOK
      <4> QED BY <3>1, <4>1 DEF TypeOK
    <3>3. Longer("taxes") /\ Longer("notes") /\ Longer("costs")
      BY <3>1 DEF TypeOK, Longer
    <3>4. ii = i /\ jj = j /\ kk = k + 1
      BY <3>1 DEF TypeOK
    <3>5. Added' = Added + 1
      <4> HIDE DEF i, j, k, ii, jj, kk, rows
      <4> QED BY <1>1, <1>3, <3>4
    <3> QED BY <3>2, <3>3, <3>5
  <2> QED BY <2>1, <2>2, <2>3 DEF Tables
<1>5. TypeOK'
  BY <1>2, <1>4 DEF TypeOK, Appends
<1> QED BY <1>4, <1>5 DEF Tables

\* A row with a date of its own is among the stamped rows.
LEMMA StampedIs ==
  ASSUME NEW S, NEW x \in S, NEW T, NEW t \in T
  PROVE  [x EXCEPT !.ref = t] \in Stamped(S, T)
BY DEF Stamped

\* Each registration (CreateTax, CreateFiscalDocument, CreateApiCost) inserts one row.
LEMMA RegisterKeeps ==
  ASSUME TypeOK, Register
  PROVE  /\ TypeOK' /\ UNCHANGED <<now, requests, reader>>
         /\ Added' = Added + 1 /\ \A t \in Tables : Longer(t)
<1>1. \E table \in Tables : \E row : Appends(table, row)
  <2>1. ASSUME NEW x \in Taxes, CreateTax(x)
        PROVE  Appends("taxes", [x EXCEPT !.ref = 24 * x.month + 3])
    <3>1. [x EXCEPT !.ref = 24 * x.month + 3] \in TaxRows
      BY DEF TaxRows, Stamped
    <3> QED BY <2>1, <3>1 DEF CreateTax, Insert, Appends
  <2>2. ASSUME NEW n \in Notes, CreateFiscalDocument(n)
        PROVE  Appends("notes", Dated(n))
    <3>1. PICK t \in Clock \cup {y.ref : y \in Notes} : Dated(n) = [n EXCEPT !.ref = t]
      BY DEF Dated, TypeOK
    <3>2. Dated(n) \in NoteRows
      BY <3>1, StampedIs DEF NoteRows
    <3> QED BY <2>2, <3>2 DEF CreateFiscalDocument, Insert, Appends
  <2>3. ASSUME NEW c \in Costs, CreateApiCost(c)
        PROVE  Appends("costs", Dated(c))
    <3>1. PICK t \in Clock \cup {y.ref : y \in Costs} : Dated(c) = [c EXCEPT !.ref = t]
      BY DEF Dated, TypeOK
    <3>2. Dated(c) \in CostRows
      BY <3>1, StampedIs DEF CostRows
    <3> QED BY <2>3, <3>2 DEF CreateApiCost, Insert, Appends
  <2> QED BY <2>1, <2>2, <2>3 DEF Register, Tables
<1>2. UNCHANGED <<now, requests, reader>>
  BY <1>1 DEF Appends
<1> QED BY <1>1, <1>2, AppendKeeps

\* The columns that the tabs add up
LEMMA Columns ==
  ASSUME TypeOK
  PROVE  /\ \A s \in Rows : OrZero(requests[s].total) \in Nat
         /\ \A s \in Rows : requests[s].created \in Int
         /\ \A s \in Rows : requests[s].status \in PaymentStatus
         /\ \A k \in DOMAIN registers.taxes : BestKnown(registers.taxes[k]) \in Nat
         /\ \A k \in DOMAIN registers.costs :
              registers.costs[k].quantity * registers.costs[k].unit \in Nat
<1>1. ASSUME NEW s \in Rows PROVE requests[s] \in Sale
  BY DEF Rows, TypeOK
<1>2. ASSUME NEW x \in TaxRows PROVE BestKnown(x) \in Nat
  <2>1. PICK y \in Taxes : \E t : x = [y EXCEPT !.ref = t]
    BY DEF TaxRows, Stamped
  <2>2. x.estimated = y.estimated /\ x.confirmed = y.confirmed
    BY <2>1, FinanceAssumption
  <2> QED BY <2>2, FinanceAssumption DEF BestKnown
<1>3. ASSUME NEW x \in CostRows PROVE x.quantity * x.unit \in Nat
  <2>1. PICK y \in Costs : \E t : x = [y EXCEPT !.ref = t]
    BY DEF CostRows, Stamped
  <2>2. x.quantity = y.quantity /\ x.unit = y.unit
    BY <2>1, FinanceAssumption
  <2>3. y.quantity \in Nat /\ y.unit \in Nat
    BY FinanceAssumption
  <2>4. \A i, j \in Nat : i * j \in Nat
    OBVIOUS
  <2> QED BY <2>2, <2>3, <2>4
<1>4. ASSUME NEW k \in DOMAIN registers.taxes PROVE registers.taxes[k] \in TaxRows
  BY DEF TypeOK
<1>5. ASSUME NEW k \in DOMAIN registers.costs PROVE registers.costs[k] \in CostRows
  BY DEF TypeOK
<1> QED BY <1>1, <1>2, <1>3, <1>4, <1>5 DEF Sale, OrZero

-----------------------------------------------------------------------------
(* Every step keeps the types; the term and the month *)

\* Initially there is at most one sale, and the registers are empty.
LEMMA InitTypeOK ==
  ASSUME Init
  PROVE  TypeOK
<1>1. requests \in [Ids -> Sale \cup {None}]
  BY FinanceAssumption DEF Init
<1>2. IsFiniteSet(Rows)
  <2>1. CASE Rows = {}
    BY <2>1, FS_EmptySet
  <2>2. CASE Rows # {}
    <3>1. PICK s : s \in Rows
      BY <2>2
    <3>2. Rows = {s}
      BY <3>1 DEF Init
    <3> QED BY <3>2, FS_Singleton
  <2> QED BY <2>1, <2>2
<1>3. registers \in [taxes : Seq(TaxRows), notes : Seq(NoteRows), costs : Seq(CostRows)]
  BY DEF Init
<1> QED BY <1>1, <1>2, <1>3 DEF Init, TypeOK

\* The reader and the clock write no table.
LEMMA ReadersWriteNothing ==
  ASSUME Read \/ PassTime
  PROVE  UNCHANGED <<requests, registers>>
BY DEF Read, PassTime, StartPaging, StartReport, ListPage, CountPage, NextPage,
       NextStatement, Close

\* No statement of the reader moves the clock.
LEMMA ReadersLeaveTheClock ==
  ASSUME Read
  PROVE  UNCHANGED now
BY DEF Read, StartPaging, StartReport, ListPage, CountPage, NextPage,
       NextStatement, Close

\* The clock goes to its next instant, and nothing else happens.
LEMMA PassTimeKeeps ==
  ASSUME TypeOK, PassTime
  PROVE  /\ now' \in Clock /\ now < now' /\ UNCHANGED <<requests, registers, reader>>
         /\ \A u \in Clock : now < u => now' <= u
BY DEF PassTime

\* With the same tables, the same rows.
LEMMA SameRows ==
  ASSUME UNCHANGED <<requests, registers>>
  PROVE  /\ Rows' = Rows /\ Added' = Added
         /\ \A days : Sold(days)' = Sold(days)
BY DEF Rows, Added, Sold

\* Every step keeps the types.
LEMMA TypeStep ==
  ASSUME TypeOK, [Next]_vars
  PROVE  TypeOK'
<1>1. CASE SaleStep
  BY <1>1, SalesKeep
<1>2. CASE PassTime
  BY <1>2, PassTimeKeeps, SameRows DEF TypeOK
<1>3. CASE Register
  BY <1>3, RegisterKeeps
<1>4. CASE Read
  BY <1>4, ReadersWriteNothing, ReadersLeaveTheClock, SameRows DEF TypeOK
<1>5. CASE UNCHANGED vars
  BY <1>5, SameRows DEF vars, TypeOK
<1> QED BY <1>1, <1>2, <1>3, <1>4, <1>5 DEF Next

\* The clock, public.requests and the registers keep their types in every run, and the
\* rows stay finite.
THEOREM TypeInvariance == Spec => []TypeOK
<1>1. Init => TypeOK
  BY InitTypeOK
<1>2. TypeOK /\ [Next]_vars => TypeOK'
  BY TypeStep
<1> QED BY <1>1, <1>2, PTL DEF Spec

\* receivables.py:8, for any term, calendar and hours: a receivable is overdue only after
\* its term of whole days, and a day later at most.
THEOREM TermKept == Spec => []TermIsKept
<1>1. TypeOK => TermIsKept
  <2> SUFFICES ASSUME TypeOK, NEW s \in Rows
               PROVE  /\ Late(s) => now - requests[s].created > 24 * Term
                      /\ now - requests[s].created >= 24 * (Term + 1) => Late(s)
    BY DEF TermIsKept, With
  <2>1. requests[s].created \in Int /\ now \in Int /\ Term \in Nat
    BY Columns, FinanceAssumption DEF TypeOK
  <2> QED BY <2>1, TermInHours DEF Late, Due
<1> QED BY <1>1, TypeInvariance, PTL

\* period.py:48, for any calendar of months of 28 to 31 days and any registers: when the
\* month changes, last month's tabs show what the month's showed, and the two share no sale.
THEOREM MonthsHandOver == Spec => MonthHandsOver
<1>1. ASSUME TypeOK, [Next]_vars, now # now', Month # Month'
      PROVE  /\ Sold(Preset("lastMonth"))' = Sold(Preset("month"))
             /\ Payments(Preset("lastMonth"))' = Payments(Preset("month"))
             /\ Levied(Preset("lastMonth"))' = Levied(Preset("month"))
             /\ (Sold(Preset("lastMonth")) \cap Sold(Preset("month")))' = {}
  <2>1. PassTime
    BY <1>1, SalesKeep, RegisterKeeps, ReadersLeaveTheClock DEF Next, vars
  <2>2. now \in Clock
    BY <1>1 DEF TypeOK
  <2>3. /\ now' \in Clock /\ now < now' /\ UNCHANGED <<requests, registers>>
        /\ \A u \in Clock : now < u => now' <= u
    BY <1>1, <2>1, PassTimeKeeps
  <2>4. FirstOf(MonthStarts, BrDay(now)) # FirstOf(MonthStarts, BrDay(now'))
    BY <1>1 DEF Month
  <2>5. /\ Days("lastMonth", BrDay(now')) = Days("month", BrDay(now))
        /\ Days("lastMonth", BrDay(now'))[2] = Days("month", BrDay(now'))[1]
        /\ Days("lastMonth", BrDay(now'))[2] \in Int
    BY <2>2, <2>3, <2>4, MonthBecomesLast
  <2>6. ASSUME NEW s \in Rows', Within(requests'[s].created, Days("lastMonth", BrDay(now'))),
               Within(requests'[s].created, Days("month", BrDay(now')))
        PROVE  FALSE
    <3>1. requests'[s].created \in Int
      BY <1>1, <2>3, Columns DEF Rows
    <3>2. BrDay(requests'[s].created) \in Int
      BY <3>1, DayOf
    <3> QED BY <2>5, <2>6, <3>2 DEF Within
  <2>7. (Sold(Preset("lastMonth")) \cap Sold(Preset("month")))' = {}
    BY <2>6 DEF Sold, Preset
  <2>8. Sold(Preset("lastMonth"))' = Sold(Preset("month"))
    BY <2>3, <2>5 DEF Sold, Rows, Preset
  <2>9. Payments(Preset("lastMonth"))' = Payments(Preset("month"))
    BY <2>3, <2>5 DEF Payments, Rows, PaidAt, Preset
  <2>10. Levied(Preset("lastMonth"))' = Levied(Preset("month"))
    BY <2>3, <2>5 DEF Levied, In, Preset
  <2> QED BY <2>7, <2>8, <2>9, <2>10
<1>2. TypeOK /\ [Next]_vars
      => [now # now' /\ Month # Month'
           => /\ Sold(Preset("lastMonth"))' = Sold(Preset("month"))
              /\ Payments(Preset("lastMonth"))' = Payments(Preset("month"))
              /\ Levied(Preset("lastMonth"))' = Levied(Preset("month"))
              /\ (Sold(Preset("lastMonth")) \cap Sold(Preset("month")))' = {}]_vars
  BY <1>1
<1> QED BY <1>2, TypeInvariance, PTL DEF Spec, MonthHandsOver

-----------------------------------------------------------------------------
(* The tabs over requests *)

\* A breakdown sums to the total of what it breaks down.
LEMMA BreakdownAddsUp ==
  ASSUME NEW S, IsFiniteSet(S), NEW amount, DOMAIN amount = S, \A x \in S : amount[x] \in Int,
         NEW key, DOMAIN key = S
  PROVE  SumFunction(Grouped(key, amount)) = SumFunction(amount)
<1> DEFINE h == Grouped(key, amount)
<1>1. DOMAIN h = {key[x] : x \in S}
  BY DEF Grouped, Range
<1>2. \A x \in S : h[key[x]] = SumFunctionOnSet(amount, {y \in S : key[y] = key[x]})
  BY DEF Grouped, Range
<1> HIDE DEF h
<1>3. SumFunctionOnSet(h, {key[x] : x \in S}) = SumFunctionOnSet(amount, S)
  BY <1>2, SumGroups
<1> QED BY <1>1, <1>3 DEF h, SumFunction

\* The cents of sales are a sum over any sales they are among.
LEMMA CentsOver ==
  ASSUME TypeOK, NEW S, S \subseteq Rows, NEW T, T \subseteq S
  PROVE  /\ IsFiniteSet(T) /\ Cents(T) = SumFunctionOnSet(Totals(S), T)
         /\ \A s \in S : Totals(S)[s] \in Nat
<1>1. IsFiniteSet(T)
  BY FS_Subset DEF TypeOK
<1>2. \A s \in T : Totals(T)[s] = Totals(S)[s]
  BY DEF Totals
<1>3. DOMAIN Totals(T) = T
  BY DEF Totals
<1>4. SumFunctionOnSet(Totals(T), T) = SumFunctionOnSet(Totals(S), T)
  BY <1>1, <1>2, SumSame
<1>5. \A s \in S : Totals(S)[s] \in Nat
  BY Columns DEF Totals
<1> QED BY <1>1, <1>3, <1>4, <1>5 DEF Cents, SumFunction

\* The cents of two disjoint sets of sales add up.
LEMMA CentsUnion ==
  ASSUME TypeOK, NEW T, T \subseteq Rows, NEW U, U \subseteq Rows, T \cap U = {}
  PROVE  /\ Cents(T \cup U) = Cents(T) + Cents(U)
         /\ Cents(T) \in Nat /\ Cents(U) \in Nat
<1> DEFINE S == T \cup U
           f == Totals(S)
<1>1. /\ IsFiniteSet(T) /\ Cents(T) = SumFunctionOnSet(f, T)
      /\ IsFiniteSet(U) /\ Cents(U) = SumFunctionOnSet(f, U)
      /\ Cents(S) = SumFunctionOnSet(f, S) /\ \A s \in S : f[s] \in Nat
  BY CentsOver
<1> HIDE DEF f
<1>2. SumFunctionOnSet(f, S) = SumFunctionOnSet(f, T) + SumFunctionOnSet(f, U)
  BY <1>1, SumUnion
<1>3. SumFunctionOnSet(f, T) \in Nat /\ SumFunctionOnSet(f, U) \in Nat
  BY <1>1, SumNat
<1> QED BY <1>1, <1>2, <1>3

\* The rows that a group of BySaleStatus adds up
LEMMA GroupOfSales ==
  ASSUME TypeOK, NEW days, NEW st, NEW bucket,
         \A x \in PaymentStatus : SaleStatus(x) = st <=> x \in bucket
  PROVE  (IF st \in DOMAIN BySaleStatus(days) THEN BySaleStatus(days)[st] ELSE 0)
           = Cents(With(Sold(days), bucket))
<1> DEFINE S == Sold(days)
           T == With(S, bucket)
           key == [s \in S |-> SaleStatus(requests[s].status)]
<1>1. S \subseteq Rows /\ T \subseteq S
  BY DEF Sold, With
<1>2. Cents(T) = SumFunctionOnSet(Totals(S), T)
  BY <1>1, CentsOver
<1>3. T = {s \in S : key[s] = st}
  BY <1>1, Columns DEF With
<1>4. BySaleStatus(days) = Grouped(key, Totals(S))
  BY DEF BySaleStatus
<1>5. DOMAIN key = S
  OBVIOUS
<1> HIDE DEF key, S, T
<1>6. CASE st \in Range(key)
  <2>1. st \in DOMAIN BySaleStatus(days)
    BY <1>4, <1>6 DEF Grouped
  <2>2. BySaleStatus(days)[st] = SumFunctionOnSet(Totals(S), T)
    BY <1>3, <1>4, <1>5, <1>6 DEF Grouped
  <2> QED BY <1>2, <2>1, <2>2 DEF S, T
<1>7. CASE st \notin Range(key)
  <2>1. T = {}
    BY <1>3, <1>5, <1>7 DEF Range
  <2>2. Cents(T) = 0
    BY <1>2, <2>1, SumEmpty
  <2>3. st \notin DOMAIN BySaleStatus(days)
    BY <1>4, <1>7 DEF Grouped
  <2> QED BY <2>2, <2>3 DEF S, T
<1> QED BY <1>6, <1>7

\* The buckets of buckets.py share out the statuses.
LEMMA BucketsShareOut ==
  ASSUME TypeOK, NEW S, S \subseteq Rows
  PROVE  Cents(S) = Cents(With(S, Received)) + Cents(With(S, Pending))
                      + Cents(With(S, Canceled)) + Cents(With(S, Simulated))
                      + Cents(With(S, Refunded))
<1> DEFINE R == With(S, Received)
           P == With(S, Pending)
           C == With(S, Canceled)
           M == With(S, Simulated)
           F == With(S, Refunded)
           PC == P \cup (C \cup (M \cup F))
<1>1. S = R \cup PC
  BY Columns DEF With, PaymentStatus
<1>2. /\ R \cap PC = {} /\ P \cap (C \cup (M \cup F)) = {}
      /\ C \cap (M \cup F) = {} /\ M \cap F = {}
  BY DEF With, Received, Pending, Canceled, Simulated, Refunded
<1>3. /\ R \subseteq Rows /\ P \subseteq Rows /\ C \subseteq Rows
      /\ M \subseteq Rows /\ F \subseteq Rows
  BY DEF With
<1> HIDE DEF R, P, C, M, F
<1>4. Cents(M \cup F) = Cents(M) + Cents(F) /\ Cents(M) \in Nat /\ Cents(F) \in Nat
  BY <1>2, <1>3, CentsUnion
<1>5. Cents(C \cup (M \cup F)) = Cents(C) + Cents(M \cup F) /\ Cents(C) \in Nat
  BY <1>2, <1>3, CentsUnion
<1>6. Cents(PC) = Cents(P) + Cents(C \cup (M \cup F)) /\ Cents(P) \in Nat
  BY <1>2, <1>3, CentsUnion
<1>7. Cents(R \cup PC) = Cents(R) + Cents(PC) /\ Cents(R) \in Nat
  BY <1>2, <1>3, CentsUnion
<1> HIDE DEF PC
<1>8. Cents(R \cup PC)
        = Cents(R) + Cents(P) + Cents(C) + Cents(M) + Cents(F)
  BY <1>4, <1>5, <1>6, <1>7
<1> QED BY <1>1, <1>8 DEF R, P, C, M, F

\* receivables.py: overdue and not yet due make up the pending bucket.
LEMMA ReceivablesAddUp ==
  ASSUME TypeOK, NEW days
  PROVE  /\ Receivables(days).total = Overview(days).pending
         /\ Overview(days).pending = Receivables(days).overdue + Receivables(days).due
<1> DEFINE S == With(Sold(days), Pending)
           T == {s \in S : Late(s)}
           U == {s \in S : ~Late(s)}
<1>1. T \subseteq Rows /\ U \subseteq Rows /\ T \cap U = {} /\ T \cup U = S
  BY DEF With, Sold
<1>2. Cents(S) = Cents(T) + Cents(U)
  <2> HIDE DEF S, T, U
  <2> QED BY <1>1, CentsUnion
<1> QED BY <1>2 DEF Receivables, Overview

\* Any grouping of the sales of a period (by product, by client) adds up to the gross.
LEMMA SalesBreakDown ==
  ASSUME TypeOK, NEW days, NEW key, DOMAIN key = Sold(days)
  PROVE  SumFunction(Grouped(key, Totals(Sold(days)))) = Gross(days)
<1> DEFINE S == Sold(days)
<1>1. S \subseteq Rows
  BY DEF Sold
<1>2. IsFiniteSet(S) /\ \A s \in S : Totals(S)[s] \in Int
  <2>1. \A s \in S : Totals(S)[s] \in Nat
    BY <1>1, CentsOver
  <2> QED BY <1>1, <2>1, CentsOver
<1>3. DOMAIN Totals(S) = S
  BY DEF Totals
<1> DEFINE f == Totals(S)
<1> HIDE DEF S, f
<1>4. SumFunction(Grouped(key, f)) = SumFunction(f)
  BY <1>2, <1>3, BreakdownAddsUp DEF S, f
<1> QED BY <1>4 DEF S, f, Gross, Cents

\* buckets.py:13, for any sales: every tab over requests sums to the overview.
THEOREM TabsAgree == Spec => []TabsReconcile
<1>1. ASSUME TypeOK, NEW days
      PROVE  LET o == Overview(days)
                 sales == BySaleStatus(days)
                 Of(st) == IF st \in DOMAIN sales THEN sales[st] ELSE 0
             IN /\ o.gross = o.received + o.pending + o.canceled + o.simulated + o.refunded
                /\ o.gross = SumFunction(ByProduct(days))
                /\ o.gross = SumFunction(ByClient(days))
                /\ Of("paid") = o.received /\ Of("pending") = o.pending
                /\ Of("canceled") = o.canceled
                /\ Receivables(days).total = o.pending
                /\ o.pending = Receivables(days).overdue + Receivables(days).due
  <2> DEFINE o == Overview(days)
  <2>0. Sold(days) \subseteq Rows
    BY DEF Sold
  <2>1. o.gross = o.received + o.pending + o.canceled + o.simulated + o.refunded
    BY <1>1, <2>0, BucketsShareOut DEF Overview
  <2>2. o.gross = Gross(days)
    BY DEF Overview, Gross
  <2>3. Gross(days) = SumFunction(ByProduct(days))
    BY <1>1, SalesBreakDown DEF ByProduct
  <2>4. Gross(days) = SumFunction(ByClient(days))
    BY <1>1, SalesBreakDown DEF ByClient, Joined
  <2> DEFINE Of(st) == IF st \in DOMAIN BySaleStatus(days)
                       THEN BySaleStatus(days)[st] ELSE 0
  <2>5. Of("paid") = o.received
    <3>1. \A x \in PaymentStatus : SaleStatus(x) = "paid" <=> x \in Received
      BY DEF SaleStatus, PaymentStatus, Received, Pending, Canceled, Simulated, Refunded
    <3> QED BY <1>1, <3>1, GroupOfSales DEF Overview
  <2>6. Of("pending") = o.pending
    <3>1. \A x \in PaymentStatus : SaleStatus(x) = "pending" <=> x \in Pending
      BY DEF SaleStatus, PaymentStatus, Received, Pending, Canceled, Simulated, Refunded
    <3> QED BY <1>1, <3>1, GroupOfSales DEF Overview
  <2>7. Of("canceled") = o.canceled
    <3>1. \A x \in PaymentStatus : SaleStatus(x) = "canceled" <=> x \in Canceled
      BY DEF SaleStatus, PaymentStatus, Received, Pending, Canceled, Simulated, Refunded
    <3> QED BY <1>1, <3>1, GroupOfSales DEF Overview
  <2> HIDE DEF o
  <2> QED BY <1>1, <2>1, <2>2, <2>3, <2>4, <2>5, <2>6, <2>7, ReceivablesAddUp DEF o
<1>2. TypeOK => TabsReconcile
  BY <1>1 DEF TabsReconcile
<1> QED BY <1>2, TypeInvariance, PTL

-----------------------------------------------------------------------------
(* Paging *)

\* The rows of the period that come before s in the order of the pages.
Before(s, days) == {z \in Sold(days) : Newer(z, s)}

\* created_at and id are a total order of the rows.
LEMMA NewerIsTotal ==
  ASSUME TypeOK, NEW s \in Rows, NEW z \in Rows
  PROVE  /\ ~Newer(s, s) /\ (s # z => Newer(s, z) \/ Newer(z, s))
         /\ Newer(s, z) => ~Newer(z, s)
<1>1. s \in Int /\ z \in Int
  BY FinanceAssumption DEF Rows
<1>2. requests[s].created \in Int /\ requests[z].created \in Int
  BY Columns
<1> QED BY <1>1, <1>2 DEF Newer

\* A row is listed after as many rows as come before it.
LEMMA Position ==
  ASSUME TypeOK, NEW days, NEW q \in Sorted(Sold(days))
  PROVE  LET n == Cardinality(Sold(days))
         IN /\ n \in Nat /\ DOMAIN q = 1..n
            /\ \A i \in 1..n : /\ q[i] \in Sold(days)
                               /\ Cardinality(Before(q[i], days)) = i - 1
            /\ \A s \in Sold(days) : \E i \in 1..n : s = q[i]
<1> DEFINE S == Sold(days)
           n == Cardinality(S)
<1>1. S \subseteq Rows
  BY DEF Sold
<1>2. IsFiniteSet(S) /\ n \in Nat
  BY <1>1, FS_Subset, FS_CardinalityType DEF TypeOK
<1> HIDE DEF S
<1>3. /\ q \in [1..n -> S] /\ \A i, j \in 1..n : i # j => q[i] # q[j]
      /\ \A i, j \in 1..n : i < j => ~Newer(q[j], q[i])
  BY DEF Sorted, SetToSeqs, S
<1>4. q \in Injection(1..n, S)
  BY <1>3 DEF Injection, IsInjective
<1>5. Cardinality(1..n) = n
  BY <1>2, FS_Interval
<1>6. q \in Surjection(1..n, S)
  BY <1>2, <1>4, <1>5, FS_Injection
<1>7. \A s \in S : \E i \in 1..n : s = q[i]
  BY <1>6 DEF Surjection
<1>8. ASSUME NEW i \in 1..n
      PROVE  Cardinality(Before(q[i], days)) = i - 1
  <2> DEFINE B == Before(q[i], days)
             f == [j \in 1..(i - 1) |-> q[j]]
  <2>1. \A j \in 1..n : q[j] \in B <=> j < i
    <3> SUFFICES ASSUME NEW j \in 1..n PROVE Newer(q[j], q[i]) <=> j < i
      BY <1>3 DEF Before, S
    <3>1. q[i] \in Rows /\ q[j] \in Rows
      BY <1>1, <1>3
    <3>2. i \in Int /\ j \in Int
      BY <1>2
    <3> QED BY <1>3, <3>1, <3>2, NewerIsTotal
  <2>2. B \subseteq S
    BY DEF Before, S
  <2>3. f \in [1..(i - 1) -> B]
    BY <1>2, <2>1
  <2>4. f \in Injection(1..(i - 1), B)
    BY <1>2, <1>3, <2>3 DEF Injection, IsInjective
  <2>5. f \in Surjection(1..(i - 1), B)
    <3>1. ASSUME NEW z \in B PROVE \E j \in 1..(i - 1) : f[j] = z
      <4>1. PICK j \in 1..n : z = q[j]
        BY <1>7, <2>2
      <4>2. j \in 1..(i - 1)
        BY <1>2, <2>1, <4>1
      <4> QED BY <4>1, <4>2
    <3> QED BY <2>3, <3>1 DEF Surjection
  <2>6. IsFiniteSet(B)
    BY <1>2, <2>2, FS_Subset
  <2>7. Cardinality(1..(i - 1)) = Cardinality(B)
    <3> HIDE DEF B, f
    <3> QED BY <2>4, <2>5, <2>6, FS_Injection
  <2>8. Cardinality(1..(i - 1)) = i - 1
    BY <1>2, FS_Interval
  <2> QED BY <2>7, <2>8
<1> QED BY <1>2, <1>3, <1>7, <1>8 DEF S

\* A later period, with no fewer rows, has no fewer rows before a row that both
\* periods contain.
LEMMA BeforeGrows ==
  ASSUME TypeOK, NEW s \in Rows, NEW d \in Int \X Int, NEW e \in Int \X Int,
         d[1] <= e[1], d[2] <= e[2], s \in Sold(e)
  PROVE  Cardinality(Before(s, d)) <= Cardinality(Before(s, e))
<1>1. IsFiniteSet(Before(s, e))
  BY FS_Subset DEF Before, Sold, TypeOK
<1>2. Before(s, d) \subseteq Before(s, e)
  <2> SUFFICES ASSUME NEW z \in Rows, Newer(z, s), Within(requests[z].created, d)
               PROVE  Within(requests[z].created, e)
    BY DEF Before, Sold
  <2>1. requests[z].created \in Int /\ requests[s].created \in Int
    BY Columns
  <2>2. requests[s].created <= requests[z].created
    BY <2>1 DEF Newer
  <2>3. /\ BrDay(requests[s].created) \in Int /\ BrDay(requests[z].created) \in Int
        /\ BrDay(requests[s].created) <= BrDay(requests[z].created)
    BY <2>1, <2>2, DayOf
  <2> QED BY <2>3 DEF Within, Sold
<1> QED BY <1>1, <1>2, FS_Subset

\* The same over a step of the sales.
LEMMA BeforeStays ==
  ASSUME TypeOK, TypeOK', Rows \subseteq Rows', \A z \in Rows : Kept(z),
         NEW s \in Rows, NEW days
  PROVE  /\ (s \in Sold(days))' <=> s \in Sold(days)
         /\ Cardinality(Before(s, days)) <= Cardinality(Before(s, days)')
<1>1. IsFiniteSet(Before(s, days)')
  BY FS_Subset DEF Before, Sold, TypeOK
<1>2. Before(s, days) \subseteq Before(s, days)'
  BY DEF Before, Sold, Kept, Newer
<1> QED BY <1>1, <1>2, FS_Subset DEF Sold, Kept

\* The page after which list_sales has no more: the pages so far hold all the rows.
LEMMA LastPage ==
  ASSUME NEW n \in Nat, NEW size \in Nat \ {0}, NEW page \in Nat,
         ~(page < (n + size - 1) \div size)
  PROVE  n <= size * page
<1> DEFINE q == (n + size - 1) \div size
           r == (n + size - 1) % size
<1>1. q \in Int /\ r \in Int /\ r < size /\ n + size - 1 = size * q + r
  OBVIOUS
<1> HIDE DEF q, r
<1>2. n <= size * q
  <2>1. size * q \in Int
    BY <1>1
  <2> QED BY <1>1, <2>1
<1>3. size * q <= size * page
  BY <1>1 DEF q
<1> QED BY <1>1, <1>2, <1>3

\* How many rows the pages listed so far hold.
Listed == PageSize * (IF reader.pc = "count" THEN reader.page ELSE reader.page - 1)

Paging ==
  [pc : {"list", "count", "next", "done"}, period : Presets, page : Nat \ {0},
   days : Int \X Int, first : (SUBSET Ids) \cup {None}, shown : SUBSET Ids]

Sequence(s) == Len(s) \in Nat /\ s = [k \in 1..Len(s) |-> s[k]]

Reporting ==
  [pc : {"report", "printed"}, days : Int \X Int, statements : Reports,
   before : Nat, got : {s \in {reader.got} : Sequence(s)}]

ReaderOK == reader = Idle \/ reader \in Paging \/ reader \in Reporting

\* Between two pages: the period has not moved back, and a row of the first page's
\* period that was not shown yet has a full page before it for each page listed.
Unshown == (reader.first \cap Sold(reader.days)) \ reader.shown

PagingInv ==
  reader \in Paging =>
    /\ reader.days[1] <= Preset(reader.period)[1]
    /\ reader.days[2] <= Preset(reader.period)[2]
    /\ ~(reader.pc = "list" /\ reader.page = 1) =>
         /\ reader.first \subseteq Rows
         /\ \A s \in reader.first : BrDay(requests[s].created) < reader.days[2]
         /\ \A s \in Unshown :
              reader.pc # "done" /\ Listed <= Cardinality(Before(s, reader.days))

\* Between two statements of the reader, the rest goes on: rows are kept, time does
\* not go back, and the number of rows tells whether there are new ones.
GoesOn ==
  /\ reader' = reader /\ now <= now'
  /\ Rows \subseteq Rows' /\ \A z \in Rows : Kept(z)
  /\ \A t \in Tables : Longer(t)
  /\ Added <= Added' /\ (Added' = Added => Rows' = Rows /\ UNCHANGED registers)

\* The number of rows added is a number, and a new sale adds one to it.
LEMMA AddedIs ==
  ASSUME TypeOK
  PROVE  /\ Added \in Nat
         /\ UNCHANGED registers /\ (\E s : s \notin Rows /\ Rows' = Rows \cup {s})
              => Added' = Added + 1
<1> DEFINE rows == Cardinality(Rows)
           i == Len(registers.taxes)
           j == Len(registers.notes)
           k == Len(registers.costs)
<1>1. rows \in Nat /\ i \in Nat /\ j \in Nat /\ k \in Nat
  BY FS_CardinalityType DEF TypeOK
<1>2. Added = rows + i + j + k
  BY DEF Added
<1>3. Added \in Nat
  <2> HIDE DEF rows, i, j, k
  <2> QED BY <1>1, <1>2
<1>4. ASSUME UNCHANGED registers, NEW s, s \notin Rows, Rows' = Rows \cup {s}
      PROVE  Added' = Added + 1
  <2>1. Added' = Cardinality(Rows') + i + j + k
    BY <1>4 DEF Added
  <2>2. Cardinality(Rows') = rows + 1
    BY <1>4, FS_AddElement DEF TypeOK
  <2> HIDE DEF rows, i, j, k
  <2> QED BY <1>1, <1>2, <2>1, <2>2
<1> QED BY <1>3, <1>4

\* Sales, payments, registrations and the clock let the reader's view go on.
LEMMA OthersGoOn ==
  ASSUME TypeOK, SaleStep \/ PassTime \/ Register \/ UNCHANGED vars
  PROVE  GoesOn
<1>1. now \in Int /\ Added \in Nat
  BY FinanceAssumption, AddedIs DEF TypeOK
<1>2. UNCHANGED requests => Rows' = Rows /\ \A z \in Rows : Kept(z)
  BY DEF Rows, Kept
<1>3. UNCHANGED registers => \A t \in Tables : Longer(t)
  BY DEF Longer
<1>4. UNCHANGED <<requests, registers>> => Added' = Added
  BY SameRows
<1>5. CASE SaleStep
  <2>1. /\ UNCHANGED <<now, registers, reader>>
        /\ Rows \subseteq Rows' /\ \A z \in Rows : Kept(z)
        /\ Rows' = Rows \/ \E s : s \notin Rows /\ Rows' = Rows \cup {s}
    BY <1>5, SalesKeep
  <2>2. CASE Rows' = Rows
    <3>1. Added' = Added
      BY <2>1, <2>2 DEF Added
    <3> QED BY <1>1, <1>3, <2>1, <2>2, <3>1 DEF GoesOn
  <2>3. CASE \E s : s \notin Rows /\ Rows' = Rows \cup {s}
    <3>1. Added' = Added + 1
      BY <2>1, <2>3, AddedIs
    <3> QED BY <1>1, <1>3, <2>1, <3>1 DEF GoesOn
  <2> QED BY <2>1, <2>2, <2>3
<1>6. CASE PassTime
  <2>1. now' \in Clock /\ now < now' /\ UNCHANGED <<requests, registers, reader>>
    BY <1>6, PassTimeKeeps
  <2>2. now <= now'
    BY <1>1, <2>1, FinanceAssumption
  <2> QED BY <1>1, <1>2, <1>3, <1>4, <2>1, <2>2 DEF GoesOn
<1>7. CASE Register
  <2>1. /\ UNCHANGED <<now, requests, reader>>
        /\ Added' = Added + 1 /\ \A t \in Tables : Longer(t)
    BY <1>7, RegisterKeeps
  <2> QED BY <1>1, <1>2, <2>1 DEF GoesOn
<1>8. CASE UNCHANGED vars
  BY <1>1, <1>2, <1>3, <1>4, <1>8 DEF vars, GoesOn
<1> QED BY <1>5, <1>6, <1>7, <1>8

\* What paging relies on survives whatever others do between two statements: a new sale
\* only puts more rows before those not shown yet, and the period only moves forward.
LEMMA PagingGoesOn ==
  ASSUME TypeOK, TypeOK', PagingInv, GoesOn
  PROVE  PagingInv'
<1>1. /\ reader' = reader /\ Rows \subseteq Rows'
      /\ (\A z \in Rows : Kept(z)) /\ now <= now'
  BY DEF GoesOn
<1> SUFFICES ASSUME reader \in Paging
             PROVE  PagingInv'
  BY <1>1 DEF PagingInv, Paging
<1> DEFINE days == reader.days
           period == reader.period
<1>2. days[1] <= Preset(period)'[1] /\ days[2] <= Preset(period)'[2]
  <2>1. period \in Presets /\ now \in Clock /\ now' \in Clock /\ days \in Int \X Int
    BY DEF TypeOK, Paging
  <2>2. /\ Days(period, BrDay(now)) \in Int \X Int
        /\ Days(period, BrDay(now')) \in Int \X Int
        /\ Days(period, BrDay(now))[1] <= Days(period, BrDay(now'))[1]
        /\ Days(period, BrDay(now))[2] <= Days(period, BrDay(now'))[2]
    <3>1. now' <= now'
      BY <2>1, FinanceAssumption
    <3> QED BY <1>1, <2>1, <3>1, PeriodMoves
  <2>3. days[1] <= Days(period, BrDay(now))[1] /\ days[2] <= Days(period, BrDay(now))[2]
    BY DEF PagingInv, Preset
  <2>4. days[1] <= Days(period, BrDay(now'))[1] /\ days[2] <= Days(period, BrDay(now'))[2]
    <3> HIDE DEF days, period
    <3> QED BY <2>1, <2>2, <2>3
  <2>5. Preset(period)' = Days(period, BrDay(now'))
    BY <1>1 DEF Preset
  <2> QED BY <2>4, <2>5
<1>3. ASSUME ~(reader.pc = "list" /\ reader.page = 1)
      PROVE  /\ reader.first \subseteq Rows'
             /\ \A s \in reader.first : BrDay(requests'[s].created) < days[2]
             /\ \A s \in Unshown' :
                  reader.pc # "done" /\ Listed <= Cardinality(Before(s, days)')
  <2>1. /\ reader.first \subseteq Rows
        /\ \A s \in reader.first : BrDay(requests[s].created) < days[2]
        /\ \A s \in Unshown :
             reader.pc # "done" /\ Listed <= Cardinality(Before(s, days))
    BY <1>3 DEF PagingInv
  <2>2. \A s \in reader.first : requests'[s].created = requests[s].created
    BY <1>1, <2>1 DEF Kept
  <2>3. ASSUME NEW s \in Unshown'
        PROVE  reader.pc # "done" /\ Listed <= Cardinality(Before(s, days)')
    <3>1. s \in reader.first /\ s \in Rows /\ s \in Sold(days)' /\ s \notin reader.shown
      BY <1>1, <2>1, <2>3 DEF Unshown
    <3>2. s \in Sold(days) <=> s \in Sold(days)'
      BY <1>1, <3>1, BeforeStays
    <3>3. Cardinality(Before(s, days)) <= Cardinality(Before(s, days)')
      BY <1>1, <3>1, BeforeStays
    <3>4. s \in Unshown
      BY <3>1, <3>2 DEF Unshown
    <3>5. Cardinality(Before(s, days)) \in Nat /\ Cardinality(Before(s, days)') \in Nat
      <4>1. Before(s, days) \subseteq Rows /\ Before(s, days)' \subseteq Rows'
        BY DEF Before, Sold
      <4> QED BY <4>1, FS_Subset, FS_CardinalityType DEF TypeOK
    <3>6. Listed \in Int
      <4>1. PageSize \in Int /\ reader.page \in Int /\ reader.page - 1 \in Int
        BY FinanceAssumption DEF Paging
      <4> QED BY <4>1 DEF Listed
    <3> QED BY <2>1, <3>3, <3>4, <3>5, <3>6
  <2> QED BY <1>1, <2>1, <2>2, <2>3
<1> HIDE DEF days, period
<1>4. Listed' = Listed
  BY <1>1 DEF Listed
<1> QED BY <1>1, <1>2, <1>3, <1>4 DEF PagingInv, days, period

\* The reader starts on page 1 of its period, with nothing to keep yet.
LEMMA StartsPaging ==
  ASSUME TypeOK, NEW period \in Reads, StartPaging(period)
  PROVE  reader' \in Paging /\ PagingInv'
<1>1. /\ reader' = [pc |-> "list", period |-> period, page |-> 1,
                    days |-> Preset(period), first |-> None, shown |-> {}]
      /\ UNCHANGED now
  BY DEF StartPaging
<1>2. period \in Presets /\ now \in Clock /\ now \in Int /\ now <= now
  BY FinanceAssumption DEF TypeOK
<1>3. Preset(period) \in Int \X Int
  BY <1>2, PeriodMoves DEF Preset
<1>4. reader' \in Paging
  <2> DEFINE d == Preset(period)
  <2>1. d \in Int \X Int /\ {} \in SUBSET Ids /\ 1 \in Nat \ {0}
    BY <1>3
  <2>2. reader' = [pc |-> "list", period |-> period, page |-> 1, days |-> d,
                   first |-> None, shown |-> {}]
    BY <1>1
  <2> HIDE DEF d
  <2>3. None \in (SUBSET Ids) \cup {None}
    OBVIOUS
  <2> QED BY <1>2, <2>1, <2>2, <2>3 DEF Paging
<1>5. Preset(period)' = Preset(period)
  BY <1>1 DEF Preset
<1>6. Preset(period)[1] <= Preset(period)[1] /\ Preset(period)[2] <= Preset(period)[2]
  BY <1>3
<1> QED BY <1>1, <1>4, <1>5, <1>6 DEF PagingInv

\* list_sales: the page holds the rows at its positions, so a row it does not show has
\* the whole page before it.
LEMMA ListsPage ==
  ASSUME TypeOK, reader \in Paging, PagingInv, ListPage
  PROVE  reader' \in Paging /\ PagingInv'
<1>0. PICK days, period : days = reader.days /\ period = reader.period
  OBVIOUS
<1> DEFINE S == Sold(days)
           page == reader.page
           offset == (page - 1) * PageSize
<1>1. /\ reader.pc = "list" /\ UNCHANGED <<now, requests, registers>>
      /\ page \in Nat \ {0} /\ days \in Int \X Int /\ PageSize \in Nat \ {0}
  BY <1>0, FinanceAssumption DEF ListPage, Paging
<1>2. PICK q \in Sorted(S) :
        reader' = [reader EXCEPT !.pc = "count",
            !.first = IF page = 1 THEN S ELSE @,
            !.shown = @ \cup {q[i] : i \in {k \in DOMAIN q :
                                offset < k /\ k <= offset + PageSize}}]
  BY <1>0 DEF ListPage
<1> DEFINE now_shown == {q[i] : i \in {k \in DOMAIN q : offset < k /\ k <= offset + PageSize}}
           n == Cardinality(S)
<1>3. /\ n \in Nat /\ DOMAIN q = 1..n
      /\ \A i \in 1..n : q[i] \in S /\ Cardinality(Before(q[i], days)) = i - 1
      /\ \A s \in S : \E i \in 1..n : s = q[i]
  BY Position
<1>4. S \subseteq Rows /\ Rows \subseteq Ids
  BY DEF Sold, Rows
<1>5. now_shown \subseteq S
  BY <1>3
<1>6. reader' = [reader EXCEPT !.pc = "count", !.first = IF page = 1 THEN S ELSE @,
                               !.shown = @ \cup now_shown]
  BY <1>2
<1> HIDE DEF now_shown, S, n
<1>7. reader' \in Paging
  BY <1>4, <1>5, <1>6 DEF Paging
<1>8. /\ reader'.pc = "count" /\ reader'.days = days /\ reader'.period = period
      /\ reader'.page = page /\ reader'.shown = reader.shown \cup now_shown
      /\ reader'.first = IF page = 1 THEN S ELSE reader.first
  BY <1>0, <1>6 DEF Paging
<1>9. Rows' = Rows /\ Preset(period)' = Preset(period) /\ Sold(days)' = S
  BY <1>1 DEF Preset, S, Sold, Rows
<1>10. \A s : Before(s, days)' = Before(s, days)
  BY <1>1, <1>9 DEF Before, Newer, S
<1>11. /\ reader'.first \subseteq Rows
       /\ \A s \in reader'.first : BrDay(requests[s].created) < days[2]
  <2>1. CASE page = 1
    BY <1>4, <1>8, <2>1 DEF S, Sold, Within
  <2>2. CASE page # 1
    BY <1>0, <1>1, <1>8, <2>2 DEF PagingInv
  <2> QED BY <2>1, <2>2
<1>12. PageSize * page = offset + PageSize /\ offset \in Nat /\ offset = PageSize * (page - 1)
  BY <1>0, <1>1
<1>13. ASSUME NEW s \in S, s \in reader'.first, s \notin reader.shown, s \notin now_shown
       PROVE  PageSize * page <= Cardinality(Before(s, days))
  <2>1. PICK i \in 1..n : s = q[i]
    BY <1>3, <1>13
  <2>2. Cardinality(Before(s, days)) = i - 1
    BY <1>3, <2>1
  <2>3. ~(offset < i /\ i <= offset + PageSize)
    BY <1>3, <1>13, <2>1 DEF now_shown
  <2>4. offset <= Cardinality(Before(s, days))
    <3>1. CASE page = 1
      BY <1>1, <1>3, <1>12, <2>2, <3>1
    <3>2. CASE page # 1
      <4>1. s \in Unshown
        BY <1>0, <1>8, <1>13, <3>2 DEF Unshown, S
      <4> QED BY <1>0, <1>1, <1>12, <3>2, <4>1 DEF PagingInv, Listed
    <3> QED BY <3>1, <3>2
  <2> QED BY <1>1, <1>3, <1>12, <2>2, <2>3, <2>4
<1>14. Listed' = PageSize * page
  BY <1>8 DEF Listed
<1>15. \A s \in Unshown' : s \in S /\ s \in reader'.first /\ s \notin reader.shown
                              /\ s \notin now_shown
  BY <1>8, <1>9 DEF Unshown
<1>16. /\ days[1] <= Preset(period)[1] /\ days[2] <= Preset(period)[2]
  BY <1>0 DEF PagingInv
<1>17. /\ reader'.days[1] <= Preset(reader.period)'[1]
       /\ reader'.days[2] <= Preset(reader.period)'[2]
  BY <1>8, <1>9, <1>16
<1>18. \A s \in Unshown' :
         reader'.pc # "done" /\ Listed' <= Cardinality(Before(s, reader.days)')
  BY <1>8, <1>10, <1>13, <1>14, <1>15
<1>19. \A s \in reader'.first : BrDay(requests'[s].created) < reader'.days[2]
  BY <1>1, <1>8, <1>11
<1> QED BY <1>7, <1>9, <1>11, <1>17, <1>18, <1>19 DEF PagingInv

\* The count ends the paging only when no row of the period can lie beyond the pages.
LEMMA CountsPage ==
  ASSUME TypeOK, reader \in Paging, PagingInv, CountPage
  PROVE  reader' \in Paging /\ PagingInv'
<1>0. PICK days, period, page : days = reader.days /\ period = reader.period
                                /\ page = reader.page
  OBVIOUS
<1> DEFINE n == Cardinality(Sold(days))
           pages == (n + PageSize - 1) \div PageSize
<1>1. /\ reader.pc = "count" /\ UNCHANGED <<now, requests, registers>>
      /\ page \in Nat \ {0} /\ PageSize \in Nat \ {0}
  BY <1>0, FinanceAssumption DEF CountPage, Paging
<1>2. reader' = IF page < pages THEN [reader EXCEPT !.pc = "next", !.page = page + 1]
                ELSE [reader EXCEPT !.pc = "done"]
  BY <1>0 DEF CountPage
<1>3. n \in Nat /\ IsFiniteSet(Sold(days))
  BY FS_Subset, FS_CardinalityType DEF Sold, TypeOK
<1> HIDE DEF pages
<1>4. /\ reader' \in Paging /\ reader'.days = days /\ reader'.period = period
      /\ reader'.first = reader.first /\ reader'.shown = reader.shown
      /\ reader'.pc = IF page < pages THEN "next" ELSE "done"
      /\ page < pages => reader'.page = page + 1
  <2>1. CASE page < pages
    <3>1. reader' = [reader EXCEPT !.pc = "next", !.page = page + 1]
      BY <1>2, <2>1
    <3>2. page + 1 \in Nat \ {0}
      BY <1>1
    <3> QED BY <1>0, <2>1, <3>1, <3>2 DEF Paging
  <2>2. CASE ~(page < pages)
    <3>1. reader' = [reader EXCEPT !.pc = "done"]
      BY <1>2, <2>2
    <3> QED BY <1>0, <2>2, <3>1 DEF Paging
  <2> QED BY <2>1, <2>2
<1>5. Rows' = Rows /\ Preset(period)' = Preset(period) /\ Sold(days)' = Sold(days)
  BY <1>1 DEF Preset, Sold, Rows
<1>6. \A s : Before(s, days)' = Before(s, days)
  BY <1>1, <1>5 DEF Before, Newer
<1>7. /\ days[1] <= Preset(period)[1] /\ days[2] <= Preset(period)[2]
      /\ reader.first \subseteq Rows
      /\ \A s \in reader.first : BrDay(requests[s].created) < days[2]
      /\ \A s \in Unshown : PageSize * page <= Cardinality(Before(s, days))
  BY <1>0, <1>1 DEF PagingInv, Listed
<1>8. \A s \in Unshown' : s \in Unshown
  BY <1>0, <1>4, <1>5 DEF Unshown
<1>9. ASSUME NEW s \in Unshown', ~(page < pages)
      PROVE  FALSE
  <2>1. s \in Sold(days) /\ s \in Rows
    BY <1>0, <1>8 DEF Unshown, Sold
  <2>2. Before(s, days) \subseteq Sold(days) \ {s}
    BY <2>1, NewerIsTotal DEF Before
  <2>3. Cardinality(Sold(days) \ {s}) = n - 1 /\ IsFiniteSet(Sold(days) \ {s})
    BY <1>3, <2>1, FS_RemoveElement, FS_Subset
  <2>4. Cardinality(Before(s, days)) <= n - 1
    BY <2>2, <2>3, FS_Subset
  <2>5. n <= PageSize * page
    BY <1>1, <1>3, <1>9, LastPage DEF pages
  <2>6. PageSize * page <= Cardinality(Before(s, days))
    BY <1>7, <1>8, <1>9
  <2>7. PageSize * page \in Int /\ Cardinality(Before(s, days)) \in Int
    <3>1. IsFiniteSet(Before(s, days))
      BY <2>2, <2>3, FS_Subset
    <3> QED BY <1>1, <3>1, FS_CardinalityType
  <2> HIDE DEF n
  <2> QED BY <1>3, <2>4, <2>5, <2>6, <2>7
<1>10. page < pages => Listed' = PageSize * page
  BY <1>1, <1>4 DEF Listed
<1>11. \A s \in Unshown' :
         reader'.pc # "done" /\ Listed' <= Cardinality(Before(s, reader.days)')
  BY <1>0, <1>4, <1>6, <1>7, <1>8, <1>9, <1>10
<1>12. \A s \in reader'.first : BrDay(requests'[s].created) < reader'.days[2]
  BY <1>1, <1>4, <1>7
<1>13. /\ reader'.days[1] <= Preset(reader.period)'[1]
       /\ reader'.days[2] <= Preset(reader.period)'[2]
  BY <1>0, <1>4, <1>5, <1>7
<1> QED BY <1>4, <1>5, <1>7, <1>11, <1>12, <1>13 DEF PagingInv

\* The next page resolves its period anew: a row of both periods keeps the rows before it.
LEMMA AsksNextPage ==
  ASSUME TypeOK, reader \in Paging, PagingInv, NextPage
  PROVE  reader' \in Paging /\ PagingInv'
<1>0. PICK days, period, page, new :
        /\ days = reader.days /\ period = reader.period
        /\ page = reader.page /\ new = Preset(period)
  OBVIOUS
<1>1. /\ reader.pc = "next" /\ UNCHANGED <<now, requests, registers>>
      /\ reader' = [reader EXCEPT !.pc = "list", !.days = new]
      /\ page \in Nat \ {0} /\ period \in Presets /\ days \in Int \X Int
  BY <1>0 DEF NextPage, Paging
<1>2. new \in Int \X Int
  BY <1>0, <1>1, PeriodMoves, FinanceAssumption DEF Preset, TypeOK
<1>3. /\ reader' \in Paging /\ reader'.days = new /\ reader'.period = period
      /\ reader'.first = reader.first /\ reader'.shown = reader.shown
      /\ reader'.pc = "list" /\ reader'.page = page
  BY <1>0, <1>1, <1>2 DEF Paging
<1>4. Rows' = Rows /\ Preset(period)' = new /\ Sold(new)' = Sold(new)
  BY <1>0, <1>1 DEF Preset, Sold, Rows
<1>5. \A s : Before(s, new)' = Before(s, new)
  BY <1>1, <1>4 DEF Before, Newer
<1>6. /\ days[1] <= new[1] /\ days[2] <= new[2]
      /\ reader.first \subseteq Rows
      /\ \A s \in reader.first : BrDay(requests[s].created) < days[2]
      /\ \A s \in Unshown : PageSize * (page - 1) <= Cardinality(Before(s, days))
  BY <1>0, <1>1 DEF PagingInv, Listed
<1>7. ASSUME NEW s \in reader.first
      PROVE  BrDay(requests[s].created) \in Int
  BY <1>6, Columns, DayOf
<1>8. ASSUME NEW s \in Unshown'
      PROVE  PageSize * (page - 1) <= Cardinality(Before(s, new))
  <2>1. s \in reader.first /\ s \in Rows /\ s \in Sold(new) /\ s \notin reader.shown
    BY <1>3, <1>4, <1>6, <1>8 DEF Unshown
  <2>2. Within(requests[s].created, days)
    BY <1>1, <1>2, <1>6, <1>7, <2>1 DEF Within, Sold
  <2>3. s \in Unshown
    BY <1>0, <2>1, <2>2 DEF Unshown, Sold
  <2>4. Cardinality(Before(s, days)) <= Cardinality(Before(s, new))
    BY <1>1, <1>2, <1>6, <2>1, BeforeGrows
  <2>5. Cardinality(Before(s, days)) \in Int /\ Cardinality(Before(s, new)) \in Int
    <3>1. Before(s, days) \subseteq Rows /\ Before(s, new) \subseteq Rows
      BY DEF Before, Sold
    <3> QED BY <3>1, FS_Subset, FS_CardinalityType DEF TypeOK
  <2>6. PageSize * (page - 1) \in Int
    BY <1>1, FinanceAssumption
  <2> QED BY <1>6, <2>3, <2>4, <2>5, <2>6
<1>9. Listed' = PageSize * (page - 1)
  BY <1>3 DEF Listed
<1>10. \A s \in Unshown' :
         reader'.pc # "done" /\ Listed' <= Cardinality(Before(s, reader.days)')
  <2>1. \A s : Before(s, reader.days)' = Before(s, new)
    BY <1>3, <1>4, <1>5 DEF Before
  <2> QED BY <1>3, <1>8, <1>9, <2>1
<1>11. \A s \in reader'.first : BrDay(requests'[s].created) < reader'.days[2]
  BY <1>1, <1>2, <1>3, <1>6, <1>7
<1>12. /\ reader'.days[1] <= Preset(reader.period)'[1]
       /\ reader'.days[2] <= Preset(reader.period)'[2]
  BY <1>2, <1>3, <1>4
<1> QED BY <1>3, <1>4, <1>6, <1>10, <1>11, <1>12 DEF PagingInv

-----------------------------------------------------------------------------
(* The executive report *)

Names == {"api", "tax", "fiscal", "byProvider", "byType", "byStatus",
          "gross", "byProduct", "byClient"}
Figures == {"cost", "tax", "invoices", "sales"}

\* What a figure is now, whichever section shows it
Amount(figure, days) ==
  CASE figure = "cost" -> ApiCosts(days) [] figure = "tax" -> TaxesDue(days)
    [] figure = "invoices" -> Invoices(days) [] figure = "sales" -> Gross(days)

\* The statements of a report or tab are those that Section knows.
LEMMA StatementsAre ==
  ASSUME NEW statements \in Reports
  PROVE  /\ Len(statements) \in Nat \ {0}
         /\ \A k \in 1..Len(statements) : statements[k] \in Names
<1>1. CASE statements = ExecutiveReport
  BY <1>1 DEF ExecutiveReport, Names
<1>2. CASE statements \in {ApiCostTab, TaxTab, NoteTab, ServiceTab, ClientTab}
  BY <1>2 DEF ApiCostTab, TaxTab, NoteTab, ServiceTab, ClientTab, Names
<1> QED BY <1>1, <1>2 DEF Reports

\* The rows of a register that a tab adds up
LEMMA RegisterRows ==
  ASSUME TypeOK, NEW days
  PROVE  /\ IsFiniteSet(Processed(days)) /\ Processed(days) \subseteq DOMAIN registers.costs
         /\ IsFiniteSet(Levied(days)) /\ Levied(days) \subseteq DOMAIN registers.taxes
         /\ IsFiniteSet(In("notes", days))
         /\ In("notes", days) \subseteq DOMAIN registers.notes
<1>1. ASSUME NEW V, NEW s \in Seq(V) PROVE IsFiniteSet(DOMAIN s)
  <2>1. DOMAIN s = 1..Len(s) /\ Len(s) \in Nat
    OBVIOUS
  <2> QED BY <2>1, FS_Interval
<1>2. /\ IsFiniteSet(DOMAIN registers.costs) /\ IsFiniteSet(DOMAIN registers.taxes)
      /\ IsFiniteSet(DOMAIN registers.notes)
  BY <1>1 DEF TypeOK
<1>3. /\ Processed(days) \subseteq DOMAIN registers.costs
      /\ Levied(days) \subseteq DOMAIN registers.taxes
      /\ In("notes", days) \subseteq DOMAIN registers.notes
  BY DEF Processed, Levied, In
<1> QED BY <1>2, <1>3, FS_Subset

\* api_costs.py: the costs by provider add up to the cost of the period.
LEMMA CostsBreakDown ==
  ASSUME TypeOK, NEW days
  PROVE  SumFunction(ByProvider(days)) = ApiCosts(days)
<1> DEFINE K == Processed(days)
           f == CostsOf(K)
           key == [k \in K |-> registers.costs[k].provider]
<1>1. /\ IsFiniteSet(K) /\ DOMAIN f = K /\ DOMAIN key = K /\ \A k \in K : f[k] \in Int
  BY RegisterRows, Columns DEF CostsOf
<1>2. ByProvider(days) = Grouped(key, f) /\ ApiCosts(days) = SumFunction(f)
  BY DEF ByProvider, ApiCosts
<1> HIDE DEF K, f, key
<1> QED BY <1>1, <1>2, BreakdownAddsUp

\* taxes.py: the taxes by type, voided ones left out, add up to the taxes due.
LEMMA TaxesBreakDown ==
  ASSUME TypeOK, NEW days
  PROVE  SumFunction(ByType(days)) = TaxesDue(days)
<1> DEFINE K == Levied(days)
           f == TaxesOf(K)
           key == TypesOf(K)
<1>1. /\ IsFiniteSet(K) /\ DOMAIN f = K /\ DOMAIN key = K /\ \A k \in K : f[k] \in Int
  BY RegisterRows, Columns DEF TaxesOf, TypesOf
<1>2. ByType(days) = Grouped(key, f) /\ TaxesDue(days) = SumFunction(f)
  BY DEF ByType, TaxesDue
<1> HIDE DEF K, f, key
<1> QED BY <1>1, <1>2, BreakdownAddsUp

\* fiscal_documents.py: the authorized group is the number of invoices.
LEMMA NotesBreakDown ==
  ASSUME TypeOK, NEW days
  PROVE  (IF "authorized" \in DOMAIN ByStatus(days) THEN ByStatus(days)["authorized"] ELSE 0)
           = Invoices(days)
<1> DEFINE N == In("notes", days)
           A == {k \in N : registers.notes[k].status = "authorized"}
           one == [k \in N |-> 1]
           key == [k \in N |-> registers.notes[k].status]
<1>1. A \subseteq N /\ IsFiniteSet(A) /\ Cardinality(A) \in Nat
  BY RegisterRows, FS_Subset, FS_CardinalityType
<1>2. ByStatus(days) = Grouped(key, one) /\ Invoices(days) = Cardinality(A)
  BY DEF ByStatus, Invoices
<1>3. SumFunctionOnSet(one, A) = 1 * Cardinality(A)
  <2>1. \A k \in A : one[k] = 1
    OBVIOUS
  <2> HIDE DEF A, one
  <2> QED BY <1>1, <2>1, SumConstant
<1>4. DOMAIN key = N /\ A = {k \in DOMAIN key : key[k] = "authorized"}
  OBVIOUS
<1> HIDE DEF A, N, key, one
<1>5. CASE "authorized" \in Range(key)
  <2>1. "authorized" \in DOMAIN ByStatus(days)
    BY <1>2, <1>5 DEF Grouped
  <2>2. ByStatus(days)["authorized"] = SumFunctionOnSet(one, A)
    BY <1>2, <1>4, <1>5 DEF Grouped
  <2> QED BY <1>1, <1>2, <1>3, <2>1, <2>2
<1>6. CASE "authorized" \notin Range(key)
  <2>1. "authorized" \notin DOMAIN ByStatus(days)
    BY <1>2, <1>6 DEF Grouped
  <2>2. A = {}
    BY <1>4, <1>6 DEF Range
  <2> QED BY <1>2, <2>1, <2>2, FS_EmptySet
<1> QED BY <1>5, <1>6

\* At one instant, two sections that share a figure agree on it.
LEMMA SectionShowsAmount ==
  ASSUME TypeOK, NEW days, NEW name \in Names
  PROVE  /\ Figure(name) \in Figures
         /\ Value(name, Section(name, days)) = Amount(Figure(name), days)
<1>1. CASE name = "api"
  BY <1>1 DEF Figure, Value, Section, Amount, Figures
<1>2. CASE name = "byProvider"
  BY <1>2, CostsBreakDown DEF Figure, Value, Section, Amount, Figures
<1>3. CASE name = "tax"
  BY <1>3 DEF Figure, Value, Section, Amount, Figures
<1>4. CASE name = "byType"
  BY <1>4, TaxesBreakDown DEF Figure, Value, Section, Amount, Figures
<1>5. CASE name = "fiscal"
  BY <1>5 DEF Figure, Value, Section, Amount, Figures
<1>6. CASE name = "byStatus"
  BY <1>6, NotesBreakDown DEF Figure, Value, Section, Amount, Figures
<1>7. CASE name = "gross"
  BY <1>7 DEF Figure, Value, Section, Amount, Figures
<1>8. CASE name = "byProduct"
  BY <1>8, SalesBreakDown DEF Figure, Value, Section, Amount, Figures, ByProduct
<1>9. CASE name = "byClient"
  BY <1>9, SalesBreakDown DEF Figure, Value, Section, Amount, Figures, ByClient, Joined
<1> QED BY <1>1, <1>2, <1>3, <1>4, <1>5, <1>6, <1>7, <1>8, <1>9 DEF Names

\* The amounts that the tabs add up are natural numbers, and finitely many.
Summable(S, f) == IsFiniteSet(S) /\ \A x \in S : f[x] \in Nat

AllSummable ==
  \A days :
    /\ Summable(Processed(days), CostsOf(Processed(days)))
    /\ Summable(Levied(days), TaxesOf(Levied(days)))
    /\ Summable(Sold(days), Totals(Sold(days)))
    /\ IsFiniteSet({k \in In("notes", days) : registers.notes[k].status = "authorized"})

\* Every well-typed state has finitely many amounts to add up, none negative.
LEMMA TypesAreSummable == TypeOK => AllSummable
<1> SUFFICES ASSUME TypeOK, NEW days
             PROVE  /\ Summable(Processed(days), CostsOf(Processed(days)))
                    /\ Summable(Levied(days), TaxesOf(Levied(days)))
                    /\ Summable(Sold(days), Totals(Sold(days)))
                    /\ IsFiniteSet({k \in In("notes", days) :
                                      registers.notes[k].status = "authorized"})
  BY DEF AllSummable
<1>1. Summable(Processed(days), CostsOf(Processed(days)))
  BY RegisterRows, Columns DEF Summable, CostsOf
<1>2. Summable(Levied(days), TaxesOf(Levied(days)))
  BY RegisterRows, Columns DEF Summable, TaxesOf
<1>3. Summable(Sold(days), Totals(Sold(days)))
  <2>1. Sold(days) \subseteq Rows
    BY DEF Sold
  <2> QED BY <2>1, CentsOver DEF Summable
<1>4. IsFiniteSet({k \in In("notes", days) : registers.notes[k].status = "authorized"})
  BY RegisterRows, FS_Subset
<1> QED BY <1>1, <1>2, <1>3, <1>4

\* More rows with the same amounts sum to no less.
LEMMA SumExtends ==
  ASSUME NEW S, NEW T, S \subseteq T, NEW f, NEW g, Summable(T, g), \A x \in S : f[x] = g[x]
  PROVE  /\ SumFunctionOnSet(f, S) \in Nat /\ SumFunctionOnSet(g, T) \in Nat
         /\ SumFunctionOnSet(f, S) <= SumFunctionOnSet(g, T)
<1>1. IsFiniteSet(T) /\ IsFiniteSet(S) /\ \A x \in T : g[x] \in Nat
  BY FS_Subset DEF Summable
<1>2. SumFunctionOnSet(f, S) = SumFunctionOnSet(g, S)
  BY <1>1, SumSame
<1> QED BY <1>1, <1>2, SumGrows, SumNat

\* Rows are only added: no figure of a fixed period goes down.
LEMMA AmountsGrow ==
  ASSUME TypeOK, TypeOK', Rows \subseteq Rows', \A z \in Rows : Kept(z),
         \A t \in Tables : Longer(t), NEW figure \in Figures, NEW days
  PROVE  /\ Amount(figure, days) \in Nat /\ Amount(figure, days)' \in Nat
         /\ Amount(figure, days) <= Amount(figure, days)'
<1>0. AllSummable /\ AllSummable'
  BY TypesAreSummable, PTL
<1>1. ApiCosts(days) \in Nat /\ ApiCosts(days)' \in Nat /\ ApiCosts(days) <= ApiCosts(days)'
  <2> DEFINE S == Processed(days)
             T == Processed(days)'
             f == CostsOf(S)
             g == CostsOf(Processed(days))'
  <2>1. Longer("costs")
    BY DEF Tables
  <2>2. S \subseteq T /\ \A k \in S : f[k] = g[k]
    BY <2>1 DEF Longer, Processed, In, CostsOf
  <2>3. Summable(T, g)
    BY <1>0 DEF AllSummable
  <2>4. ApiCosts(days) = SumFunctionOnSet(f, S) /\ ApiCosts(days)' = SumFunctionOnSet(g, T)
    BY DEF ApiCosts, SumFunction, CostsOf
  <2> HIDE DEF S, T, f, g
  <2> QED BY <2>2, <2>3, <2>4, SumExtends
<1>2. TaxesDue(days) \in Nat /\ TaxesDue(days)' \in Nat /\ TaxesDue(days) <= TaxesDue(days)'
  <2> DEFINE S == Levied(days)
             T == Levied(days)'
             f == TaxesOf(S)
             g == TaxesOf(Levied(days))'
  <2>1. Longer("taxes")
    BY DEF Tables
  <2>2. S \subseteq T /\ \A k \in S : f[k] = g[k]
    BY <2>1 DEF Longer, Levied, In, TaxesOf
  <2>3. Summable(T, g)
    BY <1>0 DEF AllSummable
  <2>4. TaxesDue(days) = SumFunctionOnSet(f, S) /\ TaxesDue(days)' = SumFunctionOnSet(g, T)
    BY DEF TaxesDue, SumFunction, TaxesOf
  <2> HIDE DEF S, T, f, g
  <2> QED BY <2>2, <2>3, <2>4, SumExtends
<1>3. Gross(days) \in Nat /\ Gross(days)' \in Nat /\ Gross(days) <= Gross(days)'
  <2> DEFINE S == Sold(days)
             T == Sold(days)'
             f == Totals(S)
             g == Totals(Sold(days))'
  <2>1. S \subseteq T /\ \A s \in S : f[s] = g[s]
    BY DEF Sold, Kept, Totals
  <2>2. Summable(T, g)
    BY <1>0 DEF AllSummable
  <2>3. Gross(days) = SumFunctionOnSet(f, S) /\ Gross(days)' = SumFunctionOnSet(g, T)
    BY DEF Gross, Cents, SumFunction, Totals
  <2> HIDE DEF S, T, f, g
  <2> QED BY <2>1, <2>2, <2>3, SumExtends
<1>4. Invoices(days) \in Nat /\ Invoices(days)' \in Nat /\ Invoices(days) <= Invoices(days)'
  <2> DEFINE S == {k \in In("notes", days) : registers.notes[k].status = "authorized"}
             T == {k \in In("notes", days)' : registers'.notes[k].status = "authorized"}
  <2>1. Longer("notes")
    BY DEF Tables
  <2>2. S \subseteq T
    BY <2>1 DEF Longer, In
  <2>3. IsFiniteSet(T)
    BY <1>0 DEF AllSummable
  <2>4. Invoices(days) = Cardinality(S) /\ Invoices(days)' = Cardinality(T)
    BY DEF Invoices
  <2> HIDE DEF S, T
  <2> QED BY <2>2, <2>3, <2>4, FS_Subset, FS_CardinalityType
<1> QED BY <1>1, <1>2, <1>3, <1>4 DEF Amount, Figures

\* Where no row was added, no figure changes, whatever is paid.
LEMMA AmountsStay ==
  ASSUME Rows' = Rows, \A z \in Rows : Kept(z), UNCHANGED registers, NEW figure, NEW days
  PROVE  Amount(figure, days)' = Amount(figure, days)
<1>1. Sold(days)' = Sold(days)
  BY DEF Sold, Kept
<1>2. Totals(Sold(days))' = Totals(Sold(days))
  BY <1>1 DEF Totals, Sold, Kept
<1>3. Gross(days)' = Gross(days)
  BY <1>2 DEF Gross, Cents
<1>4. ApiCosts(days)' = ApiCosts(days)
  BY DEF ApiCosts, CostsOf, Processed, In
<1>5. TaxesDue(days)' = TaxesDue(days)
  BY DEF TaxesDue, TaxesOf, Levied, In
<1>6. Invoices(days)' = Invoices(days)
  BY DEF Invoices, In
<1> QED BY <1>3, <1>4, <1>5, <1>6 DEF Amount

\* A figure is a natural number.
LEMMA AmountIsNat ==
  ASSUME TypeOK, NEW figure \in Figures, NEW days
  PROVE  Amount(figure, days) \in Nat
<1>1. AllSummable
  BY TypesAreSummable
<1>2. ASSUME NEW S, NEW f, Summable(S, f) PROVE SumFunctionOnSet(f, S) \in Nat
  BY <1>2, SumNat DEF Summable
<1>3. /\ ApiCosts(days) = SumFunctionOnSet(CostsOf(Processed(days)), Processed(days))
      /\ TaxesDue(days) = SumFunctionOnSet(TaxesOf(Levied(days)), Levied(days))
      /\ Gross(days) = SumFunctionOnSet(Totals(Sold(days)), Sold(days))
  BY DEF ApiCosts, TaxesDue, Gross, Cents, SumFunction, CostsOf, TaxesOf, Totals
<1>4. ApiCosts(days) \in Nat /\ TaxesDue(days) \in Nat /\ Gross(days) \in Nat
  BY <1>1, <1>2, <1>3 DEF AllSummable
<1>5. Invoices(days) \in Nat
  BY <1>1, FS_CardinalityType DEF AllSummable, Invoices
<1> QED BY <1>4, <1>5 DEF Amount, Figures

\* The figure that the k-th section of the report shows, and what it is now
FigureAt(k) == Figure(reader.statements[k])
ShownAt(k) == Value(reader.statements[k], reader.got[k])
NowAt(k) == Amount(FigureAt(k), reader.days)

\* No section shows more than its figure is now, nor less than an earlier section
\* showed; and exactly that if no row was added since the report started.
ReportInv ==
  reader \in Reporting =>
    /\ Len(reader.got) <= Len(reader.statements)
    /\ reader.pc = "report" => Len(reader.got) < Len(reader.statements)
    /\ reader.before <= Added
    /\ \A k \in 1..Len(reader.got) :
         /\ ShownAt(k) \in Nat /\ ShownAt(k) <= NowAt(k)
         /\ reader.before = Added => ShownAt(k) = NowAt(k)
    /\ \A i, j \in 1..Len(reader.got) :
         i < j /\ FigureAt(i) = FigureAt(j) => ShownAt(i) <= ShownAt(j)

\* The number of rows added is a natural number, in the next state too.
LEMMA AddedIsNat == TypeOK => Added \in Nat
BY AddedIs

\* Between two statements of a report, rows are only added: what it shows stays a lower
\* bound, and exact as long as none is.
LEMMA ReportGoesOn ==
  ASSUME TypeOK, TypeOK', ReportInv, GoesOn
  PROVE  ReportInv'
<1>1. /\ reader' = reader /\ Rows \subseteq Rows' /\ \A z \in Rows : Kept(z)
      /\ \A t \in Tables : Longer(t)
      /\ Added <= Added' /\ (Added' = Added => Rows' = Rows /\ UNCHANGED registers)
  BY DEF GoesOn
<1>2. Added \in Nat /\ (Added \in Nat)'
  BY AddedIsNat, PTL
<1> SUFFICES ASSUME reader \in Reporting
             PROVE  ReportInv'
  BY <1>1 DEF ReportInv, Reporting
<1>3. /\ Len(reader.got) <= Len(reader.statements)
      /\ reader.pc = "report" => Len(reader.got) < Len(reader.statements)
      /\ reader.before <= Added /\ reader.before \in Nat
      /\ \A i, j \in 1..Len(reader.got) :
           i < j /\ FigureAt(i) = FigureAt(j) => ShownAt(i) <= ShownAt(j)
      /\ Len(reader.got) \in Nat /\ reader.statements \in Reports
  BY DEF ReportInv, Reporting, Sequence
<1>4. ASSUME NEW k \in 1..Len(reader.got)
      PROVE  /\ ShownAt(k) \in Nat /\ ShownAt(k) <= NowAt(k)'
             /\ reader.before = Added' => ShownAt(k) = NowAt(k)'
  <2>0. PICK days, figure : days = reader.days /\ figure = FigureAt(k)
    OBVIOUS
  <2>1. figure \in Figures
    <3>1. k \in 1..Len(reader.statements)
      BY <1>3, StatementsAre
    <3> QED BY <1>3, <2>0, <3>1, StatementsAre, SectionShowsAmount DEF FigureAt
  <2>2. /\ Amount(figure, days) \in Nat /\ Amount(figure, days)' \in Nat
        /\ Amount(figure, days) <= Amount(figure, days)'
    BY <1>1, <2>1, AmountsGrow
  <2>3. Added' = Added => Amount(figure, days)' = Amount(figure, days)
    BY <1>1, AmountsStay
  <2>4. NowAt(k) = Amount(figure, days) /\ NowAt(k)' = Amount(figure, days)'
    BY <1>1, <2>0 DEF NowAt, FigureAt
  <2>5. /\ ShownAt(k) \in Nat /\ ShownAt(k) <= NowAt(k)
        /\ reader.before = Added => ShownAt(k) = NowAt(k)
    BY DEF ReportInv
  <2> QED BY <1>1, <1>2, <1>3, <2>2, <2>3, <2>4, <2>5
<1>5. \A k : ShownAt(k)' = ShownAt(k) /\ FigureAt(k)' = FigureAt(k)
  BY <1>1 DEF ShownAt, FigureAt
<1>6. reader.before <= Added'
  BY <1>1, <1>2, <1>3
<1> QED BY <1>1, <1>3, <1>4, <1>5, <1>6 DEF ReportInv

\* A report starts with the rows there are, and shows nothing yet.
LEMMA StartsReport ==
  ASSUME TypeOK, NEW period \in Reads, NEW statements \in Reports,
         StartReport(period, statements)
  PROVE  reader' \in Reporting' /\ ReportInv'
<1> DEFINE d == Preset(period)
           a == Added
<1>1. /\ reader' = [pc |-> "report", days |-> d, statements |-> statements,
                    before |-> a, got |-> <<>>]
      /\ UNCHANGED <<now, requests, registers>>
  BY DEF StartReport
<1>2. d \in Int \X Int /\ a \in Nat /\ Added' = a
  <2>1. period \in Presets /\ now \in Clock /\ now \in Int /\ now <= now
    BY FinanceAssumption DEF TypeOK
  <2> QED BY <1>1, <2>1, AddedIs, PeriodMoves, SameRows DEF Preset
<1>3. Len(statements) \in Nat \ {0}
  BY StatementsAre
<1>4. Sequence(<<>>) /\ Len(<<>>) = 0
  BY DEF Sequence
<1> HIDE DEF d, a
<1>5. reader' \in Reporting'
  BY <1>1, <1>2, <1>4 DEF Reporting
<1>6. /\ Len(reader'.got) = 0 /\ reader'.statements = statements
      /\ reader'.before = a /\ reader'.pc = "report"
  BY <1>1, <1>4
<1> QED BY <1>2, <1>3, <1>5, <1>6 DEF ReportInv

\* Appending to a sequence of sections, of whatever kinds.
LEMMA SequenceIs ==
  ASSUME NEW s, Sequence(s), NEW v
  PROVE  /\ Len(s) \in Nat /\ Sequence(Append(s, v)) /\ Len(Append(s, v)) = Len(s) + 1
         /\ \A k \in 1..Len(s) : Append(s, v)[k] = s[k]
         /\ Append(s, v)[Len(s) + 1] = v
<1> DEFINE V == Range(s) \cup {v}
<1>1. s \in [1..Len(s) -> V] /\ Len(s) \in Nat
  BY DEF Sequence, Range
<1>2. s \in Seq(V)
  BY <1>1, SeqDef
<1>3. v \in V
  OBVIOUS
<1> HIDE DEF V
<1>4. ASSUME NEW t \in Seq(V) PROVE Sequence(t)
  BY DEF Sequence
<1>5. Append(s, v) \in Seq(V)
  BY <1>2, <1>3
<1>6. /\ Len(Append(s, v)) = Len(s) + 1 /\ Append(s, v)[Len(s) + 1] = v
      /\ \A k \in 1..Len(s) : Append(s, v)[k] = s[k]
  BY <1>2, <1>3
<1> QED BY <1>1, <1>4, <1>5, <1>6

\* A statement shows its figure as it is now, no less than an earlier one showed.
LEMMA StatementRuns ==
  ASSUME TypeOK, reader \in Reporting, ReportInv, NextStatement
  PROVE  reader' \in Reporting' /\ ReportInv'
<1>0. PICK days, statements, before, got, n :
        /\ days = reader.days /\ statements = reader.statements
        /\ before = reader.before /\ got = reader.got /\ n = Len(reader.got)
  OBVIOUS
<1>1. /\ reader.pc = "report" /\ UNCHANGED <<now, requests, registers>>
      /\ statements \in Reports /\ Sequence(got) /\ days \in Int \X Int
      /\ before \in Nat /\ n \in Nat /\ n = Len(got)
  BY <1>0 DEF NextStatement, Reporting, Sequence
<1>2. PICK section, figure :
        /\ section = Section(statements[n + 1], days)
        /\ figure = Figure(statements[n + 1])
  OBVIOUS
<1>3. reader' = [reader EXCEPT !.got = Append(got, section),
                   !.pc = IF n + 1 = Len(statements) THEN "printed" ELSE @]
  BY <1>0, <1>2 DEF NextStatement
<1>4. /\ reader'.days = days /\ reader'.statements = statements /\ reader'.before = before
      /\ reader'.got = Append(got, section)
      /\ reader'.pc = IF n + 1 = Len(statements) THEN "printed" ELSE "report"
  BY <1>0, <1>1, <1>3 DEF Reporting
<1>5. /\ Sequence(Append(got, section)) /\ Len(Append(got, section)) = n + 1
      /\ \A k \in 1..n : Append(got, section)[k] = got[k]
      /\ Append(got, section)[n + 1] = section
  BY <1>1, SequenceIs
<1>6. reader' \in Reporting'
  <2>1. reader'.got \in {s \in {reader'.got} : Sequence(s)}
    BY <1>4, <1>5
  <2> QED BY <1>0, <1>1, <1>3, <1>4, <2>1 DEF Reporting
<1>7. Added' = Added /\ Added \in Nat /\ Rows' = Rows
  BY <1>1, AddedIs, SameRows
<1>8. /\ n < Len(statements) /\ Len(statements) \in Nat /\ before <= Added
      /\ \A k \in 1..n : /\ ShownAt(k) \in Nat /\ ShownAt(k) <= NowAt(k)
                         /\ before = Added => ShownAt(k) = NowAt(k)
      /\ \A i, j \in 1..n : i < j /\ FigureAt(i) = FigureAt(j) => ShownAt(i) <= ShownAt(j)
  BY <1>0, <1>1, StatementsAre DEF ReportInv
<1>9. \A f : Amount(f, days)' = Amount(f, days)
  BY <1>1, <1>7, AmountsStay DEF Kept
<1>10. \A k \in 1..n : /\ ShownAt(k)' = ShownAt(k) /\ FigureAt(k)' = FigureAt(k)
                       /\ NowAt(k)' = NowAt(k)
  <2> SUFFICES ASSUME NEW k \in 1..n
               PROVE  /\ ShownAt(k)' = ShownAt(k) /\ FigureAt(k)' = FigureAt(k)
                      /\ NowAt(k)' = NowAt(k)
    OBVIOUS
  <2>1. ShownAt(k)' = ShownAt(k)
    BY <1>0, <1>4, <1>5 DEF ShownAt
  <2>2. FigureAt(k)' = FigureAt(k)
    BY <1>0, <1>4 DEF FigureAt
  <2>3. NowAt(k)' = Amount(FigureAt(k), days)'
    BY <1>1, <1>4, <2>2 DEF NowAt, Amount
  <2> QED BY <1>0, <1>9, <2>1, <2>2, <2>3 DEF NowAt
<1>11. /\ FigureAt(n + 1)' = figure
       /\ ShownAt(n + 1)' = Amount(figure, days) /\ NowAt(n + 1)' = Amount(figure, days)
       /\ Amount(figure, days) \in Nat
  <2>1. n + 1 \in 1..Len(statements)
    BY <1>1, <1>8
  <2>2. statements[n + 1] \in Names
    BY <1>1, <2>1, StatementsAre
  <2>3. figure \in Figures /\ Value(statements[n + 1], section) = Amount(figure, days)
    BY <1>2, <2>2, SectionShowsAmount
  <2>4. FigureAt(n + 1)' = figure
    BY <1>2, <1>4 DEF FigureAt
  <2>5. ShownAt(n + 1)' = Value(statements[n + 1], section)
    BY <1>4, <1>5 DEF ShownAt
  <2>6. NowAt(n + 1)' = Amount(figure, days)
    BY <1>4, <1>9, <2>4 DEF NowAt
  <2>7. Amount(figure, days) \in Nat
    BY <2>3, AmountIsNat
  <2> QED BY <2>3, <2>4, <2>5, <2>6, <2>7
<1>12. \A k \in 1..(n + 1) :
         /\ ShownAt(k)' \in Nat /\ ShownAt(k)' <= NowAt(k)'
         /\ before = Added' => ShownAt(k)' = NowAt(k)'
  <2> SUFFICES ASSUME NEW k \in 1..(n + 1)
               PROVE  /\ ShownAt(k)' \in Nat /\ ShownAt(k)' <= NowAt(k)'
                      /\ before = Added' => ShownAt(k)' = NowAt(k)'
    OBVIOUS
  <2>1. CASE k \in 1..n
    BY <1>7, <1>8, <1>10, <2>1
  <2>2. CASE k = n + 1
    BY <1>11, <2>2
  <2> QED BY <1>1, <2>1, <2>2
<1>13. \A i, j \in 1..(n + 1) :
         i < j /\ FigureAt(i)' = FigureAt(j)' => ShownAt(i)' <= ShownAt(j)'
  <2> SUFFICES ASSUME NEW i \in 1..(n + 1), NEW j \in 1..(n + 1), i < j,
                      FigureAt(i)' = FigureAt(j)'
               PROVE  ShownAt(i)' <= ShownAt(j)'
    OBVIOUS
  <2>1. i \in 1..n
    BY <1>1
  <2>2. CASE j \in 1..n
    BY <1>8, <1>10, <2>1, <2>2
  <2>3. CASE j = n + 1
    <3>1. FigureAt(i) = figure
      BY <1>10, <1>11, <2>1, <2>3
    <3>2. ShownAt(i) <= Amount(figure, days)
      BY <1>0, <1>8, <2>1, <3>1 DEF NowAt
    <3> QED BY <1>10, <1>11, <2>1, <2>3, <3>2
  <2> QED BY <1>1, <2>2, <2>3
<1>14. /\ Len(reader'.got) <= Len(reader'.statements)
       /\ reader'.pc = "report" => Len(reader'.got) < Len(reader'.statements)
       /\ reader'.before <= Added'
  BY <1>1, <1>4, <1>5, <1>7, <1>8
<1> QED BY <1>4, <1>5, <1>6, <1>12, <1>13, <1>14 DEF ReportInv

-----------------------------------------------------------------------------
(* The inductive invariant *)

FinanceInv == TypeOK /\ ReaderOK /\ PagingInv /\ ReportInv

\* The session of the reader is one of idle, paging or reporting, and its pc tells which.
LEMMA ReadersDiffer ==
  /\ reader \in Paging => reader \notin Reporting /\ reader # Idle
  /\ reader \in Reporting => reader # Idle
  /\ ReaderOK /\ reader.pc \in {"list", "count", "next", "done"} => reader \in Paging
  /\ ReaderOK /\ reader.pc \in {"report", "printed"} => reader \in Reporting
<1>1. Idle.pc = "idle"
  BY DEF Idle
<1>2. reader \in Paging => reader.pc \in {"list", "count", "next", "done"}
  BY DEF Paging
<1>3. reader \in Reporting => reader.pc \in {"report", "printed"}
  BY DEF Reporting
<1> QED BY <1>1, <1>2, <1>3 DEF ReaderOK

\* While paging, there is nothing to keep about a report.
LEMMA PagesOnly == reader \in Paging /\ PagingInv => ReaderOK /\ PagingInv /\ ReportInv
BY ReadersDiffer DEF ReaderOK, ReportInv

\* While reporting, there is nothing to keep about pages.
LEMMA ReportsOnly == reader \in Reporting /\ ReportInv => ReaderOK /\ PagingInv /\ ReportInv
BY ReadersDiffer DEF ReaderOK, PagingInv

\* An idle reader has nothing to keep.
LEMMA IdleOnly == reader = Idle => ReaderOK /\ PagingInv /\ ReportInv
BY ReadersDiffer DEF ReaderOK, PagingInv, ReportInv

\* The invariant holds initially.
LEMMA InitFinance == Init => FinanceInv
<1> SUFFICES ASSUME Init PROVE FinanceInv
  OBVIOUS
<1>1. reader = Idle
  BY DEF Init
<1> QED BY <1>1, InitTypeOK, IdleOnly DEF FinanceInv

\* The invariant is inductive: one step per kind of action.
LEMMA FinanceStep == FinanceInv /\ [Next]_vars => FinanceInv'
<1> SUFFICES ASSUME TypeOK, ReaderOK, PagingInv, ReportInv, [Next]_vars
             PROVE  (ReaderOK /\ PagingInv /\ ReportInv)'
  BY TypeStep DEF FinanceInv
<1>1. TypeOK'
  BY TypeStep
<1>2. (reader \in Paging /\ PagingInv => ReaderOK /\ PagingInv /\ ReportInv)'
  BY PagesOnly, PTL
<1>3. (reader \in Reporting /\ ReportInv => ReaderOK /\ PagingInv /\ ReportInv)'
  BY ReportsOnly, PTL
<1>4. CASE SaleStep \/ PassTime \/ Register \/ UNCHANGED vars
  <2>1. GoesOn
    BY <1>4, OthersGoOn
  <2>2. ReaderOK'
    BY <2>1 DEF GoesOn, ReaderOK, Reporting
  <2> QED BY <1>1, <2>1, <2>2, PagingGoesOn, ReportGoesOn
<1>5. ASSUME NEW period \in Reads, StartPaging(period)
      PROVE  (ReaderOK /\ PagingInv /\ ReportInv)'
  <2>1. (reader \in Paging)' /\ PagingInv'
    BY <1>5, StartsPaging DEF Paging
  <2> QED BY <1>2, <2>1
<1>6. ASSUME NEW period \in Reads, NEW statements \in Reports, StartReport(period, statements)
      PROVE  (ReaderOK /\ PagingInv /\ ReportInv)'
  BY <1>3, <1>6, StartsReport
<1>7. CASE ListPage
  <2>1. reader \in Paging
    BY <1>7, ReadersDiffer DEF ListPage
  <2>2. (reader \in Paging)' /\ PagingInv'
    BY <1>7, <2>1, ListsPage DEF Paging
  <2> QED BY <1>2, <2>2
<1>8. CASE CountPage
  <2>1. reader \in Paging
    BY <1>8, ReadersDiffer DEF CountPage
  <2>2. (reader \in Paging)' /\ PagingInv'
    BY <1>8, <2>1, CountsPage DEF Paging
  <2> QED BY <1>2, <2>2
<1>9. CASE NextPage
  <2>1. reader \in Paging
    BY <1>9, ReadersDiffer DEF NextPage
  <2>2. (reader \in Paging)' /\ PagingInv'
    BY <1>9, <2>1, AsksNextPage DEF Paging
  <2> QED BY <1>2, <2>2
<1>10. CASE NextStatement
  <2>1. reader \in Reporting
    BY <1>10, ReadersDiffer DEF NextStatement
  <2> QED BY <1>3, <1>10, <2>1, StatementRuns
<1>11. CASE Close
  <2>1. (reader = Idle => ReaderOK /\ PagingInv /\ ReportInv)'
    BY IdleOnly, PTL
  <2>2. (reader = Idle)'
    BY <1>11 DEF Close, Idle
  <2> QED BY <2>1, <2>2
<1> QED BY <1>4, <1>5, <1>6, <1>7, <1>8, <1>9, <1>10, <1>11 DEF Next, Read

\* The inductive invariant of the financial area, for any number of sales, registrations
\* and pages.
THEOREM FinanceInvariance == Spec => []FinanceInv
BY InitFinance, FinanceStep, PTL DEF Spec

\* sales.py:87, for any page size, number of pages and sales opened or paid meanwhile: no
\* sale of the first page's period that is still in the last page's is skipped.
THEOREM PagesSkipNothing == Spec => []NoSaleSkipped
<1>1. FinanceInv => NoSaleSkipped
  <2> SUFFICES ASSUME FinanceInv, reader.pc = "done",
                      NEW s \in reader.first \cap Sold(reader.days), s \notin reader.shown
               PROVE  FALSE
    BY DEF NoSaleSkipped
  <2>1. reader \in Paging
    BY ReadersDiffer DEF FinanceInv
  <2>2. s \in Unshown
    BY DEF Unshown
  <2> QED BY <2>1, <2>2 DEF FinanceInv, PagingInv
<1> QED BY <1>1, FinanceInvariance, PTL

\* The nine statements of financial_reports.py:58-64 under READ COMMITTED, for any
\* registrations in between: of two sections that share a figure the later shows no less,
\* and the same if nothing was added.
THEOREM SectionsMatch == Spec => []SectionsAgree
<1>1. FinanceInv => SectionsAgree
  <2> SUFFICES ASSUME FinanceInv, reader.pc = "printed",
                      NEW i \in DOMAIN reader.got, NEW j \in DOMAIN reader.got, i < j,
                      FigureAt(i) = FigureAt(j)
               PROVE  /\ ShownAt(i) <= ShownAt(j)
                      /\ reader.before = Added => ShownAt(i) = ShownAt(j)
    BY DEF SectionsAgree, FigureAt, ShownAt
  <2>1. reader \in Reporting
    BY ReadersDiffer DEF FinanceInv
  <2>2. DOMAIN reader.got = 1..Len(reader.got)
    BY <2>1 DEF Reporting, Sequence
  <2> QED BY <2>1, <2>2 DEF FinanceInv, ReportInv, NowAt
<1> QED BY <1>1, FinanceInvariance, PTL
=============================================================================
