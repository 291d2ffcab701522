---- MODULE AppleFinancialReport ----
(***************************************************************************)
(* Reading Apple's consolidated financial report: exact decimals, the row  *)
(* loop of ParseAppleConsolidated and the minor units of a total.  A file  *)
(* is a header verdict and a sequence of rows; a cell is what its parser   *)
(* makes of it.  Only acceptance matters: the failure codes are log text.  *)
(***************************************************************************)
EXTENDS Integers, Sequences, SequencesExt, Functions, FiniteSets

CONSTANTS
    RowLimit,   \* DefaultRowLimit: data rows of one file
    MaxMinor,   \* largest minor-unit integer (2^63 - 1 in the code)
    Exponent    \* CurrencyExponent: known currency -> minor-unit exponent

ASSUME ReportAssumption ==
    /\ RowLimit \in Nat \ {0} /\ MaxMinor \in Nat
    /\ \A c \in DOMAIN Exponent : Exponent[c] \in Nat

\* A Decimal is a coefficient and a scale; Invalid is ErrDecimalInvalid.
Invalid == [c |-> 0, s |-> -1]
\* A minor-unit pointer: nil, a value, or an error.
NoMinor == << >>
MinorError == <<0, 0>>

\* ParseDecimal: an integer over a power of ten, or an error.
IsDecimal(d) == d = Invalid \/ (d = [c |-> d.c, s |-> d.s] /\ d.c \in Int /\ d.s \in Nat)

\* A file's rows, with what the parser makes of their amounts.
ReportFile(file) ==
    /\ file.rows \in Seq(Range(file.rows))
    /\ \A row \in Range(file.rows) : \A d \in {row.quantity, row.share, row.extended, row.price} : IsDecimal(d)

decimalPow10(n) == 10 ^ n

Rescale(d, s) == [c |-> d.c * decimalPow10(s - d.s), s |-> s]

Mul(a, b) == [c |-> a.c * b.c, s |-> a.s + b.s]

\* Numeric equality, whatever the trailing zeros.
SameValue(a, b) == LET s == IF a.s < b.s THEN b.s ELSE a.s
                   IN  Rescale(a, s).c = Rescale(b, s).c

\* Sum of two decimals of one scale; the caller has checked the scale.
Add(a, b) == IF a.s = b.s THEN [c |-> a.c + b.c, s |-> a.s] ELSE Invalid

\* MinorUnits: nil when the scale is coarser, an error when digits would be lost
\* or the integer does not fit.
MinorUnits(d, exponent) ==
    LET divisor == decimalPow10(d.s - exponent)
        units   == IF d.c < 0 THEN -((-d.c) \div divisor) ELSE d.c \div divisor
    IN  IF d.s < exponent THEN NoMinor
        ELSE IF units * divisor # d.c \/ units > MaxMinor \/ units < -MaxMinor - 1
        THEN MinorError
        ELSE <<units>>

appleMinorUnits(currency, amount) ==
    IF currency \in DOMAIN Exponent THEN MinorUnits(amount, Exponent[currency]) ELSE NoMinor

\* The header must name every consolidated column once and none of the
\* detailed report's; the verdict is taken on the first line that is not blank.
appleHeader(file) == file.header = "consolidated"

\* Both dates parse and do not run backwards.
applePeriod(row) == row.start # 0 /\ row.end # 0 /\ row.start <= row.end

\* A sale has no negative and a return no positive proceeds.
appleSaleSign(row) ==
    \/ row.sale = "S" /\ row.extended.c >= 0
    \/ row.sale = "R" /\ row.extended.c <= 0

\* The state of the row loop: the period of the first row, the scale seen for
\* each currency and the running total of each identifier and currency.
EmptyLoop == [ok |-> TRUE, rows |-> 0, start |-> 0, end |-> 0, scales |-> << >>, totals |-> << >>]

\* Faulty variant: a currency's scale is only compared within one identifier.
ScaleAgreesPerIdentifier(acc, row) ==
    LET key == <<row.identifier, row.currency>>
    IN  key \in DOMAIN acc.totals => acc.totals[key].s = row.extended.s

\* All rows of a currency have one scale, whatever the identifier.
ScaleAgrees(acc, row) ==
    row.currency \in DOMAIN acc.scales => acc.scales[row.currency] = row.extended.s

RowAccepted(acc, row) ==
    /\ acc.rows < RowLimit
    /\ row.width
    /\ applePeriod(row)
    /\ acc.start # 0 => acc.start = row.start /\ acc.end = row.end
    /\ row.identifier # ""
    /\ Invalid \notin {row.quantity, row.share, row.extended, row.price}
    /\ row.currencies
    /\ appleSaleSign(row)
    /\ SameValue(Mul(row.quantity, row.share), row.extended)
    /\ ScaleAgrees(acc, row)

Put(f, k, v) == [x \in DOMAIN f \cup {k} |-> IF x = k THEN v ELSE f[x]]

\* Faulty variant: the quantity is multiplied into the proceeds once more.
TakeRowTwice(acc, row) ==
    LET key == <<row.identifier, row.currency>>
        amount == [c |-> row.extended.c * row.quantity.c, s |-> row.extended.s]
        sum == IF key \in DOMAIN acc.totals THEN Add(acc.totals[key], amount) ELSE amount
    IN  [acc EXCEPT !.rows = @ + 1, !.start = row.start, !.end = row.end,
                    !.scales = Put(@, row.currency, row.extended.s),
                    !.totals = Put(@, key, sum)]

TakeRow(acc, row) ==
    LET key == <<row.identifier, row.currency>>
        sum == IF key \in DOMAIN acc.totals THEN Add(acc.totals[key], row.extended) ELSE row.extended
    IN  [acc EXCEPT !.rows = @ + 1, !.start = row.start, !.end = row.end,
                    !.scales = Put(@, row.currency, row.extended.s),
                    !.totals = Put(@, key, sum)]

ReadRow(acc, row) == IF acc.ok /\ RowAccepted(acc, row) THEN TakeRow(acc, row)
                     ELSE [acc EXCEPT !.ok = FALSE]

\* The row loop, row by row.
ReadRows(rows) ==
    LET loop[n \in 0 .. Len(rows)] == IF n = 0 THEN EmptyLoop ELSE ReadRow(loop[n - 1], rows[n])
    IN  loop[Len(rows)]

\* The parse of a file: refused, or its period and its total for each
\* identifier and currency.
ParseAppleConsolidated(file) ==
    LET acc == ReadRows(file.rows)
    IN  [ok     |-> /\ file.utf8 /\ appleHeader(file) /\ acc.ok /\ acc.start # 0
                    /\ \A k \in DOMAIN acc.totals : appleMinorUnits(k[2], acc.totals[k]) # MinorError,
         period |-> <<acc.start, acc.end>>,
         totals |-> [k \in DOMAIN acc.totals |->
                       [amount |-> acc.totals[k], minor |-> appleMinorUnits(k[2], acc.totals[k])]]]

\* What a file says of one identifier and currency, summed over its rows at a
\* common scale: the reference the parser is compared with.
FileTotal(file, identifier, currency, scale) ==
    LET cell(row) == IF row.identifier = identifier /\ row.currency = currency
                     THEN Rescale(Mul(row.quantity, row.share), scale).c ELSE 0
    IN  FoldLeft(LAMBDA sum, row : sum + cell(row), 0, file.rows)

====
