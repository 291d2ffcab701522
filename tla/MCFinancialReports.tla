---- MODULE MCFinancialReports ----
EXTENDS FinancialReports

CONSTANTS r1, r2, r3

MCRequests == {r1, r2, r3}
MCSymmetry == Permutations(MCRequests)
MCExponent == [USD |-> 2, JPY |-> 0]

App(id, provider, environment, identifier) ==
    [id |-> id, provider |-> provider, environment |-> environment, identifier |-> identifier]
MCInitially == {App("a1", "apple", "production", "A"), App("t1", "apple", "sandbox", "A")}
MCApplications == MCInitially \cup {App("a2", "apple", "production", "B"),
                                    App("g1", "google", "production", "G")}

D(c, s) == [c |-> c, s |-> s]
Row(start, end, id, quantity, share, extended, currency, sale) ==
    [width |-> TRUE, start |-> start, end |-> end, identifier |-> id, quantity |-> quantity,
     share |-> share, extended |-> extended, price |-> D(199, 2), currency |-> currency,
     currencies |-> TRUE, sale |-> sale]
File(rows) == [utf8 |-> TRUE, header |-> "consolidated", rows |-> rows]

\* Two versions of one month, the month after, and a file whose rows of one
\* currency have two scales.
First  == File(<<Row(1, 30, "A", D(2, 0), D(150, 2), D(300, 2), "USD", "S"),
                 Row(1, 30, "B", D(1, 0), D(500, 2), D(500, 2), "USD", "S"),
                 Row(1, 30, "A", D(-1, 0), D(150, 2), D(-150, 2), "USD", "R"),
                 Row(1, 30, "A", D(3, 0), D(100, 0), D(300, 0), "JPY", "S")>>)
Second == File(<<Row(1, 30, "A", D(2, 0), D(175, 2), D(350, 2), "USD", "S"),
                 Row(1, 30, "B", D(1, 0), D(500, 2), D(500, 2), "USD", "S")>>)
Later  == File(<<Row(31, 60, "A", D(4, 0), D(100, 2), D(400, 2), "USD", "S")>>)
Mixed  == File(<<Row(1, 30, "A", D(2, 0), D(150, 2), D(300, 2), "USD", "S"),
                 Row(1, 30, "B", D(1, 0), D(5, 0), D(5, 0), "USD", "S")>>)

Apple(file) == [form |-> "ok", provider |-> "apple", kind |-> "apple_financial_consolidated",
                body |-> "plain", period |-> << >>, file |-> file]
MCUploads ==
    {Apple(f) : f \in {First, Second, Later, Mixed}}
        \cup {[Apple(First) EXCEPT !.provider = "google", !.kind = "google_play_earnings", !.period = <<1, 30>>],
              [Apple(First) EXCEPT !.form = "oversized"]}

====
