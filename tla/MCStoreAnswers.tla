---- MODULE MCStoreAnswers ----
EXTENDS StoreAnswers

App == [id |-> "app", store |-> "store", environment |-> "Production", credential |-> "ok"]
MCCatalog == [p |-> "subscription", q |-> "subscription", n |-> "non_consumable"]
Binding(kind) == <<"customer_binding", kind, "me">>
MCCustomer == {Binding(k) : k \in {"app_account_token", "obfuscated_external_account_id", "developer_payload"}}
Query(kind, value) == <<"query", kind, value>>

(***************************************************************************)
(* App Store                                                               *)
(***************************************************************************)
Transaction(id, product, expires) ==
    [id |-> id, bundle |-> "store", original |-> "o", product |-> product, type |-> "subscription", environment |-> "Production",
     account |-> "me", purchased |-> <<1>>, expires |-> expires, revoked |-> FALSE, family |-> FALSE,
     upgraded |-> FALSE, price |-> <<10>>, signed |-> TRUE]
Once == [Transaction("n1", "n", << >>) EXCEPT !.type = "non_consumable"]
RenewalInfo(product, auto, grace) ==
    [signed |-> TRUE, environment |-> "Production", original |-> "o", product |-> product, account |-> "me",
     auto |-> auto, nextProduct |-> product, date |-> <<3>>, grace |-> grace]
StatusRow(status, t, renewal) == [original |-> "o", status |-> status, transaction |-> t, renewal |-> renewal]
AppleServer(answer) ==
    [http |-> 200, transaction |-> Transaction("t1", "p", <<3>>),
     status |-> [http |-> 200, environment |-> "Production", rows |-> answer]]
T1 == Transaction("t1", "p", <<3>>)
T2 == Transaction("t2", "p", <<5>>)
AppleRows ==
    {StatusRow(1, T1, RenewalInfo("p", auto, << >>)) : auto \in {0, 1}}
        \cup {StatusRow(1, [T1 EXCEPT !.price = << >>], RenewalInfo("p", 1, << >>)),
              StatusRow(1, T2, RenewalInfo("p", 1, << >>)),
              StatusRow(1, Transaction("t3", "q", <<4>>), RenewalInfo("q", 1, << >>)),
              StatusRow(2, T1, RenewalInfo("p", 1, << >>)),
              StatusRow(3, T1, RenewalInfo("p", 1, << >>)),
              StatusRow(4, T1, RenewalInfo("p", 1, <<4>>)),
              StatusRow(4, T1, RenewalInfo("p", 1, <<5>>)),
              StatusRow(5, [T1 EXCEPT !.revoked = TRUE], RenewalInfo("p", 0, << >>)),
              StatusRow(5, [T1 EXCEPT !.revoked = TRUE, !.family = TRUE], RenewalInfo("p", 0, << >>)),
              StatusRow(1, Transaction("t1", "p", << >>), RenewalInfo("p", 1, << >>)),
              StatusRow(1, Transaction("t4", "x", <<4>>), RenewalInfo("x", 1, << >>)),
              StatusRow(1, [T2 EXCEPT !.account = "other"], [RenewalInfo("p", 1, << >>) EXCEPT !.account = "other"]),
              StatusRow(6, T1, RenewalInfo("p", 1, << >>))}
\* A customer's other subscription, which runs on, and two rows of one lineage.
Lapsed == StatusRow(2, T1, RenewalInfo("p", 1, << >>))
Running == StatusRow(1, T2, RenewalInfo("p", 1, << >>))
OtherLineage == [original |-> "o9", status |-> 1, transaction |-> [T2 EXCEPT !.original = "o9"],
                 renewal |-> [RenewalInfo("p", 1, << >>) EXCEPT !.original = "o9"]]
AppleServers ==
    {AppleServer(<<r>>) : r \in AppleRows}
        \cup {AppleServer(<<OtherLineage, Lapsed>>), AppleServer(<<OtherLineage>>), AppleServer(<<Lapsed, Running>>)}
        \cup {AppleServer(<< >>), [AppleServer(<< >>) EXCEPT !.status.http = 429], [AppleServer(<< >>) EXCEPT !.http = 0]}
AppleRequest(kind) ==
    [application |-> App, kind |-> kind, claimed |-> IF kind = "subscription" THEN {"p"} ELSE {},
     bindings |-> MCCustomer, queries |-> {Query("transaction_id", "t1")}, transaction |-> IF kind = "subscription" THEN T1 ELSE Once]
AskOf(verify, request, server) == [verify |-> verify, request |-> request, server |-> server]
AppleAsks ==
    {AskOf(TRUE, AppleRequest("subscription"), s) : s \in AppleServers}
        \cup {AskOf(FALSE, AppleRequest("subscription"), AppleServer(<<r>>)) :
                r \in {StatusRow(1, T1, RenewalInfo("p", 1, << >>)), StatusRow(2, T1, RenewalInfo("p", 1, << >>))}}
        \cup {AskOf(TRUE, AppleRequest("non_consumable"), [AppleServer(<< >>) EXCEPT !.transaction = t]) :
                t \in {Once, [Once EXCEPT !.revoked = TRUE], [Once EXCEPT !.id = "n2"]}}
        \cup {AskOf(TRUE, [AppleRequest("subscription") EXCEPT !.application.credential = c], AppleServer(<< >>)) :
                c \in {"missing", "malformed"}}

\* A grace row as releases stored it before the effective end was part of the
\* identity: with the expiry or the grace end as its end, with and without a price.
GraceRow(end, price) ==
    LET snapshot == [product |-> "p", kind |-> "subscription", state |-> "grace_period", provider |-> "grace_period",
                     access |-> "allowed", reason |-> "grace_period", family |-> FALSE, occurred |-> <<1>>,
                     start |-> <<1>>, end |-> end, mode |-> "auto", renew |-> "enabled", next |-> "p", nextAt |-> <<3>>]
    IN  [id |-> [application |-> "app", t |-> [T1 EXCEPT !.price = << >>], expiry |-> <<3>>,
                 decision |-> <<"grace_period", "allowed", "grace_period">>, renewal |-> <<"auto", "enabled", "p", <<3>>>>],
         snapshot |-> snapshot, price |-> price, at |-> 0,
         refs |-> {<<"transaction", "transaction_id", "t1">>, <<"lineage", "original_transaction_id", "o">>,
                   <<"query", "transaction_id", "t1">>, Binding("app_account_token")}]

(***************************************************************************)
(* Google Play                                                             *)
(***************************************************************************)
Item(product, order, expiry, auto) ==
    [product |-> product, order |-> order, expiry |-> expiry, plans |-> {"auto"}, auto |-> auto,
     deferred |-> << >>, replacement |-> << >>]
Purchase(state, items) ==
    [state |-> state, acknowledgement |-> "acknowledged", test |-> FALSE, account |-> "me", order |-> "g1",
     linked |-> "", start |-> <<1>>, completed |-> <<1>>, items |-> items]
OldItem == Item("p", "g1", <<3>>, TRUE)
Ended == Item("p", "g1", <<3>>, FALSE)
NewItem == [Item("q", "g2", <<5>>, TRUE) EXCEPT !.replacement = <<"p">>]
Deferred == <<[Ended EXCEPT !.deferred = <<"q">>], [Item("q", "", << >>, TRUE) EXCEPT !.replacement = << >>]>>
GooglePurchases ==
    {Purchase(s, <<OldItem>>) : s \in {"ACTIVE", "CANCELED", "PAUSED", "ON_HOLD", "EXPIRED", "UNSPECIFIED"}}
        \cup {Purchase("IN_GRACE_PERIOD", <<Item("p", "g1", <<4>>, TRUE)>>),
              Purchase("ACTIVE", <<Item("p", "g2", <<5>>, TRUE)>>),
              [Purchase("PENDING", <<Item("p", "", << >>, TRUE)>>) EXCEPT !.start = << >>, !.order = "", !.acknowledgement = "pending"],
              Purchase("PENDING_PURCHASE_CANCELED", <<Item("p", "", << >>, TRUE)>>),
              [Purchase("ACTIVE", <<OldItem>>) EXCEPT !.acknowledgement = "pending"],
              [Purchase("ACTIVE", <<OldItem>>) EXCEPT !.acknowledgement = "unspecified"],
              Purchase("ACTIVE", <<[OldItem EXCEPT !.plans = {"prepaid"}]>>),
              Purchase("ACTIVE", <<[OldItem EXCEPT !.plans = {"auto", "prepaid"}]>>),
              Purchase("ACTIVE", Deferred),
              Purchase("ACTIVE", <<Ended, NewItem>>), Purchase("CANCELED", <<NewItem, Ended>>),
              Purchase("ACTIVE", <<NewItem>>), Purchase("ACTIVE", <<OldItem, NewItem>>),
              [Purchase("ACTIVE", <<OldItem>>) EXCEPT !.account = "other"],
              [Purchase("ACTIVE", <<OldItem>>) EXCEPT !.test = TRUE]}
GoogleProducts == {[Purchase(s, <<Item("n", "g1", << >>, FALSE)>>) EXCEPT !.completed = c] :
                     s \in {"PURCHASED", "CANCELLED"}, c \in {<<1>>}}
                  \cup {Purchase("PENDING", <<Item("n", "", << >>, FALSE)>>)}
GoogleServer(purchase) == [token |-> 200, grant |-> TRUE, http |-> 200, acknowledge |-> 200, purchase |-> purchase]
GoogleRequest(kind) ==
    [application |-> App, kind |-> kind, claimed |-> IF kind = "subscription" THEN {"p"} ELSE {"n"},
     bindings |-> MCCustomer, queries |-> {Query("purchase_token", "tok")}, token |-> "tok"]
GoogleAsks ==
    {AskOf(v, GoogleRequest("subscription"), GoogleServer(p)) : v \in BOOLEAN, p \in GooglePurchases}
        \cup {AskOf(TRUE, GoogleRequest("non_consumable"), GoogleServer(p)) : p \in GoogleProducts}
        \cup {AskOf(TRUE, GoogleRequest("subscription"), s) :
                s \in {[GoogleServer(Purchase("ACTIVE", <<OldItem>>)) EXCEPT !.http = h] : h \in {0, 410, 429}}
                      \cup {[GoogleServer(Purchase("ACTIVE", <<OldItem>>)) EXCEPT !.token = 400]}}

(***************************************************************************)
(* Huawei                                                                  *)
(***************************************************************************)
Data ==
    [application |-> "store", product |-> "p", subscription |-> "s", token |-> "tok", order |-> "h1", state |-> 0,
     purchased |-> 1, expires |-> 3, grace |-> 0, cancellation |-> 0, cancel |-> 0, renew |-> 1, retry |-> 0,
     valid |-> TRUE, payload |-> "me", price |-> 10, currency |-> TRUE, signed |-> TRUE]
InBillingGrace == [Data EXCEPT !.retry = 1, !.grace = 5, !.valid = FALSE]
HuaweiPurchases ==
    {Data, [Data EXCEPT !.renew = 0], [Data EXCEPT !.cancellation = 2], [Data EXCEPT !.cancel = 2],
     [Data EXCEPT !.state = 1], [Data EXCEPT !.state = 2], [Data EXCEPT !.state = 3],
     [Data EXCEPT !.state = 2, !.valid = FALSE], InBillingGrace, [InBillingGrace EXCEPT !.grace = 4],
     [InBillingGrace EXCEPT !.state = 2],
     [Data EXCEPT !.order = "h2", !.expires = 5], [Data EXCEPT !.price = MaxPrice + 1],
     [Data EXCEPT !.payload = "other"], [Data EXCEPT !.signed = FALSE], [Data EXCEPT !.product = "q"],
     [Data EXCEPT !.valid = FALSE, !.expires = 0]}
OnceData == [Data EXCEPT !.product = "n", !.token = "once", !.subscription = "", !.expires = 0, !.valid = FALSE]
HuaweiServer(p) == [token |-> 200, grant |-> TRUE, http |-> <<200, 200>>, code |-> "ok", purchase |-> p]
HuaweiRequest(p) ==
    [application |-> App, kind |-> IF p.product = "n" THEN "non_consumable" ELSE "subscription", claimed |-> {p.product},
     bindings |-> MCCustomer, queries |-> {Query("purchase_token", "tok"), Query("subscription_id", "s")}, purchase |-> p]
HuaweiAsks ==
    {AskOf(v, HuaweiRequest(Data), HuaweiServer(p)) : v \in BOOLEAN, p \in HuaweiPurchases}
        \cup {AskOf(TRUE, HuaweiRequest(OnceData), HuaweiServer([OnceData EXCEPT !.state = s])) : s \in 0 .. 2}
        \cup {AskOf(FALSE, HuaweiRequest(Data), s) :
                s \in {[HuaweiServer(Data) EXCEPT !.http = h] : h \in {<<401, 200>>, <<401, 401>>, <<404, 200>>}}
                      \cup {[HuaweiServer(Data) EXCEPT !.code = c] : c \in {"5xx", "other"}}}

MCAsks == [apple |-> AppleAsks, google |-> GoogleAsks, huawei |-> HuaweiAsks]
MCLegacy == [apple |-> {{GraceRow(<<3>>, <<10>>)}, {GraceRow(<<5>>, <<10>>)}, {GraceRow(<<5>>, << >>)}}, google |-> {}, huawei |-> {}]

====
