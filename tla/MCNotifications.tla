---- MODULE MCNotifications ----
EXTENDS Notifications

MCApplication ==
    [id |-> "app", store |-> "store", environment |-> "Production", credential |-> "ok", topic |-> "topic", pusher |-> "google"]
MCCatalog == [p |-> "subscription", q |-> "subscription", n |-> "non_consumable"]
MCCustomers == {"a", "b"}
MCMerges == {<<"a", "b">>}

(***************************************************************************)
(* Google Play: g1, and g2 that replaces it, for the same account or for   *)
(* another one.                                                            *)
(***************************************************************************)
GoogleServer(product, order, account, linked, expiry) ==
    [token |-> 200, grant |-> TRUE, http |-> 200, acknowledge |-> 200,
     purchase |-> [state |-> "ACTIVE", acknowledgement |-> "pending", test |-> FALSE, account |-> account, order |-> order,
                   linked |-> linked, start |-> <<1>>, completed |-> <<1>>,
                   items |-> <<[product |-> product, order |-> order, expiry |-> expiry, plans |-> {"auto"}, auto |-> TRUE,
                                deferred |-> << >>, replacement |-> << >>]>>]]
Outage(server, linked) == IF linked = "" THEN {[server EXCEPT !.http = 0, !.acknowledge = 400]} ELSE {[server EXCEPT !.http = 404, !.acknowledge = 409]}
GoogleSubscription(product, account, linked) ==
    LET first == GoogleServer(product, "o1", account, linked, <<3>>)
    IN  [kind |-> "subscription", product |-> product, account |-> account, linked |-> linked, acknowledgeable |-> TRUE,
         answers |-> <<first, GoogleServer(product, "o2", account, linked, <<5>>)>>, outages |-> Outage(first, linked), submitted |-> << >>]
OnePhase(purchase) == [purchase EXCEPT !.answers = <<purchase.answers[1]>>]
\* In the stranger's world g1 is renewed before it is replaced.
GooglePurchases == [g1 |-> OnePhase(GoogleSubscription("p", "a", "")), g2 |-> OnePhase(GoogleSubscription("q", "a", "g1"))]
StrangerPurchases == [g1 |-> GoogleSubscription("p", "a", ""), g2 |-> OnePhase(GoogleSubscription("q", "b", "g1"))]
Variant(kind, token) == [kind |-> kind, version |-> "1.0", type |-> 1, token |-> token, product |-> "", order |-> "o", refund |-> 1]
GooglePush(variants) ==
    [bearer |-> "google", subscription |-> "topic", message |-> "m", version |-> "1.0", package |-> "store", at |-> 1, variants |-> variants]
Announce(push, from) == [push |-> push, phase |-> from]
GooglePushes(renewed) ==
    [r1 |-> Announce(GooglePush(<<Variant("subscription", "g1")>>), renewed),
     r2 |-> Announce(GooglePush(<<Variant("subscription", "g2")>>), 1),
     r3 |-> Announce([GooglePush(<<Variant("test", "")>>) EXCEPT !.bearer = "other"], 1),
     r4 |-> Announce(GooglePush(<<Variant("test", ""), Variant("subscription", "g1")>>), 1)]

(***************************************************************************)
(* Huawei: a subscription and a one-time product.                          *)
(***************************************************************************)
Data ==
    [application |-> "store", product |-> "p", subscription |-> "s", token |-> "h1", order |-> "o1", state |-> 0,
     purchased |-> 1, expires |-> 3, grace |-> 0, cancellation |-> 0, cancel |-> 0, renew |-> 1, retry |-> 0,
     valid |-> TRUE, payload |-> "a", price |-> 1, currency |-> TRUE, signed |-> TRUE]
Once == [Data EXCEPT !.product = "n", !.subscription = "", !.token = "h2", !.expires = 0, !.valid = FALSE]
HuaweiServer(d) == [token |-> 200, grant |-> TRUE, http |-> <<200, 200>>, code |-> "ok", purchase |-> d]
HuaweiPurchase(kind, d, later) ==
    [kind |-> kind, product |-> d.product, account |-> "a", linked |-> "", acknowledgeable |-> FALSE,
     answers |-> <<HuaweiServer(d), HuaweiServer(later)>>, submitted |-> d,
     outages |-> {[HuaweiServer(d) EXCEPT !.http = <<401, 503>>], [HuaweiServer(d) EXCEPT !.code = "other"]}]
HuaweiPurchases ==
    [h1 |-> HuaweiPurchase("subscription", Data, [Data EXCEPT !.order = "o2", !.expires = 5]),
     h2 |-> HuaweiPurchase("non_consumable", Once, [Once EXCEPT !.state = 2])]
HuaweiPush(event, d) ==
    [version |-> "v2", at |-> 1, application |-> "store", event |-> event, bodies |-> {event}, bodyVersion |-> "v2", type |-> 2,
     token |-> d.token, product |-> d.product, subscription |-> d.subscription, signed |-> TRUE]
HuaweiPushes ==
    [v1 |-> Announce(HuaweiPush("SUBSCRIPTION", Data), 2), v2 |-> Announce(HuaweiPush("ORDER", Once), 2),
     v3 |-> Announce(HuaweiPush("ORDER", [Once EXCEPT !.token = "h9"]), 1),
     v4 |-> Announce([HuaweiPush("SUBSCRIPTION", Data) EXCEPT !.signed = FALSE], 1)]

(***************************************************************************)
(* App Store                                                               *)
(***************************************************************************)
Transaction(id, expires) ==
    [id |-> id, bundle |-> "store", original |-> "i1", product |-> "p", type |-> "subscription", environment |-> "Production",
     account |-> "a", purchased |-> <<1>>, expires |-> expires, revoked |-> FALSE, family |-> FALSE,
     upgraded |-> FALSE, price |-> <<10>>, signed |-> TRUE]
RenewalOf(t) ==
    [signed |-> TRUE, environment |-> "Production", original |-> "i1", product |-> "p", account |-> "a", auto |-> 1,
     nextProduct |-> "p", date |-> t.expires, grace |-> << >>]
AppleServer(t) ==
    [http |-> 200, transaction |-> t,
     status |-> [http |-> 200, environment |-> "Production", rows |-> <<[original |-> "i1", status |-> 1, transaction |-> t, renewal |-> RenewalOf(t)]>>]]
T1 == Transaction("t1", <<3>>)
T2 == Transaction("t2", <<5>>)
ApplePurchases ==
    [i1 |-> [kind |-> "subscription", product |-> "p", account |-> "a", linked |-> "", acknowledgeable |-> FALSE,
             answers |-> <<AppleServer(T1), AppleServer(T2)>>, submitted |-> T1,
             outages |-> {[AppleServer(T1) EXCEPT !.status.http = 503], [AppleServer(T1) EXCEPT !.status.http = 401]}]]
ApplePush(transactions) ==
    [signed |-> TRUE, version |-> "2.0", uuid |-> "u", type |-> "DID_RENEW", subtype |-> TRUE, at |-> 1,
     data |-> <<[bundle |-> "store", environment |-> "Production", appleID |-> "app", status |-> 1, transaction |-> transactions,
                 renewal |-> IF transactions = << >> THEN << >> ELSE <<RenewalOf(transactions[1])>>]>>]
ApplePushes ==
    [s1 |-> Announce(ApplePush(<<T2>>), 2), s2 |-> Announce(ApplePush(<< >>), 1),
     s3 |-> Announce(ApplePush(<<[T1 EXCEPT !.type = "consumable"]>>), 1),
     s4 |-> Announce([ApplePush(<<T2>>) EXCEPT !.signed = FALSE], 1)]

MCProvider == [google |-> "google", stranger |-> "google", huawei |-> "huawei", apple |-> "apple"]
MCPurchases ==
    [google |-> GooglePurchases, stranger |-> StrangerPurchases, huawei |-> HuaweiPurchases, apple |-> ApplePurchases]
MCPushes == [google |-> GooglePushes(1), stranger |-> GooglePushes(2), huawei |-> HuaweiPushes, apple |-> ApplePushes]
NoMessages == [m \in {} |-> << >>]
\* v4 is a row an earlier release has left: its push is none that is accepted now.
MCLegacy ==
    [google |-> {NoMessages}, stranger |-> {NoMessages}, apple |-> {NoMessages},
     huawei |-> {NoMessages, [v4 |-> Envelope("subscription", "h1", "p", "subscription", "", "", FALSE)]}]

Request(session, items) == [session |-> session, items |-> items]
ItemOf(external, token) == [external |-> external, token |-> token]
MCRequests ==
    [google   |-> {Request("a", <<ItemOf("a", "g1"), ItemOf("a", "g2")>>), Request("b", <<ItemOf("a", "g1")>>)},
     stranger |-> {Request("a", <<ItemOf("a", "g1"), ItemOf("a", "g2")>>), Request("b", <<ItemOf("b", "g1")>>)},
     huawei   |-> {Request("a", <<ItemOf("a", "h1"), ItemOf("a", "h2")>>), Request("a", << >>)},
     apple    |-> {Request("a", <<ItemOf("a", "i1")>>), Request("a", <<ItemOf("a", "i1"), ItemOf("a", "i1"), ItemOf("a", "i1")>>)}]

====
