---- MODULE MCCustomerEntitlements ----
(* Two customers with a lineage each, two products, four export files.       *)
EXTENDS CustomerEntitlements, TLC

MCOwner == [l \in Lineages |-> IF l = 1 THEN 1 ELSE 2]

MCSnapshots == {[id |-> 1, lineage |-> 1, product |-> 1, access |-> "allowed", ends |-> 2],
                [id |-> 2, lineage |-> 1, product |-> 1, access |-> "denied", ends |-> 2],
                [id |-> 3, lineage |-> 1, product |-> 2, access |-> "allowed", ends |-> 0],
                [id |-> 4, lineage |-> 2, product |-> 1, access |-> "allowed", ends |-> 0],
                [id |-> 5, lineage |-> 2, product |-> 1, access |-> "denied", ends |-> 2]}

\* Product 1 is a subscription of the App Store, product 2 a lifetime purchase elsewhere.
MCMapping ==
    [canonical |-> "original", entitlements |-> [e \in {1, 2} |-> "pro"],
     products |-> {[store |-> "app_store", environment |-> "production", provider |-> 1,
                    application |-> 1, product |-> 1],
                   [store |-> "stripe", environment |-> "production", provider |-> 2,
                    application |-> 2, product |-> 2]}]

MCCatalog ==
    [applications |-> [a \in {1, 2} |-> "production"],
     products |-> [p \in {1, 2} |-> [kind |-> IF p = 1 THEN "subscription" ELSE "non_consumable",
                                     grants |-> {"pro"}]],
     entitlements |-> {"pro"}, storeProducts |-> {<<1, 1>>}]

\* A subscription of customer 2 that ends at 3.
Line == [original |-> 2, lastSeen |-> NoId, store |-> "app_store", sandbox |-> FALSE,
         provider |-> 1, entitlements |-> {1}, listInvalid |-> FALSE, start |-> 1, end |-> 3,
         grace |-> 0, effectiveEnd |-> 3, updated |-> 0, autoRenewable |-> TRUE, refunded |-> 0,
         unsubscribe |-> 0, billing |-> 0, autoResume |-> 0, originalTransaction |-> 9,
         transaction |-> 0]

\* A Customer Info object of customer 2: a lifetime purchase that begins at 2, bought
\* twice, a subscription in its grace period, and an alias.
Info == [id |-> 2, original |-> NoId, aliases |-> {11}, requested |-> 1,
         entitlements |-> <<[id |-> 1, provider |-> 2, expires |-> 0, grace |-> 0, purchased |-> 0],
                            [id |-> 2, provider |-> 1, expires |-> 0, grace |-> 0, purchased |-> 0]>>,
         subscriptions |->
             [p \in {1} |-> [store |-> "app_store", sandbox |-> FALSE, purchased |-> 1, expires |-> 1,
                             grace |-> 2, refunded |-> 0, unsubscribe |-> 0, billing |-> 0,
                             autoResume |-> 0, transaction |-> 5]],
         nonSubscriptions |->
             [p \in {2} |-> <<[store |-> "stripe", sandbox |-> FALSE, purchased |-> 1, transaction |-> 7],
                              [store |-> "stripe", sandbox |-> FALSE, purchased |-> 2, transaction |-> 8]>>]]

\* 1: a subscription without updated_at; customer 1 with a good row and one of an unknown
\*    product, and a line without an id.
\* 2: the same subscription, refunded in the line updated last; customer 1, anonymous,
\*    with the alias of file 4.
\* 3: a file cut short.
\* 4: Customer Info objects, the one of customer 1 with a product bought both ways.
MCExports ==
    <<[format |-> "transactions_csv", complete |-> TRUE,
       lines |-> <<Line, [Line EXCEPT !.original = 1, !.originalTransaction = 0],
                   [Line EXCEPT !.original = 1, !.provider = 3], [Line EXCEPT !.original = NoId]>>],
      [format |-> "transactions_csv", complete |-> TRUE,
       lines |-> <<[Line EXCEPT !.updated = 2, !.refunded = 2], [Line EXCEPT !.updated = 1],
                   [Line EXCEPT !.original = 1, !.originalTransaction = 0, !.transaction = 6, !.lastSeen = 11]>>],
      [format |-> "subscriber_jsonl", complete |-> FALSE, lines |-> <<Info>>],
      [format |-> "subscriber_jsonl", complete |-> TRUE,
       lines |-> <<Info, [Info EXCEPT !.id = 1, !.aliases = {}, !.nonSubscriptions = [p \in {1} |-> << >>]]>>]>>

Import(export, batch, webhooks, skipAnonymous) ==
    [export |-> export, batch |-> batch, webhooks |-> webhooks, skipAnonymous |-> skipAnonymous]

\* Repeated imports, a batch id used for two files, anonymous subscribers skipped or not.
MCCommands == {Import(1, 1, TRUE, FALSE), Import(2, 1, TRUE, FALSE), Import(2, 2, FALSE, TRUE),
               Import(2, 2, TRUE, FALSE), Import(3, 1, TRUE, FALSE), Import(4, 2, FALSE, FALSE)}

\* Requests are interchangeable.
MCSymmetry == Permutations(Requests)

====
