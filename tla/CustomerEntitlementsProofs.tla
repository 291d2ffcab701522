---- MODULE CustomerEntitlementsProofs ----
(***************************************************************************)
(* Theorems about CustomerEntitlements, for any customers, lineages,       *)
(* provider answers, export files, requests, merges and import commands:   *)
(* what a customer is shown follows from what was stored for them, however *)
(* requests, merges and imports interleave.                                *)
(***************************************************************************)
EXTENDS CustomerEntitlements, FiniteSetTheorems, WellFoundedInduction, TLAPS

--------------------------------------------------------------------------------
(* Finite sets.                                                              *)

\* A finite set that a relation orders totally has an element before all others.
LEMMA FiniteFirst ==
    ASSUME NEW S, IsFiniteSet(S), S # {}, NEW R,
           \A x, y \in S : x # y => <<x, y>> \in R \/ <<y, x>> \in R,
           \A x, y, z \in S : <<x, y>> \in R /\ <<y, z>> \in R => <<x, z>> \in R
    PROVE  \E m \in S : \A d \in S \ {m} : <<m, d>> \in R
<1> DEFINE First(T) == \E m \in T : \A d \in T \ {m} : <<m, d>> \in R
           Bad == {T \in FiniteSubsetsOf(S) : T # {} /\ ~First(T)}
<1> SUFFICES ASSUME ~First(S) PROVE FALSE
  OBVIOUS
<1>1. Bad # {} /\ Bad \subseteq FiniteSubsetsOf(S)
  BY DEF FiniteSubsetsOf
<1>2. PICK T \in Bad : \A U \in Bad : ~(<<U, T>> \in StrictSubsetOrdering(S))
  <2> HIDE DEF Bad
  <2>1. QED
    BY <1>1, WFMin, FS_StrictSubsetOrderingWellFounded
<1>3. PICK x \in T : TRUE
  OBVIOUS
<1>4. T \subseteq S /\ IsFiniteSet(T)
  BY DEF FiniteSubsetsOf
<1> DEFINE U == T \ {x}
<1>5. U \in FiniteSubsetsOf(S)
  BY <1>4, FS_Subset DEF FiniteSubsetsOf
<1>6. <<U, T>> \in StrictSubsetOrdering(S)
  BY <1>3, <1>4, <1>5 DEF StrictSubsetOrdering, FiniteSubsetsOf
<1>7. U = {} \/ First(U)
  BY <1>2, <1>5, <1>6
<1>8. CASE U = {}
  BY <1>3, <1>8
<1>9. CASE First(U)
  <2>1. PICK m \in U : \A d \in U \ {m} : <<m, d>> \in R
    BY <1>9
  <2>2. CASE <<m, x>> \in R
    BY <2>1, <2>2, <1>3
  <2>3. CASE <<x, m>> \in R
    <3>1. \A d \in T \ {x} : <<x, d>> \in R
      BY <2>1, <2>3, <1>3, <1>4
    <3>2. QED
      BY <3>1, <1>3
  <2>4. QED
    BY <1>3, <1>4, <2>1, <2>2, <2>3
<1>10. QED
  BY <1>7, <1>8, <1>9

--------------------------------------------------------------------------------
(* The projector on a customer's sources.                                    *)

Access == {"allowed", "unresolved", "denied"}

Typed(c) ==
    /\ c.kind \in {"store", "import"} /\ c.access \in Access
    /\ c.ends \in Nat /\ c.at \in Nat /\ c.id \in Nat

\* The sources a query returns: one per kind, product and lineage, with distinct ids.
Candidates(C) ==
    /\ IsFiniteSet(C)
    /\ \A c \in C : Typed(c)
    /\ \A c, d \in C : c.kind = d.kind /\ c.id = d.id => c = d
    /\ \A c, d \in C : c.kind = d.kind /\ SameSource(c, d) => c = d

\* What candidatePreferred looks at before the sighting.
Outranks(c, d) ==
    \/ AccessStrength(c.access) > AccessStrength(d.access)
    \/ /\ AccessStrength(c.access) = AccessStrength(d.access)
       /\ \/ SourceKindRank(c) > SourceKindRank(d)
          \/ SourceKindRank(c) = SourceKindRank(d) /\ EndsLater(c, d)

Unbeaten(c, S) == \A d \in S : ~Outranks(d, c)

LEMMA RanksAreNumbers ==
    ASSUME NEW c, Typed(c)
    PROVE  /\ AccessStrength(c.access) \in 1..3
           /\ SourceKindRank(c) \in 1..2
           /\ AccessStrength(c.access) = 3 <=> c.access = "allowed"
           /\ SourceKindRank(c) = 1 <=> c.kind = "import"
           /\ c.at \in Nat /\ c.ends \in Nat /\ c.id \in Nat
BY DEF AccessStrength, SourceKindRank, Typed, Access

\* The later end of access, or none, is transitive whatever the third candidate is.
LEMMA LastingOrder ==
    ASSUME NEW c, NEW d, NEW e, Typed(c), Typed(d), Typed(e),
           AccessStrength(c.access) = AccessStrength(d.access),
           AccessStrength(d.access) = AccessStrength(e.access)
    PROVE  /\ EndsLater(c, d) /\ EndsLater(d, e) => EndsLater(c, e)
           /\ EndsLater(c, d) /\ ~EndsLater(e, d) => EndsLater(c, e)
           /\ ~EndsLater(d, c) /\ EndsLater(d, e) => EndsLater(c, e)
           /\ ~EndsLater(d, c) /\ ~EndsLater(e, d) => ~EndsLater(e, c)
<1>1. /\ c.ends \in Nat /\ d.ends \in Nat /\ e.ends \in Nat
      /\ c.access = "allowed" <=> d.access = "allowed"
      /\ d.access = "allowed" <=> e.access = "allowed"
  BY RanksAreNumbers
<1>2. CASE c.access = "allowed"
  BY <1>1, <1>2 DEF EndsLater
<1>3. CASE c.access # "allowed"
  BY <1>1, <1>3 DEF EndsLater
<1>4. QED
  BY <1>2, <1>3

LEMMA PreferredTotal ==
    ASSUME NEW c, NEW d, Typed(c), Typed(d), c.kind # d.kind \/ c.id # d.id
    PROVE  CandidatePreferred(c, d) \/ CandidatePreferred(d, c)
<1> DEFINE sc == AccessStrength(c.access)
           sd == AccessStrength(d.access)
           rc == SourceKindRank(c)
           rd == SourceKindRank(d)
<1>1. /\ sc \in 1..3 /\ sd \in 1..3 /\ rc \in 1..2 /\ rd \in 1..2
      /\ c.at \in Nat /\ d.at \in Nat /\ c.id \in Nat /\ d.id \in Nat
  BY RanksAreNumbers
<1>2. c.id # d.id \/ rc # rd
  BY DEF SourceKindRank, Typed
<1>3. CASE sc # sd
  <2>1. sc > sd \/ sd > sc
    <3> HIDE DEF sc, sd
    <3>1. QED
      BY <1>1, <1>3
  <2>2. QED
    BY <2>1 DEF CandidatePreferred
<1>4. CASE sc = sd /\ rc # rd
  <2>1. rc > rd \/ rd > rc
    <3> HIDE DEF sc, sd, rc, rd
    <3>1. QED
      BY <1>1, <1>4
  <2>2. QED
    BY <1>4, <2>1 DEF CandidatePreferred
<1>5. CASE sc = sd /\ rc = rd
  <2>1. SeenLater(c, d) \/ SeenLater(d, c)
    BY <1>1, <1>2, <1>5 DEF SeenLater
  <2>2. QED
    BY <2>1, <1>5 DEF CandidatePreferred
<1>6. QED
  BY <1>3, <1>4, <1>5

LEMMA PreferredTransitive ==
    ASSUME NEW c, NEW d, NEW e, Typed(c), Typed(d), Typed(e),
           CandidatePreferred(c, d), CandidatePreferred(d, e)
    PROVE  CandidatePreferred(c, e)
<1> DEFINE sc == AccessStrength(c.access)
           sd == AccessStrength(d.access)
           se == AccessStrength(e.access)
           rc == SourceKindRank(c)
           rd == SourceKindRank(d)
           re == SourceKindRank(e)
<1>1. /\ sc \in 1..3 /\ sd \in 1..3 /\ se \in 1..3 /\ rc \in 1..2 /\ rd \in 1..2 /\ re \in 1..2
      /\ c.at \in Nat /\ d.at \in Nat /\ e.at \in Nat /\ c.id \in Nat /\ d.id \in Nat /\ e.id \in Nat
  BY RanksAreNumbers
<1>2. /\ sc > sd \/ (sc = sd /\ (rc > rd \/ rc = rd))
      /\ sd > se \/ (sd = se /\ (rd > re \/ rd = re))
  BY DEF CandidatePreferred
<1>3. sc > se \/ (sc = se /\ rc > re) \/ (sc = sd /\ sd = se /\ rc = rd /\ rd = re)
  <2> HIDE DEF sc, sd, se, rc, rd, re
  <2>1. QED
    BY <1>1, <1>2
<1>4. CASE sc > se \/ (sc = se /\ rc > re)
  BY <1>4 DEF CandidatePreferred
<1>5. CASE sc = sd /\ sd = se /\ rc = rd /\ rd = re
  <2>1. ~(sc > sd) /\ ~(sd > se) /\ ~(rc > rd) /\ ~(rd > re)
    <3> HIDE DEF sc, sd, se, rc, rd, re
    <3>1. QED
      BY <1>1, <1>5
  <2>2. /\ EndsLater(c, d) \/ (~EndsLater(c, d) /\ ~EndsLater(d, c) /\ SeenLater(c, d))
        /\ EndsLater(d, e) \/ (~EndsLater(d, e) /\ ~EndsLater(e, d) /\ SeenLater(d, e))
    BY <2>1 DEF CandidatePreferred
  <2>3. /\ EndsLater(c, d) /\ EndsLater(d, e) => EndsLater(c, e)
        /\ EndsLater(c, d) /\ ~EndsLater(e, d) => EndsLater(c, e)
        /\ ~EndsLater(d, c) /\ EndsLater(d, e) => EndsLater(c, e)
        /\ ~EndsLater(d, c) /\ ~EndsLater(e, d) => ~EndsLater(e, c)
    BY <1>5, LastingOrder
  <2>4. SeenLater(c, d) /\ SeenLater(d, e) => SeenLater(c, e)
    BY <1>1 DEF SeenLater
  <2>5. EndsLater(c, e) \/ (~EndsLater(c, e) /\ ~EndsLater(e, c) /\ SeenLater(c, e))
    BY <2>2, <2>3, <2>4
  <2>6. QED
    BY <1>5, <2>5 DEF CandidatePreferred
<1>6. QED
  BY <1>3, <1>4, <1>5

\* Who is preferred is not outranked.
LEMMA PreferredNotOutranked ==
    ASSUME NEW c, NEW d, Typed(c), Typed(d), CandidatePreferred(c, d)
    PROVE  ~Outranks(d, c)
<1> DEFINE sc == AccessStrength(c.access)
           sd == AccessStrength(d.access)
           rc == SourceKindRank(c)
           rd == SourceKindRank(d)
<1>1. sc \in 1..3 /\ sd \in 1..3 /\ rc \in 1..2 /\ rd \in 1..2 /\ c.ends \in Nat /\ d.ends \in Nat
  BY RanksAreNumbers
<1>2. sc > sd \/ (sc = sd /\ (rc > rd \/ (rc = rd /\ (EndsLater(c, d) \/ ~EndsLater(d, c)))))
  BY DEF CandidatePreferred
<1>3. ~(EndsLater(c, d) /\ EndsLater(d, c))
  BY <1>1 DEF EndsLater
<1>4. ~(sd > sc \/ (sd = sc /\ (rd > rc \/ (rd = rc /\ EndsLater(d, c)))))
  <2> HIDE DEF sc, sd, rc, rd
  <2>1. QED
    BY <1>1, <1>2, <1>3
<1>5. QED
  BY <1>4 DEF Outranks

LEMMA NotOutrankedBySelf ==
    ASSUME NEW c, Typed(c)
    PROVE  ~Outranks(c, c)
<1> DEFINE sc == AccessStrength(c.access)
           rc == SourceKindRank(c)
<1>1. sc \in 1..3 /\ rc \in 1..2 /\ c.ends \in Nat
  BY RanksAreNumbers
<1>2. ~(sc > sc) /\ ~(rc > rc)
  <2> HIDE DEF sc, rc
  <2>1. QED
    BY <1>1
<1>3. ~EndsLater(c, c)
  BY <1>1 DEF EndsLater
<1>4. QED
  BY <1>2, <1>3 DEF Outranks

\* Two unbeaten candidates are equally strong, of one kind, and neither ends later.
LEMMA UnbeatenAlike ==
    ASSUME NEW c, NEW d, Typed(c), Typed(d), ~Outranks(c, d), ~Outranks(d, c)
    PROVE  /\ AccessStrength(c.access) = AccessStrength(d.access)
           /\ SourceKindRank(c) = SourceKindRank(d)
           /\ ~EndsLater(c, d) /\ ~EndsLater(d, c)
<1> DEFINE sc == AccessStrength(c.access)
           sd == AccessStrength(d.access)
           rc == SourceKindRank(c)
           rd == SourceKindRank(d)
<1>1. sc \in 1..3 /\ sd \in 1..3 /\ rc \in 1..2 /\ rd \in 1..2
  BY RanksAreNumbers
<1>2. /\ ~(sd > sc \/ (sd = sc /\ (rd > rc \/ (rd = rc /\ EndsLater(d, c)))))
      /\ ~(sc > sd \/ (sc = sd /\ (rc > rd \/ (rc = rd /\ EndsLater(c, d)))))
  BY DEF Outranks
<1> HIDE DEF sc, sd, rc, rd
<1>3. sc = sd /\ rc = rd /\ ~EndsLater(c, d) /\ ~EndsLater(d, c)
  BY <1>1, <1>2
<1>4. QED
  BY <1>3 DEF sc, sd, rc, rd

\* An import only counts while no store has reported its product; grouping by source
\* leaves such candidates alone.
LEMMA ReportedAreLive ==
    ASSUME NEW C, Candidates(C)
    PROVE  /\ ReportedSources(C) = {c \in C : c.kind = "import" => ~StoreReports(c, C)}
           /\ \A c, d \in ReportedSources(C) : SameSource(c, d) => c = d
<1> DEFINE live == {c \in C : c.kind = "import" => ~StoreReports(c, C)}
<1>1. \A c, d \in live : SameSource(c, d) => c = d
  BY DEF Candidates, Typed, StoreReports, SameSource
<1>2. QED
  BY <1>1 DEF ReportedSources

LEMMA MostPreferredExists ==
    ASSUME NEW C, Candidates(C), NEW S, S \subseteq C, S # {}
    PROVE  MostPreferred(S) \in S /\ Unbeaten(MostPreferred(S), S)
<1> DEFINE R == {p \in S \X S : CandidatePreferred(p[1], p[2])}
<1>1. IsFiniteSet(S) /\ \A c \in S : Typed(c)
  BY FS_Subset DEF Candidates
<1>2. \A x, y \in S : x # y => <<x, y>> \in R \/ <<y, x>> \in R
  <2> SUFFICES ASSUME NEW x \in S, NEW y \in S, x # y
               PROVE  CandidatePreferred(x, y) \/ CandidatePreferred(y, x)
    OBVIOUS
  <2>1. x.kind # y.kind \/ x.id # y.id
    BY DEF Candidates
  <2>2. QED
    BY <1>1, <2>1, PreferredTotal
<1>3. \A x, y, z \in S : <<x, y>> \in R /\ <<y, z>> \in R => <<x, z>> \in R
  <2> SUFFICES ASSUME NEW x \in S, NEW y \in S, NEW z \in S,
                      CandidatePreferred(x, y), CandidatePreferred(y, z)
               PROVE  CandidatePreferred(x, z)
    OBVIOUS
  <2>1. QED
    BY <1>1, PreferredTransitive
<1>4. \E m \in S : \A d \in S \ {m} : <<m, d>> \in R
  <2> HIDE DEF R
  <2>1. QED
    BY <1>1, <1>2, <1>3, FiniteFirst
<1>5. MostPreferred(S) \in S /\ \A d \in S \ {MostPreferred(S)} : CandidatePreferred(MostPreferred(S), d)
  BY <1>4 DEF MostPreferred
<1>6. QED
  BY <1>1, <1>5, PreferredNotOutranked, NotOutrankedBySelf DEF Unbeaten

\* Whatever was current, the projector selects a source that none outranks.
LEMMA SelectedUnbeaten ==
    ASSUME NEW C, Candidates(C), NEW S, S = ReportedSources(C), S # {}, NEW p,
           \/ p = NoProjection
           \/ /\ p.kind \in {"store", "import"}
              /\ p.kind = "store" => \A c \in S : SameSource(c, p) => c.kind = "store"
    PROVE  Selected(p, S) \in S /\ Unbeaten(Selected(p, S), S)
<1> DEFINE chosen == MostPreferred(S)
           kept == {c \in S : p # NoProjection /\ SameSource(c, p) /\ KeepsCurrentSource(p, c, chosen)}
<1>1. S \subseteq C /\ \A c \in S : Typed(c)
  BY ReportedAreLive DEF Candidates
<1>2. chosen \in S /\ Unbeaten(chosen, S)
  BY <1>1, MostPreferredExists
<1>3. ASSUME NEW c \in kept PROVE Unbeaten(c, S)
  <2>1. /\ c \in S
        /\ AccessStrength(c.access) = AccessStrength(chosen.access) /\ ~EndsLater(chosen, c)
        /\ ~(c.kind = "import" /\ chosen.kind = "store")
    BY <1>3 DEF KeepsCurrentSource, ImportLosesToStore
  <2>2. ~Outranks(c, chosen) /\ Typed(c) /\ Typed(chosen)
    BY <1>1, <1>2, <2>1 DEF Unbeaten
  <2>3. SourceKindRank(c) = SourceKindRank(chosen)
    BY <2>1, <2>2 DEF Outranks, SourceKindRank, Typed
  <2>4. SUFFICES ASSUME NEW d \in S PROVE ~Outranks(d, c)
    BY DEF Unbeaten
  <2>5. ~Outranks(d, chosen) /\ Typed(d)
    BY <1>1, <1>2 DEF Unbeaten
  <2>6. AccessStrength(d.access) = AccessStrength(c.access) =>
            (EndsLater(d, c) => EndsLater(d, chosen))
    <3>1. SUFFICES ASSUME AccessStrength(d.access) = AccessStrength(c.access) PROVE EndsLater(d, c) => EndsLater(d, chosen)
      OBVIOUS
    <3>2. QED
      BY <2>1, <2>2, <2>5, <3>1, LastingOrder
  <2>7. QED
    BY <2>1, <2>3, <2>5, <2>6 DEF Outranks
<1>4. CASE kept = {}
  BY <1>2, <1>4 DEF Selected
<1>5. CASE kept # {}
  <2>1. Selected(p, S) \in kept
    BY <1>5 DEF Selected
  <2>2. QED
    BY <2>1, <1>3
<1>6. QED
  BY <1>4, <1>5

\* A current projection that none outranks is selected again.
LEMMA SelectedStays ==
    ASSUME NEW C, Candidates(C), NEW S, S = ReportedSources(C), NEW p, p # NoProjection,
           NEW mine \in S, Unbeaten(mine, S), SameSource(mine, p), mine.kind = p.kind
    PROVE  Selected(p, S) = mine
<1> DEFINE chosen == MostPreferred(S)
           kept == {c \in S : p # NoProjection /\ SameSource(c, p) /\ KeepsCurrentSource(p, c, chosen)}
<1>1. S \subseteq C /\ \A c \in S : Typed(c)
  BY ReportedAreLive DEF Candidates
<1>2. chosen \in S /\ Unbeaten(chosen, S)
  BY <1>1, MostPreferredExists
<1>3. /\ AccessStrength(mine.access) = AccessStrength(chosen.access)
      /\ SourceKindRank(mine) = SourceKindRank(chosen)
      /\ ~EndsLater(chosen, mine)
  BY <1>1, <1>2, UnbeatenAlike DEF Unbeaten
<1>4. mine \in kept
  BY <1>1, <1>2, <1>3 DEF KeepsCurrentSource, ImportLosesToStore, SourceKindRank
<1>5. \A c \in kept : c = mine
  BY ReportedAreLive DEF SameSource
<1>6. QED
  BY <1>4, <1>5 DEF Selected

--------------------------------------------------------------------------------
(* What is stored, and the sources a query makes of it.                      *)

MappedProducts == {m.product : m \in Mapping.products}

Reasons == {"refunded", "purchase_valid", "paused", "billing_issue", "expired", "grace_period",
            "canceled_at_period_end", "provider_decision"}

StoreRow == [kind : {"store"}, product : {s.product : s \in Snapshots}, lineage : Lineages, access : Access, ends : Nat,
             at : Nat, id : Nat, customer : Customers]

ImportRow == [kind : {"import"}, product : MappedProducts, lineage : Nat, access : Access,
              reason : Reasons, starts : Nat, ends : Nat, at : Nat, id : Nat,
              customer : Customers, export : DOMAIN Exports \cup {NoExport}]

Source == StoreRow \cup ImportRow

\* A table of rows: finite, one row per id.
Table(T) == IsFiniteSet(T) /\ \A o, p \in T : o.id = p.id => o = p

LEMMA SourcesTyped ==
    ASSUME NEW o \in Source
    PROVE  Typed(o)
BY DEF Source, StoreRow, ImportRow, Typed

\* projectionsEqual compares everything but the sighting.
LEMMA EqualFields ==
    ASSUME NEW p \in Source, NEW q \in Source, ProjectionsEqual(p, q)
    PROVE  /\ p.kind = q.kind /\ p.product = q.product /\ p.lineage = q.lineage
           /\ p.access = q.access /\ p.ends = q.ends /\ p.id = q.id /\ p.customer = q.customer
<1> DEFINE a == [p EXCEPT !.at = 0]
           b == [q EXCEPT !.at = 0]
<1>1. a = b
  BY DEF ProjectionsEqual
<1>2. /\ a.kind = p.kind /\ a.product = p.product /\ a.lineage = p.lineage /\ a.access = p.access
      /\ a.ends = p.ends /\ a.id = p.id /\ a.customer = p.customer
  BY DEF Source, StoreRow, ImportRow
<1>3. /\ b.kind = q.kind /\ b.product = q.product /\ b.lineage = q.lineage /\ b.access = q.access
      /\ b.ends = q.ends /\ b.id = q.id /\ b.customer = q.customer
  BY DEF Source, StoreRow, ImportRow
<1>4. QED
  BY <1>1, <1>2, <1>3

\* Hiding the export of a grant changes nothing else.
LEMMA HiddenExport ==
    ASSUME NEW g \in ImportRow
    PROVE  LET h == [g EXCEPT !.export = NoExport]
           IN  /\ h \in ImportRow /\ h.kind = g.kind /\ h.product = g.product /\ h.lineage = g.lineage
               /\ h.access = g.access /\ h.ends = g.ends /\ h.at = g.at /\ h.id = g.id
               /\ h.customer = g.customer
BY DEF ImportRow

\* The rows and the grants of some customers that their query picks.
Own(table, M) == {o \in table : o.customer \in M}
FirstRows(T) == {o \in T : \A p \in T \ {o} : SameSource(o, p) => RowPrecedes(o, p)}
LastGrants(T) == {g \in T : \A h \in T \ {g} : SameSource(g, h) => SeenLater(g, h)}
Hidden(T) == {[g EXCEPT !.export = NoExport] : g \in T}

LEMMA SourcesSplit ==
    ASSUME NEW M, NEW stored, NEW imported
    PROVE  CustomerEntitlementSources(M, stored, imported)
               = FirstRows(Own(stored, M)) \cup Hidden(LastGrants(Own(imported, M)))
BY DEF CustomerEntitlementSources, FirstRows, LastGrants, Own, Hidden

LEMMA RowOrder ==
    ASSUME NEW o \in StoreRow, NEW p \in StoreRow, NEW q \in StoreRow
    PROVE  /\ o.id # p.id => RowPrecedes(o, p) \/ RowPrecedes(p, o)
           /\ ~(RowPrecedes(o, p) /\ RowPrecedes(p, o))
           /\ RowPrecedes(o, p) /\ RowPrecedes(p, q) => RowPrecedes(o, q)
<1>1. /\ o.at \in Nat /\ p.at \in Nat /\ q.at \in Nat /\ o.id \in Nat /\ p.id \in Nat /\ q.id \in Nat
  BY DEF StoreRow
<1>2. QED
  BY <1>1 DEF RowPrecedes

LEMMA GrantOrder ==
    ASSUME NEW o \in ImportRow, NEW p \in ImportRow, NEW q \in ImportRow
    PROVE  /\ o.id # p.id => SeenLater(o, p) \/ SeenLater(p, o)
           /\ ~(SeenLater(o, p) /\ SeenLater(p, o))
           /\ SeenLater(o, p) /\ SeenLater(p, q) => SeenLater(o, q)
<1>1. /\ o.at \in Nat /\ p.at \in Nat /\ q.at \in Nat /\ o.id \in Nat /\ p.id \in Nat /\ q.id \in Nat
  BY DEF ImportRow
<1>2. QED
  BY <1>1 DEF SeenLater

\* Every source that has a row has a first one.
LEMMA FirstRowExists ==
    ASSUME NEW T, T \subseteq StoreRow, Table(T), NEW o \in T
    PROVE  \E p \in FirstRows(T) : SameSource(p, o) /\ (p = o \/ RowPrecedes(p, o))
<1> DEFINE S == {p \in T : SameSource(p, o)}
           R == {x \in S \X S : RowPrecedes(x[1], x[2])}
<1>1. IsFiniteSet(S) /\ S # {} /\ S \subseteq StoreRow /\ o \in S
  <2>1. o \in S
    BY DEF SameSource
  <2>2. QED
    BY <2>1, FS_Subset DEF Table
<1>2. \A x, y \in S : x # y => <<x, y>> \in R \/ <<y, x>> \in R
  <2> SUFFICES ASSUME NEW x \in S, NEW y \in S, x # y
               PROVE  RowPrecedes(x, y) \/ RowPrecedes(y, x)
    OBVIOUS
  <2>1. x.id # y.id
    BY DEF Table
  <2>2. QED
    BY <1>1, <2>1, RowOrder
<1>3. \A x, y, z \in S : <<x, y>> \in R /\ <<y, z>> \in R => <<x, z>> \in R
  <2> SUFFICES ASSUME NEW x \in S, NEW y \in S, NEW z \in S, RowPrecedes(x, y), RowPrecedes(y, z)
               PROVE  RowPrecedes(x, z)
    OBVIOUS
  <2>1. QED
    BY <1>1, RowOrder
<1>4. PICK p \in S : \A d \in S \ {p} : <<p, d>> \in R
  <2> HIDE DEF R, S
  <2>1. QED
    BY <1>1, <1>2, <1>3, FiniteFirst
<1>5. \A d \in S \ {p} : RowPrecedes(p, d)
  BY <1>4
<1>6. \A d \in T : SameSource(p, d) => d \in S
  BY DEF SameSource
<1>7. QED
  BY <1>1, <1>5, <1>6 DEF FirstRows

\* Every source that has a grant has one seen last.
LEMMA LastGrantExists ==
    ASSUME NEW T, T \subseteq ImportRow, Table(T), NEW o \in T
    PROVE  \E p \in LastGrants(T) : SameSource(p, o)
<1> DEFINE S == {p \in T : SameSource(p, o)}
           R == {x \in S \X S : SeenLater(x[1], x[2])}
<1>1. IsFiniteSet(S) /\ S # {} /\ S \subseteq ImportRow
  <2>1. o \in S
    BY DEF SameSource
  <2>2. QED
    BY <2>1, FS_Subset DEF Table
<1>2. \A x, y \in S : x # y => <<x, y>> \in R \/ <<y, x>> \in R
  <2> SUFFICES ASSUME NEW x \in S, NEW y \in S, x # y
               PROVE  SeenLater(x, y) \/ SeenLater(y, x)
    OBVIOUS
  <2>1. x.id # y.id
    BY DEF Table
  <2>2. QED
    BY <1>1, <2>1, GrantOrder
<1>3. \A x, y, z \in S : <<x, y>> \in R /\ <<y, z>> \in R => <<x, z>> \in R
  <2> SUFFICES ASSUME NEW x \in S, NEW y \in S, NEW z \in S, SeenLater(x, y), SeenLater(y, z)
               PROVE  SeenLater(x, z)
    OBVIOUS
  <2>1. QED
    BY <1>1, GrantOrder
<1>4. PICK p \in S : \A d \in S \ {p} : <<p, d>> \in R
  <2> HIDE DEF R, S
  <2>1. QED
    BY <1>1, <1>2, <1>3, FiniteFirst
<1>5. \A d \in S \ {p} : SeenLater(p, d)
  BY <1>4
<1>6. \A d \in T : SameSource(p, d) => d \in S
  BY DEF SameSource
<1>7. QED
  BY <1>5, <1>6 DEF LastGrants

\* What the query returns is fit for the projector.
LEMMA SourcesAreCandidates ==
    ASSUME NEW M, NEW stored, NEW imported, stored \subseteq StoreRow, imported \subseteq ImportRow,
           Table(stored), Table(imported)
    PROVE  LET C == CustomerEntitlementSources(M, stored, imported)
           IN  Candidates(C) /\ C \subseteq Source
<1> DEFINE A == FirstRows(Own(stored, M))
           G == LastGrants(Own(imported, M))
           B == Hidden(G)
<1>1. A \subseteq stored /\ G \subseteq imported
  BY DEF FirstRows, LastGrants, Own
<1>2. B \subseteq ImportRow /\ A \subseteq StoreRow
  BY <1>1, HiddenExport DEF Hidden
<1>3. IsFiniteSet(A) /\ IsFiniteSet(G)
  BY <1>1, FS_Subset DEF Table
<1>4. IsFiniteSet(B)
  <2> DEFINE f == [g \in G |-> [g EXCEPT !.export = NoExport]]
  <2>1. f \in Surjection(G, B)
    BY DEF Surjection, Hidden
  <2>2. QED
    BY <1>3, <2>1, FS_Surjection
<1>5. IsFiniteSet(A \cup B)
  BY <1>3, <1>4, FS_Union
<1>6. \A c, d \in A : (c.id = d.id \/ SameSource(c, d)) => c = d
  <2> SUFFICES ASSUME NEW c \in A, NEW d \in A, SameSource(c, d), c # d PROVE FALSE
    BY <1>1 DEF Table
  <2>1. RowPrecedes(c, d) /\ RowPrecedes(d, c)
    BY DEF FirstRows, SameSource
  <2>2. QED
    BY <1>2, <2>1, RowOrder
<1>7. \A c, d \in G : (c.id = d.id \/ SameSource(c, d)) => c = d
  <2> SUFFICES ASSUME NEW c \in G, NEW d \in G, SameSource(c, d), c # d PROVE FALSE
    BY <1>1 DEF Table
  <2>1. SeenLater(c, d) /\ SeenLater(d, c)
    BY DEF LastGrants, SameSource
  <2>2. QED
    BY <1>1, <2>1, GrantOrder
<1>8. \A c, d \in B : (c.id = d.id \/ SameSource(c, d)) => c = d
  <2> SUFFICES ASSUME NEW c \in B, NEW d \in B, c.id = d.id \/ SameSource(c, d) PROVE c = d
    OBVIOUS
  <2>1. PICK g \in G : c = [g EXCEPT !.export = NoExport]
    BY DEF Hidden
  <2>2. PICK h \in G : d = [h EXCEPT !.export = NoExport]
    BY DEF Hidden
  <2>3. g.id = h.id \/ SameSource(g, h)
    BY <1>1, <2>1, <2>2, HiddenExport DEF SameSource
  <2>4. QED
    BY <1>7, <2>1, <2>2, <2>3
<1>9. /\ \A c \in A : c.kind = "store"
      /\ \A c \in B : c.kind = "import"
  BY <1>2 DEF StoreRow, ImportRow
<1>10. \A c, d \in A \cup B : c.kind = d.kind /\ (c.id = d.id \/ SameSource(c, d)) => c = d
  BY <1>6, <1>8, <1>9
<1>11. A \cup B \subseteq Source
  BY <1>2 DEF Source
<1>12. Candidates(A \cup B)
  BY <1>5, <1>10, <1>11, SourcesTyped DEF Candidates
<1>13. QED
  BY <1>11, <1>12, SourcesSplit

--------------------------------------------------------------------------------
(* The inductive invariant.                                                  *)

\* Two customers stand for one: the same customer is behind them.
Together(x, y) == ResolveCustomer(x) = ResolveCustomer(y)

EventTypes ==
    /\ current \in [Customers -> Source \cup {NoProjection}]
    /\ version \in [Customers -> Nat]
    /\ outbox \subseteq [customer : Customers, version : Nat \ {0}, access : Access]
    /\ silent \subseteq Customers \X Nat

TypeOK ==
    /\ now \in Nat \ {0}
    /\ merged \in [Customers -> Customers \cup {NoCustomer}]
    /\ rows \subseteq StoreRow /\ Table(rows)
    /\ grants \subseteq ImportRow /\ Table(grants)
    /\ EventTypes
    /\ request \in [Requests -> {Idle} \cup [pc : {"queried", "normalized", "committed"},
                                            snapshot : Snapshots, customer : Customers, at : 0..now]]
    /\ newest \subseteq [lineage : Lineages, product : {s.product : s \in Snapshots}, at : Nat,
                         allowed : BOOLEAN]
    /\ DOMAIN importer = Importers

\* A merged customer's canonical one is not merged itself.
NoChains == \A c \in Customers : merged[c] # NoCustomer => Canonical(merged[c])

\* A row is the snapshot of its id, kept for the customer its lineage belongs to.
RowsOwned ==
    \A o \in rows :
        /\ \E s \in Snapshots : /\ o.id = s.id /\ o.lineage = s.lineage /\ o.product = s.product
                                 /\ o.access = s.access /\ o.ends = s.ends
        /\ Together(o.customer, Owner[o.lineage])

\* A grant's id names its customer and purchase.
GrantsNamed == \A g \in grants : g.id = GrantID(g.customer, g)

\* The newest answer about a lineage and product is that of its rows seen last.
NewestIsLatest ==
    /\ \A m, n \in newest : SameSource(m, n) => m = n
    /\ \A o \in rows : \E n \in newest : SameSource(o, n) /\ o.at <= n.at
    /\ \A n \in newest :
           /\ \E o \in rows : SameSource(o, n) /\ o.at = n.at
           /\ n.allowed <=> \E o \in rows : SameSource(o, n) /\ o.at = n.at /\ o.access = "allowed"

\* A projection is, but for the time it was seen, a reported source none outranks.
SettledOn(p, C) ==
    LET S == ReportedSources(C)
    IN  IF S = {} THEN p = NoProjection
        ELSE p # NoProjection /\ \E mine \in S : ProjectionsEqual(p, mine) /\ Unbeaten(mine, S)

SourcesOf(c) == CustomerEntitlementSources(CustomerClosure(c, merged), rows, grants)

Settled == \A c \in Customers : Canonical(c) => SettledOn(current[c], SourcesOf(c))

\* The versions of a projection are those of its events and its silent writes; the event
\* of the last version says what a read of the projection said when it was written.
Events ==
    /\ \A e \in outbox :
           /\ e.version <= version[e.customer] /\ <<e.customer, e.version>> \notin silent
           /\ \A f \in outbox : f.customer = e.customer /\ f.version = e.version => f = e
           /\ e.version = version[e.customer] =>
                  /\ current[e.customer] # NoProjection
                  /\ \E t \in 0..now : e.access = AccessAt(current[e.customer], t)
    /\ \A x \in silent : x[2] <= version[x[1]]
    /\ \A c \in Customers : \A v \in 1..version[c] :
           <<c, v>> \in silent \/ \E e \in outbox : e.customer = c /\ e.version = v

\* The grants of a subscriber are stored, under the customer the subscriber has become.
Stored(s) == \A h \in s.grants : \E g \in grants : SameSource(g, h) /\ Together(g.customer, s.id)

\* Every purchase of a draft read at t is stored.
Imported(d, t) ==
    /\ d.id \in Customers
    /\ \A row \in Range(d.rows) : \A e \in row.entitlements :
           \E h \in mapGrant(row, e, t), g \in grants : SameSource(g, h) /\ Together(g.customer, d.id)

\* A command under way goes through its plan: what is planned is done, to be done or failed.
Running(q) ==
    /\ q.pc \in {"planned", "applying"}
    /\ q \in [pc : {"planned", "applying"}, export : {k.export : k \in Commands},
              batch : {k.batch : k \in Commands}, webhooks : {k.webhooks : k \in Commands},
              at : 1..now, skipped : SUBSET AnonymousIds, todo : {q.todo}, failed : BOOLEAN]
    /\ \E sk \in {k.skipAnonymous : k \in Commands} :
           LET plan == Plan(Exports[q.export], sk, q.at)
           IN  /\ q.todo \subseteq {<<k, plan[k]>> : k \in {j \in DOMAIN plan : ~plan[j].skipped /\ ~plan[j].fatal}}
               /\ q.failed \/ \A k \in DOMAIN plan :
                      \/ plan[k].skipped /\ plan[k].id \in q.skipped
                      \/ ~plan[k].skipped /\ ~plan[k].fatal /\ (<<k, plan[k]>> \in q.todo \/ Stored(plan[k]))

\* A command that ended well imported every subscriber it did not skip.
EndedWell(q) ==
    /\ q \in [pc : {"ended"}, exit : {0}, export : {k.export : k \in Commands}, at : 1..now,
              skipped : SUBSET AnonymousIds]
    /\ \A d \in Range(parseExport(Exports[q.export], q.at)) : d.id \in q.skipped \/ Imported(d, q.at)

Commanded ==
    \A i \in Importers :
        \/ importer[i] \in {Idle, [pc |-> "ended", exit |-> 1], [pc |-> "ended", exit |-> 2]}
        \/ EndedWell(importer[i]) \/ Running(importer[i])

IInv ==
    /\ TypeOK /\ NoChains /\ RowsOwned /\ GrantsNamed /\ NewestIsLatest /\ Settled /\ Events
    /\ Commanded /\ AllowedImportIsPaid

--------------------------------------------------------------------------------
(* One refresh of a projection.                                              *)

\* The source of a projection is still among the candidates.
Known(p, C) == p = NoProjection \/ (p \in Source /\ \E c \in C : c.kind = p.kind /\ SameSource(c, p))

LEMMA SourceIsProjection ==
    ASSUME NEW p \in Source
    PROVE  p # NoProjection /\ p.kind \in {"store", "import"}
BY DEF Source, StoreRow, ImportRow, NoProjection

\* Some candidate of a customer who has any is reported.
LEMMA SomeReported ==
    ASSUME NEW C, Candidates(C), C # {}
    PROVE  ReportedSources(C) # {}
BY ReportedAreLive DEF StoreReports, Candidates, Typed

LEMMA SettledKnown ==
    ASSUME NEW C, Candidates(C), C \subseteq Source, NEW p \in Source \cup {NoProjection}, SettledOn(p, C)
    PROVE  Known(p, C)
<1>1. CASE p = NoProjection
  BY <1>1 DEF Known
<1>2. CASE p # NoProjection
  <2>1. PICK mine \in ReportedSources(C) : ProjectionsEqual(p, mine)
    BY <1>2 DEF SettledOn
  <2>2. mine \in C /\ mine \in Source /\ p \in Source
    BY <1>2, ReportedAreLive
  <2>3. mine.kind = p.kind /\ SameSource(mine, p)
    BY <2>1, <2>2, EqualFields DEF SameSource
  <2>4. QED
    BY <2>2, <2>3 DEF Known
<1>3. QED
  BY <1>1, <1>2

\* The source of a projection is reported, or superseded by a store.
LEMMA KnownReported ==
    ASSUME NEW C, Candidates(C), NEW p, p # NoProjection, Known(p, C)
    PROVE  /\ CurrentSourceReported(p, ReportedSources(C), C)
           /\ p.kind = "store" => \A c \in ReportedSources(C) : SameSource(c, p) => c.kind = "store"
<1>1. PICK c \in C : c.kind = p.kind /\ SameSource(c, p)
  BY DEF Known
<1>2. CurrentSourceReported(p, ReportedSources(C), C)
  BY <1>1, ReportedAreLive DEF CurrentSourceReported, StoreReports, SameSource
<1>3. p.kind = "store" => \A d \in ReportedSources(C) : SameSource(d, p) => d.kind = "store"
  <2> SUFFICES ASSUME p.kind = "store", NEW d \in ReportedSources(C), SameSource(d, p)
               PROVE  d.kind = "store"
    OBVIOUS
  <2>1. StoreReports(d, C)
    BY <1>1 DEF StoreReports, SameSource
  <2>2. QED
    BY <2>1, ReportedAreLive DEF Candidates, Typed
<1>4. QED
  BY <1>2, <1>3

\* Project applies an unbeaten source whenever there is one.
LEMMA ProjectSelects ==
    ASSUME NEW C, Candidates(C), C \subseteq Source, NEW p, Known(p, C)
    PROVE  /\ C = {} => Project(p, C) = NoProjection /\ p = NoProjection
           /\ C # {} => /\ Project(p, C) \in ReportedSources(C)
                        /\ Project(p, C) \in Source
                        /\ Project(p, C) = Selected(p, ReportedSources(C))
                        /\ Unbeaten(Project(p, C), ReportedSources(C))
<1> DEFINE S == ReportedSources(C)
<1>1. CASE C = {}
  BY <1>1 DEF Project, ReportedSources, Known
<1>2. CASE C # {}
  <2>1. S # {} /\ S \subseteq C
    BY <1>2, SomeReported, ReportedAreLive
  <2>2. \/ p = NoProjection
        \/ /\ p.kind \in {"store", "import"}
           /\ p.kind = "store" => \A c \in S : SameSource(c, p) => c.kind = "store"
    <3>1. CASE p # NoProjection
      BY <3>1, KnownReported, SourceIsProjection DEF Known
    <3>2. QED
      BY <3>1
  <2>3. Selected(p, S) \in S /\ Unbeaten(Selected(p, S), S)
    BY <2>1, <2>2, SelectedUnbeaten
  <2>4. p # NoProjection => CurrentSourceReported(p, S, C)
    BY KnownReported
  <2>5. Project(p, C) = Selected(p, S)
    BY <2>1, <2>4 DEF Project
  <2>6. QED
    BY <1>2, <2>1, <2>3, <2>5
<1>3. QED
  BY <1>1, <1>2

\* A refresh leaves the customer's projection settled, and nobody else's changed.
LEMMA RefreshSettles ==
    ASSUME NEW c \in Customers, NEW stored, NEW imported, NEW into, NEW at, NEW webhooks, NEW C,
           C = CustomerEntitlementSources(CustomerClosure(c, into), stored, imported),
           Candidates(C), C \subseteq Source, Known(current[c], C),
           current \in [Customers -> Source \cup {NoProjection}],
           Refresh(c, stored, imported, into, at, webhooks)
    PROVE  /\ current' \in [Customers -> Source \cup {NoProjection}]
           /\ \A d \in Customers \ {c} : current'[d] = current[d]
           /\ SettledOn(current'[c], C)
<1> DEFINE q == Project(current[c], C)
           changed == PutEntitlement(c, q)
<1>1. current' = IF changed THEN [current EXCEPT ![c] = q] ELSE current
  BY DEF Refresh
<1>2. /\ C = {} => q = NoProjection /\ current[c] = NoProjection
      /\ C # {} => q \in ReportedSources(C) /\ q \in Source /\ Unbeaten(q, ReportedSources(C))
  BY ProjectSelects
<1>3. C = {} => ReportedSources(C) = {}
  BY DEF ReportedSources
<1>4. CASE changed
  <2>1. q # NoProjection
    BY <1>4 DEF PutEntitlement
  <2>2. q \in Source /\ q \in ReportedSources(C) /\ Unbeaten(q, ReportedSources(C))
    BY <1>2, <2>1
  <2>3. current'[c] = q
    BY <1>1, <1>4
  <2>4. SettledOn(q, C)
    BY <2>1, <2>2 DEF SettledOn, ProjectionsEqual
  <2>5. QED
    BY <1>1, <1>4, <2>2, <2>3, <2>4
<1>5. CASE ~changed
  <2>1. current' = current
    BY <1>1, <1>5
  <2>2. SettledOn(current[c], C)
    <3>1. CASE C = {}
      BY <1>2, <1>3, <3>1 DEF SettledOn
    <3>2. CASE C # {}
      <4>1. q # NoProjection
        BY <1>2, <3>2, SourceIsProjection
      <4>2. current[c] # NoProjection /\ ProjectionsEqual(current[c], q)
        BY <1>5, <4>1 DEF PutEntitlement
      <4>3. QED
        BY <1>2, <3>2, <4>2 DEF SettledOn
    <3>3. QED
      BY <3>1, <3>2
  <2>3. QED
    BY <2>1, <2>2
<1>6. QED
  BY <1>4, <1>5

\* A settled projection is left alone, and no event says otherwise.
LEMMA RefreshIdle ==
    ASSUME NEW c \in Customers, NEW stored, NEW imported, NEW into, NEW at, NEW webhooks, NEW C,
           C = CustomerEntitlementSources(CustomerClosure(c, into), stored, imported),
           Candidates(C), C \subseteq Source, SettledOn(current[c], C),
           current \in [Customers -> Source \cup {NoProjection}],
           Refresh(c, stored, imported, into, at, webhooks)
    PROVE  UNCHANGED <<current, version, outbox, silent>>
<1> DEFINE q == Project(current[c], C)
<1>1. Known(current[c], C)
  BY SettledKnown
<1>2. ~PutEntitlement(c, q)
  <2>1. CASE C = {}
    BY <1>1, <2>1, ProjectSelects DEF PutEntitlement
  <2>2. CASE C # {}
    <3>1. q = Selected(current[c], ReportedSources(C))
      BY <1>1, <2>2, ProjectSelects
    <3>2. current[c] # NoProjection
      BY <2>2, SomeReported DEF SettledOn
    <3>3. PICK mine \in ReportedSources(C) :
              ProjectionsEqual(current[c], mine) /\ Unbeaten(mine, ReportedSources(C))
      BY <2>2, SomeReported DEF SettledOn
    <3>4. mine \in Source /\ current[c] \in Source
      BY <3>2, ReportedAreLive
    <3>5. SameSource(mine, current[c]) /\ mine.kind = current[c].kind
      BY <3>3, <3>4, EqualFields DEF SameSource
    <3>6. q = mine
      BY <3>1, <3>2, <3>3, <3>5, SelectedStays
    <3>7. QED
      BY <3>2, <3>3, <3>6 DEF PutEntitlement
  <2>3. QED
    BY <2>1, <2>2
<1>3. QED
  BY <1>2 DEF Refresh

\* What is written of a refreshed projection: at most its next version, with one event or
\* none, as a read at that instant would show it.
LEMMA RefreshWrites ==
    ASSUME NEW c \in Customers, NEW stored, NEW imported, NEW into, NEW at, NEW webhooks, NEW C,
           C = CustomerEntitlementSources(CustomerClosure(c, into), stored, imported),
           Candidates(C), C \subseteq Source, Known(current[c], C),
           current \in [Customers -> Source \cup {NoProjection}],
           Refresh(c, stored, imported, into, at, webhooks)
    PROVE  \/ UNCHANGED <<current, version, outbox, silent>>
           \/ \E q \in Source :
                  /\ current' = [current EXCEPT ![c] = q]
                  /\ version' = [version EXCEPT ![c] = @ + 1]
                  /\ \/ /\ outbox' = outbox \cup {[customer |-> c, version |-> version[c] + 1,
                                                  access |-> AccessAt(q, at)]}
                        /\ silent' = silent
                     \/ outbox' = outbox /\ silent' = silent \cup {<<c, version[c] + 1>>}
<1> DEFINE q == Project(current[c], C)
           changed == PutEntitlement(c, q)
<1>1. CASE ~changed
  BY <1>1 DEF Refresh
<1>2. CASE changed
  <2>1. q \in Source
    BY <1>2, ProjectSelects DEF PutEntitlement
  <2>2. /\ current' = [current EXCEPT ![c] = q]
        /\ version' = [version EXCEPT ![c] = @ + 1]
    BY <1>2 DEF Refresh
  <2>3. \/ /\ outbox' = outbox \cup {[customer |-> c, version |-> version[c] + 1, access |-> AccessAt(q, at)]}
           /\ silent' = silent
        \/ outbox' = outbox /\ silent' = silent \cup {<<c, version[c] + 1>>}
    <3>1. CASE webhooks
      BY <1>2, <3>1 DEF Refresh, NewEntitlementEvent
    <3>2. CASE ~webhooks
      BY <1>2, <3>2 DEF Refresh
    <3>3. QED
      BY <3>1, <3>2
  <2>4. QED
    BY <2>1, <2>2, <2>3
<1>3. QED
  BY <1>1, <1>2

\* The events stay one per version, and about the projection.
LEMMA RefreshEvents ==
    ASSUME NEW c \in Customers, NEW stored, NEW imported, NEW into, NEW at \in 0..now, NEW webhooks, NEW C,
           C = CustomerEntitlementSources(CustomerClosure(c, into), stored, imported),
           Candidates(C), C \subseteq Source, Known(current[c], C), now \in Nat, UNCHANGED now,
           EventTypes, Events, Refresh(c, stored, imported, into, at, webhooks)
    PROVE  EventTypes' /\ Events'
<1>1. CASE UNCHANGED <<current, version, outbox, silent>>
  BY <1>1 DEF EventTypes, Events
<1>2. CASE ~UNCHANGED <<current, version, outbox, silent>>
  <2>1. PICK q \in Source :
            /\ current' = [current EXCEPT ![c] = q]
            /\ version' = [version EXCEPT ![c] = @ + 1]
            /\ \/ /\ outbox' = outbox \cup {[customer |-> c, version |-> version[c] + 1,
                                            access |-> AccessAt(q, at)]}
                  /\ silent' = silent
               \/ outbox' = outbox /\ silent' = silent \cup {<<c, version[c] + 1>>}
    BY <1>2, RefreshWrites DEF EventTypes
  <2> DEFINE v == version[c] + 1
             event == [customer |-> c, version |-> v, access |-> AccessAt(q, at)]
  <2>2. /\ version[c] \in Nat /\ v \in Nat \ {0} /\ version'[c] = v /\ current'[c] = q
        /\ \A d \in Customers \ {c} : version'[d] = version[d] /\ current'[d] = current[d]
    BY <2>1 DEF EventTypes
  <2>3. AccessAt(q, at) \in Access
    BY SourcesTyped DEF AccessAt, Typed, Access
  <2>4. EventTypes'
    <3>1. event \in [customer : Customers, version : Nat \ {0}, access : Access]
      BY <2>2, <2>3
    <3>2. <<c, v>> \in Customers \X Nat
      BY <2>2
    <3>3. /\ current' \in [Customers -> Source \cup {NoProjection}]
          /\ version' \in [Customers -> Nat]
      BY <2>1, <2>2 DEF EventTypes
    <3>4. QED
      BY <2>1, <3>1, <3>2, <3>3 DEF EventTypes
  <2>5. \A e \in outbox : /\ e.customer \in Customers /\ e.version \in Nat /\ e.version <= version[e.customer]
                          /\ version[e.customer] \in Nat
                          /\ e.customer = c => e.version # v
    <3> SUFFICES ASSUME NEW e \in outbox
                 PROVE  /\ e.customer \in Customers /\ e.version \in Nat
                        /\ e.version <= version[e.customer] /\ version[e.customer] \in Nat
                        /\ e.customer = c => e.version # v
      OBVIOUS
    <3>1. e.customer \in Customers /\ e.version \in Nat
      BY DEF EventTypes
    <3>2. e.version <= version[e.customer] /\ version[e.customer] \in Nat
      BY <3>1 DEF EventTypes, Events
    <3>3. QED
      BY <3>1, <3>2
  <2>6. \A x \in silent : x[1] \in Customers /\ x[2] \in Nat /\ x[2] <= version[x[1]] /\ x # <<c, v>>
    BY <2>2 DEF EventTypes, Events
  <2>7. ASSUME NEW e \in outbox'
        PROVE  /\ e.version <= version'[e.customer] /\ <<e.customer, e.version>> \notin silent'
               /\ \A f \in outbox' : f.customer = e.customer /\ f.version = e.version => f = e
               /\ e.version = version'[e.customer] =>
                      /\ current'[e.customer] # NoProjection
                      /\ \E t \in 0..now : e.access = AccessAt(current'[e.customer], t)
    <3>1. CASE e \in outbox
      <4>1. e.version <= version'[e.customer]
        BY <2>2, <2>5, <3>1
      <4>2. <<e.customer, e.version>> \notin silent'
        BY <2>1, <2>5, <3>1 DEF Events
      <4>3. \A f \in outbox' : f.customer = e.customer /\ f.version = e.version => f = e
        <5> SUFFICES ASSUME NEW f \in outbox', f.customer = e.customer, f.version = e.version PROVE f = e
          OBVIOUS
        <5>1. f \in outbox \/ f = event
          BY <2>1
        <5>2. f # event
          BY <2>5, <3>1
        <5>3. QED
          BY <3>1, <5>1, <5>2 DEF Events
      <4>4. e.version = version'[e.customer] => e.customer # c
        BY <2>2, <2>5, <3>1
      <4>5. QED
        BY <2>2, <2>5, <3>1, <4>1, <4>2, <4>3, <4>4 DEF Events
    <3>2. CASE e \notin outbox
      <4>1. e = event /\ outbox' = outbox \cup {event} /\ silent' = silent
        BY <2>1, <3>2
      <4>2. e.customer = c /\ e.version = v /\ e.access = AccessAt(q, at)
        BY <4>1
      <4>3. \A f \in outbox' : f.customer = e.customer /\ f.version = e.version => f = e
        BY <2>5, <4>1, <4>2
      <4>4. e.version <= version'[e.customer] /\ <<e.customer, e.version>> \notin silent'
        BY <2>2, <2>6, <4>1, <4>2
      <4>5. /\ current'[e.customer] # NoProjection
            /\ \E t \in 0..now : e.access = AccessAt(current'[e.customer], t)
        BY <2>2, <4>2, SourceIsProjection
      <4>6. QED
        BY <4>3, <4>4, <4>5
    <3>3. QED
      BY <3>1, <3>2
  <2>8. \A x \in silent' : x[2] <= version'[x[1]]
    BY <2>1, <2>2, <2>6
  <2>9. ASSUME NEW d \in Customers, NEW w \in 1..version'[d]
        PROVE  <<d, w>> \in silent' \/ \E e \in outbox' : e.customer = d /\ e.version = w
    <3>1. CASE d = c /\ w = v
      <4>1. event.customer = d /\ event.version = w
        BY <3>1
      <4>2. QED
        BY <2>1, <3>1, <4>1
    <3>2. CASE ~(d = c /\ w = v)
      <4>1. w \in 1..version[d]
        BY <2>2, <3>2
      <4>2. <<d, w>> \in silent \/ \E e \in outbox : e.customer = d /\ e.version = w
        BY <4>1 DEF Events
      <4>3. QED
        BY <2>1, <4>2
    <3>3. QED
      BY <3>1, <3>2
  <2>10. Events'
    BY <2>7, <2>8, <2>9 DEF Events
  <2>11. QED
    BY <2>4, <2>10
<1>3. QED
  BY <1>1, <1>2

\* A projection's source stays among the candidates while its rows and grants do.
LEMMA SourcesKept ==
    ASSUME NEW M, NEW N, NEW stored, NEW imported, NEW stored2, NEW imported2,
           stored \subseteq StoreRow, imported \subseteq ImportRow,
           stored2 \subseteq StoreRow, imported2 \subseteq ImportRow, Table(stored2), Table(imported2),
           \A o \in Own(stored, M) : \E p \in Own(stored2, N) : SameSource(p, o),
           \A g \in Own(imported, M) : \E h \in Own(imported2, N) : SameSource(h, g),
           NEW p, Known(p, CustomerEntitlementSources(M, stored, imported))
    PROVE  Known(p, CustomerEntitlementSources(N, stored2, imported2))
<1> SUFFICES ASSUME p # NoProjection
             PROVE  \E d \in CustomerEntitlementSources(N, stored2, imported2) :
                        d.kind = p.kind /\ SameSource(d, p)
  BY DEF Known
<1>1. PICK c \in FirstRows(Own(stored, M)) \cup Hidden(LastGrants(Own(imported, M))) :
          c.kind = p.kind /\ SameSource(c, p)
  BY SourcesSplit DEF Known
<1>2. CASE c \in FirstRows(Own(stored, M))
  <2>1. c \in Own(stored, M) /\ c \in StoreRow
    BY <1>2 DEF FirstRows, Own
  <2>2. PICK o \in Own(stored2, N) : SameSource(o, c)
    BY <2>1
  <2>3. Own(stored2, N) \subseteq StoreRow /\ Table(Own(stored2, N))
    BY FS_Subset DEF Table, Own
  <2>4. PICK d \in FirstRows(Own(stored2, N)) : SameSource(d, o)
    BY <2>3, FirstRowExists
  <2>5. d \in StoreRow
    BY <2>3, <2>4 DEF FirstRows
  <2>6. d.kind = p.kind /\ SameSource(d, p)
    BY <1>1, <2>1, <2>2, <2>4, <2>5 DEF StoreRow, SameSource
  <2>7. QED
    BY <2>4, <2>6, SourcesSplit
<1>3. CASE c \in Hidden(LastGrants(Own(imported, M)))
  <2>1. PICK g \in LastGrants(Own(imported, M)) : c = [g EXCEPT !.export = NoExport]
    BY <1>3 DEF Hidden
  <2>2. g \in Own(imported, M) /\ g \in ImportRow
    BY <2>1 DEF LastGrants, Own
  <2>3. PICK o \in Own(imported2, N) : SameSource(o, g)
    BY <2>2
  <2>4. Own(imported2, N) \subseteq ImportRow /\ Table(Own(imported2, N))
    BY FS_Subset DEF Table, Own
  <2>5. PICK d \in LastGrants(Own(imported2, N)) : SameSource(d, o)
    BY <2>4, LastGrantExists
  <2>6. d \in ImportRow
    BY <2>4, <2>5 DEF LastGrants
  <2> DEFINE e == [d EXCEPT !.export = NoExport]
  <2>7. e \in Hidden(LastGrants(Own(imported2, N)))
    BY <2>5 DEF Hidden
  <2>8. /\ e.kind = d.kind /\ e.product = d.product /\ e.lineage = d.lineage
        /\ c.kind = g.kind /\ c.product = g.product /\ c.lineage = g.lineage
    BY <2>1, <2>2, <2>6, HiddenExport
  <2>9. d.kind = g.kind
    BY <2>2, <2>6 DEF ImportRow
  <2> HIDE DEF e
  <2>10. e.kind = p.kind /\ SameSource(e, p)
    BY <1>1, <2>3, <2>5, <2>8, <2>9 DEF SameSource
  <2>11. QED
    BY <2>7, <2>10, SourcesSplit
<1>4. QED
  BY <1>1, <1>2, <1>3

\* Candidates that differ in when they were seen settle on the same projection.
SeenAgain(C, D) == \A c \in C : \E d \in D : ProjectionsEqual(c, d)

LEMMA SettledAnyway ==
    ASSUME NEW C, NEW D, Candidates(C), Candidates(D), C \subseteq Source, D \subseteq Source,
           SeenAgain(C, D), SeenAgain(D, C), NEW p \in Source \cup {NoProjection}, SettledOn(p, C)
    PROVE  SettledOn(p, D)
<1>1. ASSUME NEW A, NEW B, Candidates(A), Candidates(B), A \subseteq Source, B \subseteq Source,
             SeenAgain(A, B), SeenAgain(B, A), NEW c \in ReportedSources(A), NEW d \in B,
             ProjectionsEqual(c, d)
      PROVE  d \in ReportedSources(B)
  <2>1. c \in A /\ (c.kind = "import" => ~StoreReports(c, A))
    BY <1>1, ReportedAreLive
  <2>2. c.kind = d.kind /\ c.product = d.product
    BY <1>1, <2>1, EqualFields
  <2>3. ASSUME StoreReports(d, B) PROVE StoreReports(c, A)
    <3>1. PICK s \in B : s.kind = "store" /\ s.product = d.product
      BY <2>3 DEF StoreReports
    <3>2. PICK r \in A : ProjectionsEqual(s, r)
      BY <1>1 DEF SeenAgain
    <3>3. r.kind = s.kind /\ r.product = s.product
      BY <1>1, <3>2, EqualFields
    <3>4. QED
      BY <2>2, <3>1, <3>3 DEF StoreReports
  <2>4. QED
    BY <1>1, <2>1, <2>2, <2>3, ReportedAreLive
<1>2. CASE ReportedSources(C) = {}
  <2>1. C = {}
    BY <1>2, SomeReported
  <2>2. D = {}
    BY <2>1 DEF SeenAgain
  <2>3. QED
    BY <1>2, <2>1, <2>2
<1>3. CASE ReportedSources(C) # {}
  <2>1. PICK mine \in ReportedSources(C) :
            p # NoProjection /\ ProjectionsEqual(p, mine) /\ Unbeaten(mine, ReportedSources(C))
    BY <1>3 DEF SettledOn
  <2>2. mine \in C /\ mine \in Source
    BY ReportedAreLive
  <2>3. PICK also \in D : ProjectionsEqual(mine, also)
    BY <2>2 DEF SeenAgain
  <2>4. also \in ReportedSources(D)
    BY <1>1, <2>3
  <2>5. ProjectionsEqual(p, also)
    BY <2>1, <2>3 DEF ProjectionsEqual
  <2>6. ASSUME NEW e \in ReportedSources(D) PROVE ~Outranks(e, also)
    <3>1. e \in D /\ e \in Source
      BY ReportedAreLive
    <3>2. PICK d \in C : ProjectionsEqual(e, d)
      BY <3>1 DEF SeenAgain
    <3>3. d \in ReportedSources(C)
      BY <1>1, <3>2
    <3>4. ~Outranks(d, mine)
      BY <2>1, <3>3 DEF Unbeaten
    <3>5. /\ d.kind = e.kind /\ d.access = e.access /\ d.ends = e.ends
          /\ mine.kind = also.kind /\ mine.access = also.access /\ mine.ends = also.ends
      BY <2>2, <2>3, <3>1, <3>2, EqualFields
    <3>6. QED
      BY <3>4, <3>5 DEF Outranks, EndsLater, SourceKindRank
  <2>7. QED
    BY <2>1, <2>4, <2>5, <2>6 DEF SettledOn, Unbeaten
<1>4. QED
  BY <1>2, <1>3

--------------------------------------------------------------------------------
(* Customers, and who has which sources.                                     *)

LEMMA Behind ==
    ASSUME merged \in [Customers -> Customers \cup {NoCustomer}], NoChains, NEW c \in Customers
    PROVE  /\ ResolveCustomer(c) \in Customers /\ Canonical(ResolveCustomer(c))
           /\ Canonical(c) => ResolveCustomer(c) = c
BY EntitlementsAssumption DEF ResolveCustomer, Canonical, NoChains, NoCustomer

\* The closure of a canonical customer holds the customers it is behind.
LEMMA ClosureOfBehind ==
    ASSUME merged \in [Customers -> Customers \cup {NoCustomer}], NoChains,
           NEW c \in Customers, Canonical(c), NEW d \in Customers
    PROVE  d \in CustomerClosure(c, merged) <=> ResolveCustomer(d) = c
BY EntitlementsAssumption DEF ResolveCustomer, Canonical, NoChains, NoCustomer, CustomerClosure

\* A digit below the base and the rest of a number determine it.
LEMMA Digits ==
    ASSUME NEW B \in Nat, NEW x \in Nat, NEW y \in Nat, NEW c \in 0..(B - 1), NEW d \in 0..(B - 1),
           B * x + c = B * y + d
    PROVE  x = y /\ c = d
<1>1. ASSUME NEW u \in Nat, NEW w \in Nat, u < w PROVE B * u + B <= B * w
  <2>1. PICK k \in Nat : w = u + 1 + k
    <3>1. w - u - 1 \in Nat /\ w = u + 1 + (w - u - 1)
      BY <1>1
    <3>2. QED
      BY <3>1
  <2>2. B * w = B * u + B + B * k /\ B * k \in Nat /\ B * u \in Nat
    BY <2>1
  <2>3. QED
    BY <2>2
<1>2. ~(x < y) /\ ~(y < x)
  <2>1. B * x \in Nat /\ B * y \in Nat
    OBVIOUS
  <2>2. x < y => B * x + B <= B * y
    BY <1>1
  <2>3. y < x => B * y + B <= B * x
    BY <1>1
  <2> DEFINE bx == B * x
             by == B * y
  <2> HIDE DEF bx, by
  <2>4. bx \in Nat /\ by \in Nat /\ bx + c = by + d /\ (x < y => bx + B <= by) /\ (y < x => by + B <= bx)
    BY <2>1, <2>2, <2>3 DEF bx, by
  <2>5. QED
    BY <2>4
<1>3. x = y
  BY <1>2
<1>4. QED
  BY <1>3

\* Grants with one id are of one customer and one purchase.
LEMMA GrantIDNames ==
    ASSUME NEW c \in Customers, NEW d \in Customers, NEW g, NEW h,
           g.product \in MappedProducts, h.product \in MappedProducts,
           g.lineage \in Nat, h.lineage \in Nat, GrantID(c, g) = GrantID(d, h)
    PROVE  c = d /\ SameSource(g, h)
<1>1. /\ IdBase \in Nat /\ c \in 0..(IdBase - 1) /\ d \in 0..(IdBase - 1)
      /\ g.product \in 0..(IdBase - 1) /\ h.product \in 0..(IdBase - 1)
  BY EntitlementsAssumption DEF MappedProducts
<1> DEFINE x == IdBase * g.lineage + g.product
           y == IdBase * h.lineage + h.product
<1>2. x \in Nat /\ y \in Nat
  BY <1>1
<1>3. x = y /\ c = d
  <2>1. IdBase * x + c = IdBase * y + d
    BY DEF GrantID
  <2> HIDE DEF x, y
  <2>2. QED
    BY <1>1, <1>2, <2>1, Digits
<1>4. g.lineage = h.lineage /\ g.product = h.product
  BY <1>1, <1>3, Digits
<1>5. QED
  BY <1>3, <1>4 DEF SameSource

LEMMA GrantIDIsNumber ==
    ASSUME NEW c \in Customers, NEW g, g.product \in MappedProducts, g.lineage \in Nat
    PROVE  GrantID(c, g) \in Nat
<1>1. IdBase \in Nat /\ c \in Nat /\ g.product \in Nat
  BY EntitlementsAssumption DEF MappedProducts
<1> DEFINE x == IdBase * g.lineage + g.product
<1>2. x \in Nat
  BY <1>1
<1>3. IdBase * x + c \in Nat
  <2> HIDE DEF x
  <2>1. QED
    BY <1>1, <1>2
<1>4. QED
  BY <1>3 DEF GrantID

\* A transaction that refreshes the canonical customer whose rows or grants it changed
\* leaves every projection settled and every version with its event.
LEMMA Refreshed ==
    ASSUME TypeOK, Settled, Events, NEW c \in Customers, NEW at \in 0..now, NEW webhooks,
           UNCHANGED now, merged' \in [Customers -> Customers \cup {NoCustomer}],
           rows' \subseteq StoreRow, Table(rows'), grants' \subseteq ImportRow, Table(grants'),
           Canonical(c),
           \A o \in Own(rows, CustomerClosure(c, merged)) :
               \E p \in Own(rows', CustomerClosure(c, merged')) : SameSource(p, o),
           \A g \in Own(grants, CustomerClosure(c, merged)) :
               \E h \in Own(grants', CustomerClosure(c, merged')) : SameSource(h, g),
           \A d \in Customers \ {c} : Canonical(d)' =>
               /\ Canonical(d) /\ CustomerClosure(d, merged') = CustomerClosure(d, merged)
               /\ Own(rows', CustomerClosure(d, merged)) = Own(rows, CustomerClosure(d, merged))
               /\ Own(grants', CustomerClosure(d, merged)) = Own(grants, CustomerClosure(d, merged)),
           Refresh(c, rows', grants', merged', at, webhooks)
    PROVE  EventTypes' /\ Events' /\ Settled'
<1> DEFINE M == CustomerClosure(c, merged)
           N == CustomerClosure(c, merged')
           C == CustomerEntitlementSources(M, rows, grants)
           D == CustomerEntitlementSources(N, rows', grants')
<1>1. Candidates(C) /\ C \subseteq Source /\ Candidates(D) /\ D \subseteq Source
  <2> HIDE DEF M, N
  <2>1. QED
    BY SourcesAreCandidates DEF TypeOK
<1>2. EventTypes /\ now \in Nat
  BY DEF TypeOK
<1>3. current[c] \in Source \cup {NoProjection} /\ current \in [Customers -> Source \cup {NoProjection}]
  BY <1>2 DEF EventTypes
<1>4. Known(current[c], D)
  <2>1. SettledOn(current[c], C)
    BY DEF Settled, SourcesOf
  <2>2. Known(current[c], C)
    <3> HIDE DEF C
    <3>1. QED
      BY <1>1, <1>3, <2>1, SettledKnown
  <2> HIDE DEF M, N
  <2>3. /\ \A o \in Own(rows, M) : \E p \in Own(rows', N) : SameSource(p, o)
        /\ \A g \in Own(grants, M) : \E h \in Own(grants', N) : SameSource(h, g)
    BY DEF M, N
  <2>4. QED
    BY <2>2, <2>3, SourcesKept DEF TypeOK
<1>5. EventTypes' /\ Events'
  <2> HIDE DEF D
  <2>1. D = CustomerEntitlementSources(CustomerClosure(c, merged'), rows', grants')
    BY DEF D
  <2>2. QED
    BY <1>1, <1>2, <1>4, <2>1, RefreshEvents
<1>6. /\ \A d \in Customers \ {c} : current'[d] = current[d]
      /\ SettledOn(current'[c], D)
  <2> HIDE DEF D
  <2>1. D = CustomerEntitlementSources(CustomerClosure(c, merged'), rows', grants')
    BY DEF D
  <2>2. QED
    BY <1>1, <1>3, <1>4, <2>1, RefreshSettles
<1>7. ASSUME NEW d \in Customers, Canonical(d)'
      PROVE  SettledOn(current'[d], CustomerEntitlementSources(CustomerClosure(d, merged'), rows', grants'))
  <2>1. CASE d = c
    BY <1>6, <2>1
  <2>2. CASE d # c
    <3>1. /\ Canonical(d) /\ CustomerClosure(d, merged') = CustomerClosure(d, merged)
          /\ Own(rows', CustomerClosure(d, merged)) = Own(rows, CustomerClosure(d, merged))
          /\ Own(grants', CustomerClosure(d, merged)) = Own(grants, CustomerClosure(d, merged))
      BY <1>7, <2>2
    <3>2. CustomerEntitlementSources(CustomerClosure(d, merged'), rows', grants')
              = CustomerEntitlementSources(CustomerClosure(d, merged), rows, grants)
      BY <3>1, SourcesSplit
    <3>3. QED
      BY <1>6, <2>2, <3>1, <3>2 DEF Settled, SourcesOf
  <2>3. QED
    BY <2>1, <2>2
<1>8. Settled'
  BY <1>7 DEF Settled, SourcesOf
<1>9. QED
  BY <1>5, <1>8

--------------------------------------------------------------------------------
(* Saving an observation.                                                    *)

\* SaveObservation replaces the row of the snapshot, if there is one, by one seen no
\* earlier, for the same customer.
Replaced(s, at, row) ==
    /\ row \in StoreRow /\ row.id = s.id /\ row.lineage = s.lineage /\ row.product = s.product
    /\ row.access = s.access /\ row.ends = s.ends /\ row.at >= at
    /\ Together(row.customer, Owner[s.lineage])
    /\ \A o \in rows : o.id = s.id => o.at <= row.at /\ SameSource(o, row) /\ ProjectionsEqual(o, row)
    /\ row.at = at \/ \E o \in rows : o.id = s.id /\ o.at = row.at

LEMMA SnapshotTyped ==
    ASSUME NEW s \in Snapshots
    PROVE  /\ s.id \in Nat /\ s.lineage \in Lineages /\ s.ends \in Nat /\ s.access \in Access
           /\ Owner[s.lineage] \in Customers
BY EntitlementsAssumption DEF Access

LEMMA Saved ==
    ASSUME TypeOK, RowsOwned, NEW s \in Snapshots, NEW at \in Nat, NEW owner \in Customers,
           Together(owner, Owner[s.lineage])
    PROVE  \E row : /\ SaveObservation(s, at, owner) = {o \in rows : o.id # s.id} \cup {row}
                    /\ Replaced(s, at, row)
<1> DEFINE same == {o \in rows : o.id = s.id}
           seen == {at} \cup {o.at : o \in same}
           last == CHOOSE t \in seen : \A u \in seen : u <= t
           who == IF same = {} THEN owner ELSE (CHOOSE o \in same : TRUE).customer
           row == [kind |-> "store", product |-> s.product, lineage |-> s.lineage, access |-> s.access,
                   ends |-> s.ends, at |-> last, id |-> s.id, customer |-> who]
<1>1. SaveObservation(s, at, owner) = {o \in rows : o.id # s.id} \cup {row}
  BY DEF SaveObservation
<1>2. rows \subseteq StoreRow /\ \A o, p \in same : o = p
  BY DEF TypeOK, Table
<1>3. /\ s.id \in Nat /\ s.lineage \in Lineages /\ s.ends \in Nat /\ s.access \in Access
  BY SnapshotTyped
<1>4. CASE same = {}
  <2>1. seen = {at} /\ who = owner
    BY <1>4
  <2>2. last = at
    BY <2>1
  <2>3. row \in StoreRow
    BY <1>3, <2>1, <2>2 DEF StoreRow
  <2>4. Replaced(s, at, row)
    BY <1>4, <2>1, <2>2, <2>3 DEF Replaced
  <2>5. QED
    BY <1>1, <2>4
<1>5. CASE same # {}
  <2>1. PICK o \in same : TRUE
    BY <1>5
  <2>2. same = {o} /\ o \in StoreRow
    BY <1>2
  <2>3. seen = {at, o.at} /\ who = o.customer
    BY <2>2
  <2>4. o.at \in Nat /\ o.customer \in Customers
    BY <2>2 DEF StoreRow
  <2>5. last \in {at, o.at} /\ at <= last /\ o.at <= last
    <3>1. \E t \in seen : \A u \in seen : u <= t
      BY <2>3, <2>4
    <3>2. last \in seen /\ \A u \in seen : u <= last
      BY <3>1
    <3>3. QED
      BY <2>3, <3>2
  <2>6. row \in StoreRow
    BY <1>3, <2>3, <2>4, <2>5 DEF StoreRow
  <2>7. PICK z \in Snapshots : /\ o.id = z.id /\ o.lineage = z.lineage /\ o.product = z.product
                               /\ o.access = z.access /\ o.ends = z.ends
    BY <2>1 DEF RowsOwned
  <2>8. z = s
    BY <2>1, <2>7, EntitlementsAssumption
  <2>9. ProjectionsEqual(o, row) /\ SameSource(o, row)
    <3>1. o.kind = "store" /\ o.id = s.id
      BY <2>1, <2>2 DEF StoreRow
    <3>2. o = [kind |-> "store", product |-> s.product, lineage |-> s.lineage, access |-> s.access,
               ends |-> s.ends, at |-> o.at, id |-> s.id, customer |-> o.customer]
      BY <2>2, <2>7, <2>8, <3>1 DEF StoreRow
    <3>3. [o EXCEPT !.at = 0] = [kind |-> "store", product |-> s.product, lineage |-> s.lineage,
               access |-> s.access, ends |-> s.ends, at |-> 0, id |-> s.id, customer |-> o.customer]
      BY <3>2
    <3>4. [row EXCEPT !.at = 0] = [kind |-> "store", product |-> s.product, lineage |-> s.lineage,
               access |-> s.access, ends |-> s.ends, at |-> 0, id |-> s.id, customer |-> o.customer]
      <4>1. row = [kind |-> "store", product |-> s.product, lineage |-> s.lineage, access |-> s.access,
                   ends |-> s.ends, at |-> last, id |-> s.id, customer |-> o.customer]
        BY <2>3
      <4> HIDE DEF row, last
      <4>2. QED
        BY <4>1
    <3>5. QED
      BY <2>7, <2>8, <3>3, <3>4 DEF ProjectionsEqual, SameSource
  <2>10. Together(o.customer, Owner[s.lineage])
    BY <2>1, <2>7, <2>8 DEF RowsOwned
  <2>11. Replaced(s, at, row)
    BY <2>1, <2>2, <2>3, <2>4, <2>5, <2>6, <2>9, <2>10 DEF Replaced
  <2>12. QED
    BY <1>1, <2>11
<1>6. QED
  BY <1>4, <1>5

\* The table of rows keeps its form.
LEMMA SavedRows ==
    ASSUME TypeOK, RowsOwned, UNCHANGED merged, NEW s \in Snapshots, NEW at \in Nat, NEW row,
           rows' = {o \in rows : o.id # s.id} \cup {row}, Replaced(s, at, row)
    PROVE  rows' \subseteq StoreRow /\ Table(rows') /\ RowsOwned'
<1>1. rows' \subseteq StoreRow
  BY DEF Replaced, TypeOK
<1>2. IsFiniteSet(rows')
  <2>1. IsFiniteSet({o \in rows : o.id # s.id})
    BY FS_Subset DEF TypeOK, Table
  <2>2. QED
    BY <2>1, FS_AddElement
<1>3. Table(rows')
  BY <1>2 DEF Table, TypeOK, Replaced
<1>4. RowsOwned'
  BY DEF RowsOwned, Replaced, Together, ResolveCustomer
<1>5. QED
  BY <1>1, <1>3, <1>4

\* Nobody but the customer behind the lineage's owner gains or loses a row; a source that
\* had a row has one.
LEMMA SavedFor ==
    ASSUME TypeOK, NoChains, RowsOwned, UNCHANGED merged, NEW s \in Snapshots, NEW at \in Nat, NEW row,
           rows' = {o \in rows : o.id # s.id} \cup {row}, Replaced(s, at, row), NEW c,
           c = ResolveCustomer(Owner[s.lineage])
    PROVE  /\ \A d \in Customers \ {c} : Canonical(d) =>
                  Own(rows', CustomerClosure(d, merged)) = Own(rows, CustomerClosure(d, merged))
           /\ \A o \in Own(rows, CustomerClosure(c, merged)) :
                  \E p \in Own(rows', CustomerClosure(c, merged)) : SameSource(p, o)
           /\ row \in Own(rows', CustomerClosure(c, merged))
<1>1. /\ merged \in [Customers -> Customers \cup {NoCustomer}] /\ Owner[s.lineage] \in Customers
      /\ row.customer \in Customers /\ ResolveCustomer(row.customer) = c
  BY SnapshotTyped DEF TypeOK, Replaced, StoreRow, Together
<1>2. c \in Customers /\ Canonical(c)
  BY <1>1, Behind
<1>3. ASSUME NEW o \in rows, o.id = s.id PROVE o.customer \in Customers /\ ResolveCustomer(o.customer) = c
  <2>1. o.customer \in Customers
    BY DEF TypeOK, StoreRow
  <2>2. o.lineage = s.lineage
    BY <1>3 DEF Replaced, SameSource
  <2>3. QED
    BY <2>1, <2>2 DEF RowsOwned, Together
<1>4. ASSUME NEW d \in Customers \ {c}, Canonical(d)
      PROVE  Own(rows', CustomerClosure(d, merged)) = Own(rows, CustomerClosure(d, merged))
  <2>1. row.customer \notin CustomerClosure(d, merged)
    BY <1>1, <1>4, ClosureOfBehind
  <2>2. \A o \in rows : o.id = s.id => o.customer \notin CustomerClosure(d, merged)
    BY <1>1, <1>3, <1>4, ClosureOfBehind
  <2>3. QED
    BY <2>1, <2>2 DEF Own
<1>5. row \in Own(rows', CustomerClosure(c, merged))
  BY <1>1, <1>2, ClosureOfBehind DEF Own
<1>6. ASSUME NEW o \in Own(rows, CustomerClosure(c, merged))
      PROVE  \E p \in Own(rows', CustomerClosure(c, merged)) : SameSource(p, o)
  <2>1. CASE o.id = s.id
    BY <1>5, <1>6, <2>1 DEF Own, Replaced, SameSource
  <2>2. CASE o.id # s.id
    BY <1>6, <2>2 DEF Own, SameSource
  <2>3. QED
    BY <2>1, <2>2
<1>7. QED
  BY <1>4, <1>5, <1>6

LEMMA SavedNewest ==
    ASSUME TypeOK, NewestIsLatest, NEW s \in Snapshots, NEW at \in Nat, NEW row,
           rows' = {o \in rows : o.id # s.id} \cup {row}, Replaced(s, at, row),
           newest' = RecordSighting(s, at)
    PROVE  /\ newest' \subseteq [lineage : Lineages, product : {z.product : z \in Snapshots}, at : Nat,
                                 allowed : BOOLEAN]
           /\ NewestIsLatest'
<1> DEFINE known == {n \in newest : n.lineage = s.lineage /\ n.product = s.product}
           new == [lineage |-> s.lineage, product |-> s.product, at |-> at,
                   allowed |-> s.access = "allowed" \/ \E n \in known : n.at = at /\ n.allowed]
<1>1. /\ \A n \in newest : n.at \in Nat /\ n.lineage \in Lineages /\ n.allowed \in BOOLEAN
      /\ \A o \in rows : o.at \in Nat
      /\ row.at \in Nat /\ s.lineage \in Lineages
  BY SnapshotTyped DEF TypeOK, StoreRow, Replaced
<1>2. row.lineage = s.lineage /\ row.product = s.product /\ row.access = s.access /\ row.id = s.id
  BY DEF Replaced
<1>3. \A o \in rows : o.id = s.id => o.at <= row.at /\ o.lineage = s.lineage /\ o.product = s.product /\ o.access = s.access
  <2> SUFFICES ASSUME NEW o \in rows, o.id = s.id
               PROVE  o.at <= row.at /\ SameSource(o, row) /\ o.access = s.access
    BY <1>2 DEF SameSource
  <2>1. o.at <= row.at /\ SameSource(o, row) /\ ProjectionsEqual(o, row)
    BY DEF Replaced
  <2>2. o \in Source /\ row \in Source
    BY DEF TypeOK, Source, Replaced
  <2>3. QED
    BY <1>2, <2>1, <2>2, EqualFields
<1>4. row.at = at \/ \E o \in rows : o.id = s.id /\ o.at = row.at
  BY DEF Replaced
<1>5. row.at >= at
  BY DEF Replaced
<1>6. CASE \E n \in known : n.at > at
  <2>1. newest' = newest
    BY <1>6 DEF RecordSighting
  <2>2. PICK n \in known : n.at > at
    BY <1>6
  <2>4. n \in newest /\ SameSource(row, n) /\ row.at <= n.at
    BY <1>1, <1>2, <1>3, <1>4, <2>2 DEF NewestIsLatest, SameSource
  <2>5. \A m, z \in newest' : SameSource(m, z) => m = z
    BY <2>1 DEF NewestIsLatest
  <2>6. \A o \in rows' : \E m \in newest' : SameSource(o, m) /\ o.at <= m.at
    BY <2>1, <2>4 DEF NewestIsLatest
  <2>7. ASSUME NEW m \in newest'
        PROVE  /\ \E o \in rows' : SameSource(o, m) /\ o.at = m.at
               /\ m.allowed <=> \E o \in rows' : SameSource(o, m) /\ o.at = m.at /\ o.access = "allowed"
    <3>1. m \in newest
      BY <2>1
    <3>2. ASSUME NEW o \in rows, SameSource(o, m), o.at = m.at
          PROVE  \E p \in rows' : SameSource(p, m) /\ p.at = m.at /\ p.access = o.access
      <4>1. CASE o.id # s.id
        BY <3>2, <4>1
      <4>2. CASE o.id = s.id
        <5>1. m = n
          BY <1>3, <2>4, <3>1, <3>2, <4>2 DEF NewestIsLatest, SameSource
        <5>2. o.at <= row.at /\ row.at <= n.at /\ o.at = n.at
          BY <1>3, <2>4, <3>2, <4>2, <5>1
        <5>3. row.at = m.at
          BY <1>1, <5>1, <5>2
        <5>4. SameSource(row, m) /\ row.access = o.access
          BY <1>2, <1>3, <2>4, <4>2, <5>1
        <5>5. QED
          BY <5>3, <5>4
      <4>3. QED
        BY <4>1, <4>2
    <3>3. ASSUME NEW p \in rows', SameSource(p, m), p.at = m.at
          PROVE  \E o \in rows : SameSource(o, m) /\ o.at = m.at /\ p.access = o.access
      <4>1. CASE p \in rows
        BY <3>3, <4>1
      <4>2. CASE p \notin rows
        <5>1. p = row
          BY <4>2
        <5>2. m = n
          BY <2>4, <3>1, <3>3, <5>1 DEF NewestIsLatest, SameSource
        <5>3. row.at # at
          BY <1>1, <2>2, <3>3, <5>1, <5>2
        <5>4. PICK o \in rows : o.id = s.id /\ o.at = row.at
          BY <1>4, <5>3
        <5>5. SameSource(o, m) /\ o.at = m.at /\ row.access = o.access
          BY <1>2, <1>3, <3>3, <5>1, <5>4 DEF SameSource
        <5>6. QED
          BY <5>1, <5>5
      <4>3. QED
        BY <4>1, <4>2
    <3>4. /\ \E o \in rows : SameSource(o, m) /\ o.at = m.at
          /\ m.allowed <=> \E o \in rows : SameSource(o, m) /\ o.at = m.at /\ o.access = "allowed"
      BY <3>1 DEF NewestIsLatest
    <3>5. QED
      BY <3>2, <3>3, <3>4
  <2>8. QED
    BY <2>1, <2>5, <2>6, <2>7 DEF NewestIsLatest, TypeOK
<1>7. CASE ~\E n \in known : n.at > at
  <2>1. newest' = (newest \ known) \cup {new}
    BY <1>7 DEF RecordSighting
  <2>2. new.lineage = s.lineage /\ new.product = s.product /\ new.at = at
    OBVIOUS
  <2>3. new.allowed <=> s.access = "allowed" \/ \E n \in known : n.at = at /\ n.allowed
    OBVIOUS
  <2>4. new \in [lineage : Lineages, product : {z.product : z \in Snapshots}, at : Nat, allowed : BOOLEAN]
    BY <1>1
  <2> HIDE DEF new
  <2>5. \A o \in rows : SameSource(o, s) => o.at <= at
    BY <1>1, <1>7 DEF NewestIsLatest, SameSource
  <2>6. row.at = at
    BY <1>1, <1>3, <1>4, <1>5, <2>5 DEF SameSource
  <2>7. \A m, z \in newest' : SameSource(m, z) => m = z
    BY <2>1, <2>2 DEF NewestIsLatest, SameSource
  <2>8. \A o \in rows' : \E m \in newest' : SameSource(o, m) /\ o.at <= m.at
    <3> SUFFICES ASSUME NEW o \in rows' PROVE \E m \in newest' : SameSource(o, m) /\ o.at <= m.at
      OBVIOUS
    <3>1. CASE SameSource(o, s)
      <4>1. o.at <= at
        BY <1>1, <2>5, <2>6, <3>1
      <4>2. SameSource(o, new)
        BY <2>2, <3>1 DEF SameSource
      <4>3. QED
        BY <2>1, <2>2, <4>1, <4>2
    <3>2. CASE ~SameSource(o, s)
      <4>1. o \in rows
        BY <1>2, <3>2 DEF SameSource
      <4>2. PICK m \in newest : SameSource(o, m) /\ o.at <= m.at
        BY <4>1 DEF NewestIsLatest
      <4>3. m \notin known
        BY <3>2, <4>2 DEF SameSource
      <4>4. QED
        BY <2>1, <4>2, <4>3
    <3>3. QED
      BY <3>1, <3>2
  <2>9. ASSUME NEW m \in newest'
        PROVE  /\ \E o \in rows' : SameSource(o, m) /\ o.at = m.at
               /\ m.allowed <=> \E o \in rows' : SameSource(o, m) /\ o.at = m.at /\ o.access = "allowed"
    <3>1. CASE m = new
      <4>1. SameSource(row, m) /\ row.at = m.at
        BY <1>2, <2>2, <2>6, <3>1 DEF SameSource
      <4>2. ASSUME m.allowed
            PROVE  \E o \in rows' : SameSource(o, m) /\ o.at = m.at /\ o.access = "allowed"
        <5>1. CASE s.access = "allowed"
          BY <1>2, <4>1, <5>1
        <5>2. CASE s.access # "allowed"
          <6>1. PICK n \in known : n.at = at /\ n.allowed
            BY <2>3, <3>1, <4>2, <5>2
          <6>2. PICK o \in rows : SameSource(o, n) /\ o.at = n.at /\ o.access = "allowed"
            BY <6>1 DEF NewestIsLatest
          <6>3. o.id # s.id
            BY <1>3, <5>2, <6>2
          <6>4. SameSource(o, m) /\ o.at = m.at
            BY <2>2, <3>1, <6>1, <6>2 DEF SameSource
          <6>5. QED
            BY <6>2, <6>3, <6>4
        <5>3. QED
          BY <5>1, <5>2
      <4>3. ASSUME NEW o \in rows', SameSource(o, m), o.at = m.at, o.access = "allowed"
            PROVE  m.allowed
        <5>1. CASE o = row
          BY <1>2, <2>3, <3>1, <4>3, <5>1
        <5>2. CASE o # row
          <6>1. o \in rows
            BY <5>2
          <6>2. PICK n \in newest : SameSource(o, n) /\ o.at <= n.at
            BY <6>1 DEF NewestIsLatest
          <6>3. n \in known
            BY <2>2, <3>1, <4>3, <6>2 DEF SameSource
          <6>4. n.at = at
            BY <1>1, <1>7, <2>2, <3>1, <4>3, <6>2, <6>3
          <6>5. n.allowed
            BY <2>2, <3>1, <4>3, <6>1, <6>2, <6>4 DEF NewestIsLatest
          <6>6. QED
            BY <2>3, <3>1, <6>3, <6>4, <6>5
        <5>3. QED
          BY <5>1, <5>2
      <4>4. m.allowed <=> \E o \in rows' : SameSource(o, m) /\ o.at = m.at /\ o.access = "allowed"
        BY <4>2, <4>3
      <4>5. QED
        BY <4>1, <4>4
    <3>2. CASE m # new
      <4>1. m \in newest /\ m \notin known
        BY <2>1, <3>2
      <4>2. ~SameSource(row, m) /\ \A o \in rows : o.id = s.id => ~SameSource(o, m)
        BY <1>2, <1>3, <4>1 DEF SameSource
      <4>3. \A o : SameSource(o, m) => (o \in rows' <=> o \in rows)
        BY <4>2
      <4>4. QED
        BY <4>1, <4>3 DEF NewestIsLatest
    <3>3. QED
      BY <3>1, <3>2
  <2>10. QED
    BY <2>1, <2>4, <2>7, <2>8, <2>9 DEF NewestIsLatest, TypeOK
<1>8. QED
  BY <1>6, <1>7

--------------------------------------------------------------------------------
(* What an export file is read as.                                           *)

ReadRow(row) ==
    /\ row.start \in Nat /\ row.effectiveEnd \in Nat /\ row.updated \in Nat
    /\ row.lineage \in Nat /\ row.observed \in Nat

\* The rows of a draft, numbered.
ReadRows(table) ==
    /\ IsFiniteSet(DOMAIN table) /\ DOMAIN table \subseteq Nat
    /\ \A i \in DOMAIN table : ReadRow(table[i])

ReadDraft(d) == d.id \in Customers \cup InvalidIds \cup {NoId} /\ ReadRows(d.rows)

LEMMA FingerprintOfTwo ==
    ASSUME NEW a \in Nat, NEW b \in Nat, NEW provider \in Nat, NEW start \in Nat
    PROVE  Fingerprint(<<a, b>>, provider, start) \in Nat
<1> DEFINE ts == <<a, b>>
           given == {i \in DOMAIN ts : ts[i] # 0}
           least == CHOOSE i \in given : \A j \in given : i <= j
<1>1. DOMAIN ts = {1, 2} /\ ts[1] = a /\ ts[2] = b
  OBVIOUS
<1>2. CASE given # {}
  <2> HIDE DEF ts
  <2>1. \E i \in given : \A j \in given : i <= j
    BY <1>1, <1>2
  <2>2. least \in given
    BY <2>1
  <2>3. ts[least] \in Nat
    BY <1>1, <2>2
  <2>4. QED
    BY <1>2, <2>3 DEF Fingerprint, ts
<1>3. CASE given = {}
  BY <1>3 DEF Fingerprint
<1>4. QED
  BY <1>2, <1>3

LEMMA FingerprintOfOne ==
    ASSUME NEW a \in Nat, NEW provider \in Nat, NEW start \in Nat
    PROVE  Fingerprint(<<a>>, provider, start) \in Nat
<1> DEFINE ts == <<a>>
           given == {i \in DOMAIN ts : ts[i] # 0}
           least == CHOOSE i \in given : \A j \in given : i <= j
<1>1. DOMAIN ts = {1} /\ ts[1] = a
  OBVIOUS
<1>2. CASE given # {}
  <2> HIDE DEF ts
  <2>1. \E i \in given : \A j \in given : i <= j
    BY <1>1, <1>2
  <2>2. least \in given
    BY <2>1
  <2>3. ts[least] \in Nat
    BY <1>1, <2>2
  <2>4. QED
    BY <1>2, <2>3 DEF Fingerprint, ts
<1>3. CASE given = {}
  BY <1>3 DEF Fingerprint
<1>4. QED
  BY <1>2, <1>3

LEMMA TransactionRowRead ==
    ASSUME NEW r, ReadLine(r), NEW t \in Nat
    PROVE  ReadRow(transactionRow(r, t))
<1>1. /\ r.provider \in Nat /\ r.start \in Nat /\ r.effectiveEnd \in Nat /\ r.updated \in Nat
      /\ r.originalTransaction \in Nat /\ r.transaction \in Nat
  BY DEF ReadLine, Cells
<1>2. Fingerprint(<<r.originalTransaction, r.transaction>>, r.provider, r.start) \in Nat
  BY <1>1, FingerprintOfTwo
<1> DEFINE row == transactionRow(r, t)
<1>3. /\ row.start = r.start /\ row.effectiveEnd = r.effectiveEnd /\ row.updated = r.updated
      /\ row.lineage = Fingerprint(<<r.originalTransaction, r.transaction>>, r.provider, r.start)
      /\ row.observed = IF r.updated # 0 THEN r.updated ELSE t
  BY DEF transactionRow, EmptyRow
<1>4. QED
  BY <1>1, <1>2, <1>3 DEF ReadRow

\* A product bought several times has a latest purchase.
LEMMA LatestPurchaseIn ==
    ASSUME NEW list, Numbered(list), list # << >>, \A p \in Range(list) : p.purchased \in Nat
    PROVE  \E i \in DOMAIN list : LatestPurchase(list) = list[i]
<1> DEFINE S == DOMAIN list
           Later(i, j) == \/ list[j].purchased < list[i].purchased
                          \/ list[j].purchased = list[i].purchased /\ i <= j
           R == {x \in S \X S : Later(x[1], x[2])}
<1>1. IsFiniteSet(S) /\ S \subseteq Nat /\ S # {}
  <2>1. IsFiniteSet(S) /\ S \subseteq Nat /\ list = [k \in S |-> list[k]]
    BY DEF Numbered
  <2>2. ASSUME S = {} PROVE list = << >>
    BY <2>1, <2>2
  <2>3. QED
    BY <2>1, <2>2
<1>2. \A i \in S : list[i].purchased \in Nat
  BY DEF Range
<1>3. \A x, y \in S : x # y => <<x, y>> \in R \/ <<y, x>> \in R
  BY <1>1, <1>2
<1>4. \A x, y, z \in S : <<x, y>> \in R /\ <<y, z>> \in R => <<x, z>> \in R
  <2> SUFFICES ASSUME NEW x \in S, NEW y \in S, NEW z \in S, Later(x, y), Later(y, z)
               PROVE  Later(x, z)
    OBVIOUS
  <2>1. QED
    BY <1>1, <1>2
<1>5. PICK m \in S : \A d \in S \ {m} : <<m, d>> \in R
  <2>1. IsFiniteSet(S) /\ S # {}
    BY <1>1
  <2> HIDE DEF R, S
  <2>2. QED
    BY <1>3, <1>4, <2>1, FiniteFirst
<1>6. \A d \in S : Later(m, d)
  <2> SUFFICES ASSUME NEW d \in S PROVE Later(m, d)
    OBVIOUS
  <2>1. CASE d = m
    BY <1>1, <1>2, <2>1
  <2>2. CASE d # m
    BY <1>5, <2>2
  <2>3. QED
    BY <2>1, <2>2
<1>7. (CHOOSE i \in S : \A j \in S : Later(i, j)) \in S
  BY <1>6
<1>8. QED
  BY <1>7 DEF LatestPurchase
LEMMA SubscriberGrantRowRead ==
    ASSUME NEW s, ReadSubscriber(s), NEW e \in Range(s.entitlements), NEW observed \in Nat
    PROVE  ReadRow(subscriberGrantRow(e, s, observed))
<1> DEFINE row == [EmptyRow EXCEPT !.provider = e.provider, !.entitlements = {e.id}, !.observed = observed]
           subscribed == e.provider \in DOMAIN s.subscriptions
           bought == e.provider \in DOMAIN s.nonSubscriptions
           result == subscriberGrantRow(e, s, observed)
<1>1. e.provider \in Nat /\ e.expires \in Nat /\ e.grace \in Nat /\ e.purchased \in Nat
  BY DEF ReadSubscriber, Cells
<1>2. CASE subscribed /\ bought
  <2>1. result = [row EXCEPT !.ambiguous = TRUE]
    BY <1>2 DEF subscriberGrantRow
  <2>2. QED
    BY <2>1 DEF ReadRow, EmptyRow
<1>3. CASE subscribed /\ ~bought
  <2> DEFINE p == s.subscriptions[e.provider]
             filled == fillSubscriberPurchase(row, p, p.expires, p.grace)
  <2>1. result = [filled EXCEPT
                    !.refunded = p.refunded, !.unsubscribe = p.unsubscribe, !.billing = p.billing,
                    !.autoResume = p.autoResume, !.autoRenewable = TRUE,
                    !.lineage = Fingerprint(<<p.transaction>>, e.provider, p.purchased)]
    BY <1>3 DEF subscriberGrantRow
  <2>2. p \in Range(s.subscriptions)
    BY <1>3 DEF Range
  <2>3. p.purchased \in Nat /\ p.expires \in Nat /\ p.grace \in Nat /\ p.transaction \in Nat
    <3> HIDE DEF p
    <3>1. QED
      BY <2>2 DEF ReadSubscriber, Cells
  <2>4. Fingerprint(<<p.transaction>>, e.provider, p.purchased) \in Nat
    <3> HIDE DEF p
    <3>1. QED
      BY <1>1, <2>3, FingerprintOfOne
  <2>5. subscriberBoundary(p.expires, p.grace) \in Nat
    BY <2>3 DEF subscriberBoundary
  <2> HIDE DEF p
  <2>6. /\ result.start = p.purchased /\ result.effectiveEnd = subscriberBoundary(p.expires, p.grace)
        /\ result.updated = 0 /\ result.observed = observed
        /\ result.lineage = Fingerprint(<<p.transaction>>, e.provider, p.purchased)
    BY <2>1 DEF fillSubscriberPurchase, EmptyRow
  <2>7. QED
    BY <2>3, <2>4, <2>5, <2>6 DEF ReadRow
<1>4. CASE ~subscribed /\ bought /\ s.nonSubscriptions[e.provider] # << >>
  <2> DEFINE list == s.nonSubscriptions[e.provider]
             p == LatestPurchase(list)
             filled == fillSubscriberPurchase(row, p, e.expires, e.grace)
  <2>1. result = [filled EXCEPT
                    !.start = IF @ = 0 THEN e.purchased ELSE @,
                    !.lineage = Fingerprint(<<p.transaction>>, e.provider, p.purchased)]
    BY <1>4 DEF subscriberGrantRow
  <2>2. list \in Range(s.nonSubscriptions)
    BY <1>4 DEF Range
  <2>3. Numbered(list) /\ \A q \in Range(list) : q.purchased \in Nat /\ q.transaction \in Nat
    <3> HIDE DEF list
    <3>1. QED
      BY <2>2 DEF ReadSubscriber, Cells
  <2>4. \E i \in DOMAIN list : p = list[i]
    <3>1. list # << >>
      BY <1>4
    <3> HIDE DEF list
    <3>2. QED
      BY <2>3, <3>1, LatestPurchaseIn
  <2>5. p \in Range(list)
    BY <2>4 DEF Range
  <2>6. p.purchased \in Nat /\ p.transaction \in Nat
    <3> HIDE DEF p
    <3>1. QED
      BY <2>3, <2>5
  <2> HIDE DEF p
  <2>7. Fingerprint(<<p.transaction>>, e.provider, p.purchased) \in Nat
    BY <1>1, <2>6, FingerprintOfOne
  <2>8. subscriberBoundary(e.expires, e.grace) \in Nat
    BY <1>1 DEF subscriberBoundary
  <2>9. /\ result.start = IF p.purchased = 0 THEN e.purchased ELSE p.purchased
        /\ result.effectiveEnd = subscriberBoundary(e.expires, e.grace)
        /\ result.updated = 0 /\ result.observed = observed
        /\ result.lineage = Fingerprint(<<p.transaction>>, e.provider, p.purchased)
    BY <2>1 DEF fillSubscriberPurchase, EmptyRow
  <2>10. QED
    BY <1>1, <2>6, <2>7, <2>8, <2>9 DEF ReadRow
<1>5. CASE ~subscribed /\ ~(bought /\ s.nonSubscriptions[e.provider] # << >>)
  <2>1. result = [row EXCEPT !.missing = TRUE]
    BY <1>5 DEF subscriberGrantRow
  <2>2. QED
    BY <2>1 DEF ReadRow, EmptyRow
<1>6. QED
  BY <1>2, <1>3, <1>4, <1>5

\* The drafts of a command's file: ids, and numbered rows of numbers.
LEMMA DraftsRead ==
    ASSUME NEW x \in {k.export : k \in Commands}, NEW t \in Nat, NEW drafts,
           drafts = parseExport(Exports[x], t)
    PROVE  /\ \A j \in DOMAIN drafts : ReadDraft(drafts[j])
           /\ IsFiniteSet(DOMAIN drafts) /\ DOMAIN drafts \subseteq Nat
<1> DEFINE file == Exports[x]
           lines == file.lines
<1>1. /\ ReadFile(file)
      /\ \A line \in Range(lines) : LineId(file, line) \in Customers \cup InvalidIds \cup {NoId}
  BY EntitlementsAssumption
<1>2. /\ IsFiniteSet(DOMAIN lines) /\ DOMAIN lines \subseteq Nat
      /\ \A i \in DOMAIN lines : lines[i] \in Range(lines)
  BY <1>1 DEF ReadFile, Numbered, Range
<1>3. CASE file.format = "transactions_csv"
  <2> DEFINE id(i) == lines[i][Mapping.canonical]
             alias(i) == lines[i][IF Mapping.canonical = "original" THEN "lastSeen" ELSE "original"]
             Lines(i) == {j \in DOMAIN lines : j = i \/ (id(i) # NoId /\ id(j) = id(i))}
  <2>1. drafts = [i \in {j \in DOMAIN lines : \A k \in Lines(j) : j <= k} |->
                     [id |-> id(i), aliases |-> {alias(j) : j \in Lines(i)},
                      rows |-> [j \in Lines(i) |-> transactionRow(lines[j], t)]]]
    BY <1>3 DEF parseExport, parseTransactionsCSV
  <2>2. ASSUME NEW i \in DOMAIN drafts PROVE ReadDraft(drafts[i])
    <3>1. i \in DOMAIN lines
      BY <2>1
    <3>2. /\ drafts[i].id = id(i)
          /\ drafts[i].rows = [j \in Lines(i) |-> transactionRow(lines[j], t)]
      <4>1. drafts[i] = [id |-> id(i), aliases |-> {alias(j) : j \in Lines(i)},
                         rows |-> [j \in Lines(i) |-> transactionRow(lines[j], t)]]
        BY <2>1
      <4> HIDE DEF Lines, id, alias
      <4>2. QED
        BY <4>1
    <3>3. Lines(i) \subseteq DOMAIN lines
      OBVIOUS
    <3>4. IsFiniteSet(Lines(i))
      <4> HIDE DEF Lines
      <4>1. QED
        BY <1>2, <3>3, FS_Subset
    <3>5. id(i) \in Customers \cup InvalidIds \cup {NoId}
      BY <1>1, <1>2, <1>3, <3>1 DEF LineId
    <3> HIDE DEF Lines, id
    <3>6. ASSUME NEW j \in Lines(i) PROVE ReadRow(transactionRow(lines[j], t))
      <4>1. ReadLine(lines[j])
        BY <1>1, <1>2, <1>3, <3>3 DEF ReadFile
      <4>2. QED
        BY <4>1, TransactionRowRead
    <3>7. QED
      BY <1>2, <3>2, <3>3, <3>4, <3>5, <3>6 DEF ReadDraft, ReadRows
  <2>3. DOMAIN drafts \subseteq DOMAIN lines
    BY <2>1
  <2>4. QED
    BY <1>2, <2>2, <2>3, FS_Subset
<1>4. CASE file.format # "transactions_csv"
  <2>1. drafts = [k \in DOMAIN lines |-> decodeSubscriberLine(lines[k], t)]
    BY <1>4 DEF parseExport
  <2>2. ASSUME NEW k \in DOMAIN drafts PROVE ReadDraft(drafts[k])
    <3> DEFINE s == lines[k]
               observed == IF s.requested # 0 THEN s.requested ELSE t
    <3>1. k \in DOMAIN lines /\ drafts[k] = decodeSubscriberLine(s, t)
      BY <2>1
    <3>2. ReadSubscriber(s)
      BY <1>1, <1>2, <1>4, <3>1 DEF ReadFile
    <3>3. /\ drafts[k].id = s.id
          /\ drafts[k].rows = [j \in DOMAIN s.entitlements |-> subscriberGrantRow(s.entitlements[j], s, observed)]
      BY <3>1 DEF decodeSubscriberLine
    <3>4. s.id \in Customers \cup InvalidIds \cup {NoId}
      BY <1>1, <1>2, <1>4, <3>1 DEF LineId
    <3> HIDE DEF s
    <3>5. observed \in Nat /\ IsFiniteSet(DOMAIN s.entitlements) /\ DOMAIN s.entitlements \subseteq Nat
      BY <3>2 DEF ReadSubscriber, Numbered
    <3> HIDE DEF observed
    <3>6. ASSUME NEW j \in DOMAIN s.entitlements
          PROVE  ReadRow(subscriberGrantRow(s.entitlements[j], s, observed))
      <4>1. s.entitlements[j] \in Range(s.entitlements)
        BY DEF Range
      <4>2. QED
        BY <3>2, <3>5, <4>1, SubscriberGrantRowRead
    <3>7. QED
      BY <3>3, <3>4, <3>5, <3>6 DEF ReadDraft, ReadRows
  <2>3. DOMAIN drafts = DOMAIN lines
    BY <2>1
  <2>4. QED
    BY <1>2, <2>2, <2>3
<1>5. QED
  BY <1>3, <1>4

--------------------------------------------------------------------------------
(* What is planned of it.                                                    *)

\* What a grant is made of.
MadeGrant(g) ==
    /\ g.product \in MappedProducts /\ g.lineage \in Nat /\ g.access \in Access /\ g.reason \in Reasons
    /\ g.starts \in Nat /\ g.ends \in Nat /\ g.at \in Nat

LEMMA VerdictTyped ==
    ASSUME NEW row, NEW t
    PROVE  Verdict(row, t).access \in Access /\ Verdict(row, t).reason \in Reasons
BY DEF Verdict, Access, Reasons

\* The grant of a row: that of the one product it is mapped to, dated and decided by the row.
LEMMA MappedGrant ==
    ASSUME NEW row, NEW e, NEW t, NEW g \in mapGrant(row, e, t)
    PROVE  \E m \in Mapping.products :
               /\ m.store = row.store /\ m.provider = row.provider
               /\ m.environment = IF row.sandbox THEN "sandbox" ELSE "production"
               /\ e \in DOMAIN Mapping.entitlements
               /\ ~Undecided(row, Catalog.products[m.product].kind, t)
               /\ g = [product |-> m.product, entitlement |-> Mapping.entitlements[e],
                       lineage |-> row.lineage, access |-> decideAccess(row, t).access,
                       reason |-> decideAccess(row, t).reason, starts |-> decideAccess(row, t).starts,
                       ends |-> decideAccess(row, t).ends, at |-> row.observed]
BY DEF mapGrant

LEMMA GrantMade ==
    ASSUME NEW row, ReadRow(row), NEW e, NEW t, NEW g \in mapGrant(row, e, t)
    PROVE  MadeGrant(g)
<1>1. PICK m \in Mapping.products :
          g = [product |-> m.product, entitlement |-> Mapping.entitlements[e],
               lineage |-> row.lineage, access |-> decideAccess(row, t).access,
               reason |-> decideAccess(row, t).reason, starts |-> decideAccess(row, t).starts,
               ends |-> decideAccess(row, t).ends, at |-> row.observed]
  BY MappedGrant
<1>2. /\ decideAccess(row, t).access \in Access /\ decideAccess(row, t).reason \in Reasons
      /\ decideAccess(row, t).starts = row.start
      /\ decideAccess(row, t).ends \in {row.effectiveEnd, 0}
  <2>1. Verdict(row, t).access \in Access /\ Verdict(row, t).reason \in Reasons
    BY VerdictTyped
  <2>2. QED
    BY <2>1 DEF decideAccess, Access, Reasons
<1>3. m.product \in MappedProducts
  BY DEF MappedProducts
<1>4. QED
  BY <1>1, <1>2, <1>3 DEF MadeGrant, ReadRow

\* A row has one grant, whichever of its entitlements it is made for.
LEMMA OneGrant ==
    ASSUME NEW row, NEW e, NEW f, NEW t, NEW g \in mapGrant(row, e, t), NEW h \in mapGrant(row, f, t)
    PROVE  g = h
<1>1. PICK m \in Mapping.products :
          /\ m.store = row.store /\ m.provider = row.provider
          /\ m.environment = IF row.sandbox THEN "sandbox" ELSE "production"
          /\ e \in DOMAIN Mapping.entitlements
          /\ g = [product |-> m.product, entitlement |-> Mapping.entitlements[e],
                  lineage |-> row.lineage, access |-> decideAccess(row, t).access,
                  reason |-> decideAccess(row, t).reason, starts |-> decideAccess(row, t).starts,
                  ends |-> decideAccess(row, t).ends, at |-> row.observed]
  BY MappedGrant
<1>2. PICK n \in Mapping.products :
          /\ n.store = row.store /\ n.provider = row.provider
          /\ n.environment = IF row.sandbox THEN "sandbox" ELSE "production"
          /\ f \in DOMAIN Mapping.entitlements
          /\ h = [product |-> n.product, entitlement |-> Mapping.entitlements[f],
                  lineage |-> row.lineage, access |-> decideAccess(row, t).access,
                  reason |-> decideAccess(row, t).reason, starts |-> decideAccess(row, t).starts,
                  ends |-> decideAccess(row, t).ends, at |-> row.observed]
  BY MappedGrant
<1>3. m = n
  BY <1>1, <1>2, MappingAssumption DEF ValidMapping
<1>4. Mapping.entitlements[e] = Mapping.entitlements[f]
  BY <1>1, <1>2, EntitlementsAssumption
<1>5. QED
  BY <1>1, <1>2, <1>3, <1>4

\* All grants are of one entitlement.
LEMMA OneEntitlement ==
    ASSUME NEW row, NEW other, NEW e, NEW f, NEW t,
           NEW g \in mapGrant(row, e, t), NEW h \in mapGrant(other, f, t)
    PROVE  g.entitlement = h.entitlement
<1>1. e \in DOMAIN Mapping.entitlements /\ g.entitlement = Mapping.entitlements[e]
  BY MappedGrant
<1>2. f \in DOMAIN Mapping.entitlements /\ h.entitlement = Mapping.entitlements[f]
  BY MappedGrant
<1>3. QED
  BY <1>1, <1>2, EntitlementsAssumption

\* Row j of a draft is preferred to row i.
Beats(table, j, i) == after(table[j], table[i]) \/ (j < i /\ ~after(table[i], table[j]))

MadeOf(table, i, t) == UNION {mapGrant(table[i], e, t) : e \in table[i].entitlements}

\* What is planned: the grants of the rows no other row about the same purchase beats.
LEMMA PlannedIs ==
    ASSUME NEW table, NEW t, NEW g
    PROVE  g \in PlannedGrants(table, t) <=>
               \E i \in DOMAIN table :
                   /\ g \in MadeOf(table, i, t)
                   /\ \A j \in DOMAIN table : \A h \in MadeOf(table, j, t) :
                          SameSource(h, g) => ~Beats(table, j, i)
<1> DEFINE candidates == UNION {{i} \X MadeOf(table, i, t) : i \in DOMAIN table}
           Replaces(c, d) ==
               /\ <<c[2].product, c[2].entitlement, c[2].lineage>> = <<d[2].product, d[2].entitlement, d[2].lineage>>
               /\ Beats(table, c[1], d[1])
<1>1. PlannedGrants(table, t) = {c[2] : c \in {d \in candidates : ~\E e \in candidates : Replaces(e, d)}}
  BY DEF PlannedGrants, MadeOf, Beats
<1>2. \A c : c \in candidates <=> \E i \in DOMAIN table : \E h \in MadeOf(table, i, t) : c = <<i, h>>
  <2> HIDE DEF Replaces
  <2>1. QED
    OBVIOUS
<1>3. \A i, j \in DOMAIN table : \A x \in MadeOf(table, i, t), h \in MadeOf(table, j, t) :
          Replaces(<<j, h>>, <<i, x>>) <=> SameSource(h, x) /\ Beats(table, j, i)
  <2> SUFFICES ASSUME NEW i \in DOMAIN table, NEW j \in DOMAIN table,
                      NEW x \in MadeOf(table, i, t), NEW h \in MadeOf(table, j, t)
               PROVE  x.entitlement = h.entitlement
    BY DEF SameSource
  <2>1. QED
    BY OneEntitlement DEF MadeOf
<1> HIDE DEF candidates, Replaces
<1>4. ASSUME g \in PlannedGrants(table, t)
      PROVE  \E i \in DOMAIN table :
                 /\ g \in MadeOf(table, i, t)
                 /\ \A j \in DOMAIN table : \A h \in MadeOf(table, j, t) :
                        SameSource(h, g) => ~Beats(table, j, i)
  <2>1. PICK c \in candidates : c[2] = g /\ ~\E e \in candidates : Replaces(e, c)
    BY <1>1, <1>4
  <2>2. PICK i \in DOMAIN table : \E x \in MadeOf(table, i, t) : c = <<i, x>>
    BY <1>2, <2>1
  <2>3. c = <<i, g>> /\ g \in MadeOf(table, i, t)
    BY <2>1, <2>2
  <2>4. \A j \in DOMAIN table : \A h \in MadeOf(table, j, t) : SameSource(h, g) => ~Beats(table, j, i)
    <3> SUFFICES ASSUME NEW j \in DOMAIN table, NEW h \in MadeOf(table, j, t), SameSource(h, g)
                 PROVE  ~Beats(table, j, i)
      OBVIOUS
    <3>1. <<j, h>> \in candidates
      BY <1>2
    <3>2. ~Replaces(<<j, h>>, <<i, g>>)
      BY <2>1, <2>3, <3>1
    <3>3. QED
      BY <1>3, <2>3, <3>2
  <2>5. QED
    BY <2>3, <2>4
<1>5. ASSUME NEW i \in DOMAIN table, g \in MadeOf(table, i, t),
             \A j \in DOMAIN table : \A h \in MadeOf(table, j, t) : SameSource(h, g) => ~Beats(table, j, i)
      PROVE  g \in PlannedGrants(table, t)
  <2>1. <<i, g>> \in candidates
    BY <1>2, <1>5
  <2>2. ~\E e \in candidates : Replaces(e, <<i, g>>)
    BY <1>2, <1>3, <1>5
  <2>3. <<i, g>>[2] = g
    OBVIOUS
  <2>4. QED
    BY <1>1, <2>1, <2>2, <2>3
<1>6. QED
  BY <1>4, <1>5

\* Rows are totally preferred.
LEMMA BeatsOrder ==
    ASSUME NEW table, NEW i \in Nat, NEW j \in Nat, NEW k \in Nat,
           ReadRow(table[i]), ReadRow(table[j]), ReadRow(table[k])
    PROVE  /\ i # j => Beats(table, i, j) \/ Beats(table, j, i)
           /\ ~(Beats(table, i, j) /\ Beats(table, j, i))
           /\ Beats(table, i, j) /\ Beats(table, j, k) => Beats(table, i, k)
<1> DEFINE a == table[i]
           b == table[j]
           c == table[k]
<1>1. /\ a.updated \in Nat /\ a.effectiveEnd \in Nat /\ a.start \in Nat
      /\ b.updated \in Nat /\ b.effectiveEnd \in Nat /\ b.start \in Nat
      /\ c.updated \in Nat /\ c.effectiveEnd \in Nat /\ c.start \in Nat
  BY DEF ReadRow
<1> HIDE DEF a, b, c
<1>2. ~(after(a, b) /\ after(b, a)) /\ ~after(a, a)
  BY <1>1 DEF after
<1>3. /\ after(a, b) /\ after(b, c) => after(a, c)
      /\ after(a, b) /\ ~after(c, b) => after(a, c)
      /\ ~after(b, a) /\ after(b, c) => after(a, c)
      /\ ~after(b, a) /\ ~after(c, b) => ~after(c, a)
  BY <1>1 DEF after
<1>4. QED
  BY <1>2, <1>3 DEF Beats, a, b, c

LEMMA PlannedMade ==
    ASSUME NEW table, ReadRows(table), NEW t, NEW g \in PlannedGrants(table, t)
    PROVE  MadeGrant(g)
<1>1. PICK i \in DOMAIN table : g \in MadeOf(table, i, t)
  BY PlannedIs
<1>2. QED
  BY <1>1, GrantMade DEF MadeOf, ReadRows

\* One grant is planned per purchase.
LEMMA PlannedOnce ==
    ASSUME NEW table, ReadRows(table), NEW t,
           NEW g \in PlannedGrants(table, t), NEW h \in PlannedGrants(table, t), SameSource(g, h)
    PROVE  g = h
<1>1. PICK i \in DOMAIN table :
          /\ g \in MadeOf(table, i, t)
          /\ \A j \in DOMAIN table : \A x \in MadeOf(table, j, t) : SameSource(x, g) => ~Beats(table, j, i)
  BY PlannedIs
<1>2. PICK j \in DOMAIN table :
          /\ h \in MadeOf(table, j, t)
          /\ \A k \in DOMAIN table : \A x \in MadeOf(table, k, t) : SameSource(x, h) => ~Beats(table, k, j)
  BY PlannedIs
<1>3. ~Beats(table, i, j) /\ ~Beats(table, j, i)
  BY <1>1, <1>2 DEF SameSource
<1>4. i = j
  BY <1>3, BeatsOrder DEF ReadRows
<1>5. QED
  BY <1>1, <1>2, <1>4, OneGrant DEF MadeOf

LEMMA PlannedFinite ==
    ASSUME NEW table, ReadRows(table), NEW t
    PROVE  IsFiniteSet(PlannedGrants(table, t))
<1> DEFINE G == PlannedGrants(table, t)
           I == {i \in DOMAIN table : \E g \in G : g \in MadeOf(table, i, t)}
           f == [i \in I |-> CHOOSE g \in G : g \in MadeOf(table, i, t)]
<1>1. IsFiniteSet(I)
  BY FS_Subset DEF ReadRows
<1>2. \A i \in I : f[i] \in G
  OBVIOUS
<1>3. ASSUME NEW g \in G PROVE \E i \in I : f[i] = g
  <2>1. PICK i \in DOMAIN table : g \in MadeOf(table, i, t)
    BY <1>3, PlannedIs
  <2>2. i \in I /\ f[i] \in MadeOf(table, i, t)
    BY <2>1
  <2>3. f[i] = g
    BY <2>1, <2>2, OneGrant DEF MadeOf
  <2>4. QED
    BY <2>2, <2>3
<1>4. f \in Surjection(I, G)
  <2>1. f \in [I -> G]
    BY <1>2
  <2> HIDE DEF f, I, G
  <2>2. QED
    BY <1>3, <2>1 DEF Surjection
<1>5. QED
  BY <1>1, <1>4, FS_Surjection

\* Every purchase a row can be mapped to has a planned grant.
LEMMA PlannedCovers ==
    ASSUME NEW table, ReadRows(table), NEW t, NEW i \in DOMAIN table, NEW h \in MadeOf(table, i, t)
    PROVE  \E g \in PlannedGrants(table, t) : SameSource(g, h)
<1> DEFINE S == {j \in DOMAIN table : \E x \in MadeOf(table, j, t) : SameSource(x, h)}
           R == {p \in S \X S : Beats(table, p[1], p[2])}
<1>1. i \in S /\ S \subseteq DOMAIN table
  BY DEF SameSource
<1>2. IsFiniteSet(S)
  BY <1>1, FS_Subset DEF ReadRows
<1>3. S \subseteq Nat /\ \A j \in S : ReadRow(table[j])
  BY <1>1 DEF ReadRows
<1>4. \A x, y \in S : x # y => <<x, y>> \in R \/ <<y, x>> \in R
  <2> SUFFICES ASSUME NEW x \in S, NEW y \in S, x # y PROVE Beats(table, x, y) \/ Beats(table, y, x)
    OBVIOUS
  <2>1. QED
    BY <1>3, BeatsOrder
<1>5. \A x, y, z \in S : <<x, y>> \in R /\ <<y, z>> \in R => <<x, z>> \in R
  <2> SUFFICES ASSUME NEW x \in S, NEW y \in S, NEW z \in S, Beats(table, x, y), Beats(table, y, z)
               PROVE  Beats(table, x, z)
    OBVIOUS
  <2>1. QED
    BY <1>3, BeatsOrder
<1>6. PICK m \in S : \A d \in S \ {m} : <<m, d>> \in R
  <2>1. S # {}
    BY <1>1
  <2> HIDE DEF R, S
  <2>2. QED
    BY <1>2, <1>4, <1>5, <2>1, FiniteFirst
<1>7. PICK g \in MadeOf(table, m, t) : SameSource(g, h)
  BY <1>6
<1>8. ASSUME NEW j \in DOMAIN table, NEW x \in MadeOf(table, j, t), SameSource(x, g)
      PROVE  ~Beats(table, j, m)
  <2>1. j \in S
    BY <1>7, <1>8 DEF SameSource
  <2>2. CASE j = m
    BY <1>3, <2>1, <2>2, BeatsOrder
  <2>3. CASE j # m
    <3>1. Beats(table, m, j)
      BY <1>6, <2>1, <2>3
    <3>2. QED
      BY <1>3, <2>1, <3>1, BeatsOrder
  <2>4. QED
    BY <2>2, <2>3
<1>9. g \in PlannedGrants(table, t)
  BY <1>1, <1>7, <1>8, PlannedIs
<1>10. QED
  BY <1>7, <1>9

\* A planned grant that allows access is paid for in the draft it is planned from.
LEMMA PlannedPaid ==
    ASSUME NEW d, ReadRows(d.rows), NEW t \in Nat, NEW g \in PlannedGrants(d.rows, t), g.access = "allowed"
    PROVE  PaidFor(d, g, t)
<1> DEFINE table == d.rows
<1>1. PICK i \in DOMAIN table :
          /\ g \in MadeOf(table, i, t)
          /\ \A j \in DOMAIN table : \A x \in MadeOf(table, j, t) : SameSource(x, g) => ~Beats(table, j, i)
  BY PlannedIs
<1> DEFINE row == table[i]
<1>2. PICK e \in row.entitlements : g \in mapGrant(row, e, t)
  BY <1>1 DEF MadeOf
<1>3. row \in RowsOf(d, g, t)
  BY <1>2 DEF RowsOf, Range, SameSource
<1>4. ReadRow(row)
  BY DEF ReadRows
<1>5. PICK m \in Mapping.products :
          /\ ~Undecided(row, Catalog.products[m.product].kind, t)
          /\ g.access = decideAccess(row, t).access
  BY <1>2, MappedGrant
<1>6. Verdict(row, t).access = "allowed" /\ ~(t < row.start)
  BY <1>5 DEF decideAccess
<1>7. row.refunded = 0 /\ (row.effectiveEnd # 0 => ~(t >= row.effectiveEnd))
  BY <1>6 DEF Verdict
<1>8. row.start # 0
  BY <1>5, <1>6 DEF Undecided, Coherent
<1>9. row.start \in 1..t /\ (row.effectiveEnd # 0 => t < row.effectiveEnd)
  BY <1>4, <1>6, <1>7, <1>8 DEF ReadRow
<1>10. ASSUME NEW other \in RowsOf(d, g, t) PROVE other.updated <= row.updated
  <2>1. PICK j \in DOMAIN table : other = table[j]
    BY <1>10 DEF RowsOf, Range
  <2>2. PICK x \in MadeOf(table, j, t) : SameSource(x, g)
    BY <1>10, <2>1 DEF RowsOf, MadeOf, SameSource
  <2>3. ~after(other, row)
    BY <1>1, <2>1, <2>2 DEF Beats
  <2>4. ReadRow(other)
    BY <2>1 DEF ReadRows
  <2>5. QED
    BY <1>4, <2>3, <2>4 DEF after, ReadRow
<1>11. QED
  BY <1>3, <1>7, <1>9, <1>10 DEF PaidFor

\* A subscriber as planned from a draft read at t.
PlannedAs(s, d, t) ==
    /\ ReadDraft(d) /\ s.id = d.id /\ s.grants = PlannedGrants(d.rows, t)
    /\ s.skipped => s.id \in AnonymousIds
    /\ ~s.fatal => s.id \in Customers
    /\ ~s.skipped /\ ~s.fatal => \A row \in Range(d.rows) : ~RowRefused(row, t)

\* The plan of a file, subscriber by subscriber.
LEMMA PlanEntries ==
    ASSUME NEW x \in {k.export : k \in Commands}, NEW sk, NEW t \in Nat, NEW drafts, NEW plan,
           drafts = parseExport(Exports[x], t), plan = Plan(Exports[x], sk, t)
    PROVE  /\ DOMAIN plan = DOMAIN drafts /\ IsFiniteSet(DOMAIN plan) /\ DOMAIN plan \subseteq Nat
           /\ \A k \in DOMAIN plan : /\ drafts[k] \in Range(drafts) /\ plan[k] \in Range(plan)
                                       /\ PlannedAs(plan[k], drafts[k], t)
<1>1. plan = [k \in DOMAIN drafts |-> planSubscriber(drafts[k], drafts, sk, t)]
  BY DEF Plan
<1>2. /\ \A k \in DOMAIN drafts : ReadDraft(drafts[k])
      /\ IsFiniteSet(DOMAIN drafts) /\ DOMAIN drafts \subseteq Nat
  BY DraftsRead
<1>3. ASSUME NEW k \in DOMAIN plan
      PROVE  drafts[k] \in Range(drafts) /\ plan[k] \in Range(plan) /\ PlannedAs(plan[k], drafts[k], t)
  <2> DEFINE d == drafts[k]
             valid == d.id \notin InvalidIds \cup {NoId}
             skipped == valid /\ sk /\ d.id \in AnonymousIds
             refused == \E row \in Range(d.rows) : RowRefused(row, t)
             fatal == /\ ~skipped
                      /\ \/ ~valid \/ AliasConflict(d, drafts)
                         \/ uniqueAliases(d) \cap InvalidIds # {}
                         \/ refused
  <2>1. k \in DOMAIN drafts /\ plan[k] = planSubscriber(d, drafts, sk, t)
    BY <1>1
  <2>2. /\ plan[k].id = d.id /\ plan[k].grants = PlannedGrants(d.rows, t)
        /\ plan[k].skipped = skipped /\ plan[k].fatal = fatal
    <3>1. plan[k] = [id |-> d.id, aliases |-> uniqueAliases(d), skipped |-> skipped, fatal |-> fatal,
                     grants |-> PlannedGrants(d.rows, t)]
      BY <2>1, Zenon DEF planSubscriber
    <3> HIDE DEF d, skipped, fatal
    <3>2. QED
      BY <3>1
  <2>3. ReadDraft(d)
    BY <1>2, <2>1
  <2>4. d.id \in Customers \cup InvalidIds \cup {NoId} /\ AnonymousIds \subseteq Customers
    BY <2>3, EntitlementsAssumption DEF ReadDraft
  <2>5. drafts[k] \in Range(drafts) /\ plan[k] \in Range(plan)
    BY <2>1 DEF Range
  <2> HIDE DEF d
  <2>6. skipped => d.id \in AnonymousIds
    OBVIOUS
  <2>7. ~fatal => d.id \in Customers
    BY <2>4
  <2>8. ~skipped /\ ~fatal => ~refused
    OBVIOUS
  <2> HIDE DEF valid, skipped, fatal
  <2>9. QED
    BY <2>2, <2>3, <2>5, <2>6, <2>7, <2>8 DEF d, PlannedAs
<1>4. DOMAIN plan = DOMAIN drafts
  BY <1>1
<1>5. QED
  BY <1>2, <1>3, <1>4

PlanOf(plan, drafts, t) ==
    /\ DOMAIN plan = DOMAIN drafts /\ IsFiniteSet(DOMAIN plan) /\ DOMAIN plan \subseteq Nat
    /\ \A k \in DOMAIN plan : /\ drafts[k] \in Range(drafts) /\ plan[k] \in Range(plan)
                               /\ PlannedAs(plan[k], drafts[k], t)

LEMMA PlanRead ==
    ASSUME NEW x \in {k.export : k \in Commands}, NEW sk, NEW t \in Nat
    PROVE  PlanOf(Plan(Exports[x], sk, t), parseExport(Exports[x], t), t)
<1>1. PICK drafts : drafts = parseExport(Exports[x], t)
  OBVIOUS
<1>2. PICK plan : plan = Plan(Exports[x], sk, t)
  OBVIOUS
<1>3. PlanOf(plan, drafts, t)
  BY <1>1, <1>2, PlanEntries DEF PlanOf
<1>4. QED
  BY <1>1, <1>2, <1>3

--------------------------------------------------------------------------------
(* What later steps keep of an import.                                       *)

\* Customers that stand for one stay so, and a purchase that is stored stays stored.
Kept ==
    /\ now' \in Nat /\ now <= now'
    /\ \A x, y \in Customers : Together(x, y) => Together(x, y)'
    /\ \A g \in grants : \E h \in grants' : SameSource(h, g) /\ Together(h.customer, g.customer)'

LEMMA KeptUnchanged ==
    ASSUME UNCHANGED <<merged, grants>>, now' \in Nat, now <= now'
    PROVE  Kept
BY DEF Kept, Together, ResolveCustomer, SameSource

LEMMA StoredKept ==
    ASSUME TypeOK, Kept, NEW c \in Customers, NEW h,
           \E g \in grants : SameSource(g, h) /\ Together(g.customer, c)
    PROVE  \E g \in grants' : SameSource(g, h) /\ Together(g.customer, c)'
<1>1. PICK g \in grants : SameSource(g, h) /\ Together(g.customer, c)
  OBVIOUS
<1>2. PICK z \in grants' : SameSource(z, g) /\ Together(z.customer, g.customer)'
  BY DEF Kept
<1>3. g.customer \in Customers
  BY DEF TypeOK, ImportRow
<1>4. Together(g.customer, c)'
  BY <1>1, <1>3 DEF Kept
<1>5. SameSource(z, h) /\ Together(z.customer, c)'
  BY <1>1, <1>2, <1>4 DEF SameSource, Together
<1>6. QED
  BY <1>5

LEMMA RunningKept ==
    ASSUME TypeOK, Kept, NEW q, Running(q)
    PROVE  Running(q)'
<1>1. 1..now \subseteq 1..(now')
  BY DEF TypeOK, Kept
<1>2. /\ q.pc \in {"planned", "applying"}
      /\ q \in [pc : {"planned", "applying"}, export : {k.export : k \in Commands},
              batch : {k.batch : k \in Commands}, webhooks : {k.webhooks : k \in Commands},
              at : 1..now, skipped : SUBSET AnonymousIds, todo : {q.todo}, failed : BOOLEAN]
  BY DEF Running
<1>3. q \in [pc : {"planned", "applying"}, export : {k.export : k \in Commands},
              batch : {k.batch : k \in Commands}, webhooks : {k.webhooks : k \in Commands},
              at : 1..(now'), skipped : SUBSET AnonymousIds, todo : {q.todo}, failed : BOOLEAN]
  BY <1>1, <1>2
<1>4. q.export \in {k.export : k \in Commands} /\ q.at \in Nat
  BY <1>2
<1>5. PICK sk \in {k.skipAnonymous : k \in Commands} :
          LET plan == Plan(Exports[q.export], sk, q.at)
          IN  /\ q.todo \subseteq {<<k, plan[k]>> : k \in {j \in DOMAIN plan : ~plan[j].skipped /\ ~plan[j].fatal}}
              /\ q.failed \/ \A k \in DOMAIN plan :
                     \/ plan[k].skipped /\ plan[k].id \in q.skipped
                     \/ ~plan[k].skipped /\ ~plan[k].fatal /\ (<<k, plan[k]>> \in q.todo \/ Stored(plan[k]))
  BY DEF Running
<1> DEFINE plan == Plan(Exports[q.export], sk, q.at)
<1>6. \A k \in DOMAIN plan : ~plan[k].fatal => plan[k].id \in Customers
  <2> HIDE DEF plan
  <2>1. QED
    BY <1>4, PlanEntries DEF plan, PlannedAs
<1>7. \A k \in DOMAIN plan : ~plan[k].fatal /\ Stored(plan[k]) => Stored(plan[k])'
  <2> SUFFICES ASSUME NEW k \in DOMAIN plan, ~plan[k].fatal, Stored(plan[k]), NEW h \in plan[k].grants
               PROVE  \E g \in grants' : SameSource(g, h) /\ Together(g.customer, plan[k].id)'
    BY DEF Stored
  <2> HIDE DEF plan
  <2>1. \E g \in grants : SameSource(g, h) /\ Together(g.customer, plan[k].id)
    BY DEF Stored
  <2>2. QED
    BY <1>6, <2>1, StoredKept
<1>8. q.failed \/ \A k \in DOMAIN plan :
          \/ plan[k].skipped /\ plan[k].id \in q.skipped
          \/ ~plan[k].skipped /\ ~plan[k].fatal /\ (<<k, plan[k]>> \in q.todo \/ Stored(plan[k])')
  BY <1>5, <1>7
<1>9. QED
  BY <1>2, <1>3, <1>5, <1>8 DEF Running

LEMMA EndedWellKept ==
    ASSUME TypeOK, Kept, NEW q, EndedWell(q)
    PROVE  EndedWell(q)'
<1>1. 1..now \subseteq 1..(now')
  BY DEF TypeOK, Kept
<1>2. q \in [pc : {"ended"}, exit : {0}, export : {k.export : k \in Commands}, at : 1..(now'),
             skipped : SUBSET AnonymousIds]
  BY <1>1 DEF EndedWell
<1>3. ASSUME NEW d, Imported(d, q.at) PROVE Imported(d, q.at)'
  <2>1. d.id \in Customers
    BY <1>3 DEF Imported
  <2> SUFFICES ASSUME NEW row \in Range(d.rows), NEW e \in row.entitlements
               PROVE  \E h \in mapGrant(row, e, q.at), g \in grants' :
                          SameSource(g, h) /\ Together(g.customer, d.id)'
    BY <2>1 DEF Imported
  <2>2. PICK h \in mapGrant(row, e, q.at) : \E g \in grants : SameSource(g, h) /\ Together(g.customer, d.id)
    BY <1>3 DEF Imported
  <2>3. \E g \in grants' : SameSource(g, h) /\ Together(g.customer, d.id)'
    BY <2>1, <2>2, StoredKept
  <2>4. QED
    BY <2>2, <2>3
<1>4. QED
  BY <1>2, <1>3 DEF EndedWell

\* A grant stays paid for.
Paid(g) ==
    \E t \in 1..now : \E d \in Range(parseExport(Exports[g.export], t)) :
        /\ d.id \in Customers /\ ResolveCustomer(d.id) = ResolveCustomer(g.customer)
        /\ PaidFor(d, g, t)

LEMMA PaidKept ==
    ASSUME TypeOK, Kept, NEW g, g.customer \in Customers, Paid(g)
    PROVE  Paid(g)'
<1>1. 1..now \subseteq 1..(now')
  BY DEF TypeOK, Kept
<1>2. PICK t \in 1..now : \E d \in Range(parseExport(Exports[g.export], t)) :
          d.id \in Customers /\ Together(d.id, g.customer) /\ PaidFor(d, g, t)
  BY DEF Paid, Together
<1>3. PICK d \in Range(parseExport(Exports[g.export], t)) :
          d.id \in Customers /\ Together(d.id, g.customer) /\ PaidFor(d, g, t)
  BY <1>2
<1>4. Together(d.id, g.customer)'
  BY <1>3 DEF Kept
<1>5. t \in 1..(now')
  BY <1>1
<1>6. QED
  BY <1>3, <1>4, <1>5 DEF Paid, Together

\* The commands of the other importers are as they were.
LEMMA CommandedKept ==
    ASSUME TypeOK, Commanded, Kept, NEW i \in Importers, NEW q, importer' = [importer EXCEPT ![i] = q],
           \/ q \in {Idle, [pc |-> "ended", exit |-> 1], [pc |-> "ended", exit |-> 2]}
           \/ EndedWell(q)' \/ Running(q)'
    PROVE  DOMAIN importer' = Importers /\ Commanded'
<1>1. DOMAIN importer' = Importers /\ importer'[i] = q
  BY DEF TypeOK
<1>2. ASSUME NEW j \in Importers
      PROVE  (\/ importer[j] \in {Idle, [pc |-> "ended", exit |-> 1], [pc |-> "ended", exit |-> 2]}
              \/ EndedWell(importer[j]) \/ Running(importer[j]))'
  <2>1. CASE j = i
    BY <1>1, <2>1
  <2>2. CASE j # i
    <3>1. PICK v : v = importer[j]
      OBVIOUS
    <3>2. importer'[j] = v
      BY <2>2, <3>1
    <3>3. \/ v \in {Idle, [pc |-> "ended", exit |-> 1], [pc |-> "ended", exit |-> 2]}
          \/ EndedWell(v) \/ Running(v)
      BY <3>1 DEF Commanded
    <3>4. \/ v \in {Idle, [pc |-> "ended", exit |-> 1], [pc |-> "ended", exit |-> 2]}
          \/ EndedWell(v)' \/ Running(v)'
      BY <3>3, EndedWellKept, RunningKept
    <3>5. QED
      BY <3>2, <3>4
  <2>3. QED
    BY <2>1, <2>2
<1>3. QED
  BY <1>1, <1>2 DEF Commanded

--------------------------------------------------------------------------------
(* The invariant is inductive: one lemma per action.                         *)

LEMMA RequestTyped ==
    ASSUME TypeOK, NEW r \in Requests, request[r] # Idle
    PROVE  /\ request[r] \in [pc : {"queried", "normalized", "committed"},
                              snapshot : Snapshots, customer : Customers, at : 0..now]
           /\ request[r].snapshot \in Snapshots /\ request[r].at \in 0..now
BY DEF TypeOK

LEMMA InitIInv == Init => IInv
<1> SUFFICES ASSUME Init PROVE IInv
  OBVIOUS
<1>1. EventTypes
  BY DEF Init, EventTypes
<1>2. IsFiniteSet({})
  BY FS_EmptySet
<1>3. TypeOK
  BY <1>1, <1>2 DEF Init, TypeOK, Table
<1>4. NoChains /\ RowsOwned /\ GrantsNamed /\ NewestIsLatest
  BY DEF Init, NoChains, RowsOwned, GrantsNamed, NewestIsLatest
<1>5. Settled
  <2> SUFFICES ASSUME NEW c \in Customers PROVE SettledOn(current[c], SourcesOf(c))
    BY DEF Settled
  <2>1. current[c] = NoProjection
    BY DEF Init
  <2>2. SourcesOf(c) = {}
    BY DEF Init, SourcesOf, CustomerEntitlementSources
  <2>3. ReportedSources({}) = {}
    BY DEF ReportedSources
  <2>4. QED
    BY <2>1, <2>2, <2>3 DEF SettledOn
<1>6. Events
  <2>1. \A c \in Customers : 1..version[c] = {}
    BY DEF Init
  <2>2. QED
    BY <2>1 DEF Init, Events
<1>7. Commanded /\ AllowedImportIsPaid
  BY DEF Init, Commanded, AllowedImportIsPaid
<1>8. QED
  BY <1>3, <1>4, <1>5, <1>6, <1>7 DEF IInv

\* What a step that touches neither customers nor what is stored for them keeps.
LEMMA CoreKept ==
    ASSUME IInv, UNCHANGED <<merged, rows, grants, current, version, outbox, silent, newest>>,
           now' \in Nat \ {0}, now <= now'
    PROVE  /\ EventTypes' /\ NoChains' /\ RowsOwned' /\ GrantsNamed' /\ NewestIsLatest' /\ Settled'
           /\ Events' /\ AllowedImportIsPaid' /\ Kept
<1>1. TypeOK /\ now \in Nat
  BY DEF IInv, TypeOK
<1>2. Kept
  BY KeptUnchanged
<1>3. EventTypes' /\ NoChains' /\ RowsOwned' /\ GrantsNamed' /\ NewestIsLatest' /\ Settled'
  BY DEF IInv, TypeOK, EventTypes, NoChains, Canonical, RowsOwned, Together, ResolveCustomer, GrantsNamed,
         NewestIsLatest, Settled, SourcesOf
<1>4. Events'
  <2>1. 0..now \subseteq 0..(now')
    BY <1>1
  <2>2. Events
    BY DEF IInv
  <2>3. QED
    BY <2>1, <2>2 DEF Events
<1>5. AllowedImportIsPaid'
  <2> SUFFICES ASSUME NEW g \in grants', g.access = "allowed" PROVE Paid(g)'
    BY DEF AllowedImportIsPaid, Paid
  <2>1. g \in grants /\ g.customer \in Customers
    BY <1>1 DEF TypeOK, ImportRow
  <2>2. Paid(g)
    BY <2>1 DEF IInv, AllowedImportIsPaid, Paid
  <2>3. QED
    BY <1>1, <1>2, <2>1, <2>2, PaidKept
<1>6. QED
  BY <1>2, <1>3, <1>4, <1>5

LEMMA CommandedStays ==
    ASSUME TypeOK, Commanded, Kept, UNCHANGED importer
    PROVE  DOMAIN importer' = Importers /\ Commanded'
<1>1. CASE Importers = {}
  BY <1>1 DEF TypeOK, Commanded
<1>2. CASE Importers # {}
  <2>1. SUFFICES ASSUME NEW i \in Importers
                 PROVE  (\/ importer[i] \in {Idle, [pc |-> "ended", exit |-> 1], [pc |-> "ended", exit |-> 2]}
                         \/ EndedWell(importer[i]) \/ Running(importer[i]))'
    BY DEF Commanded, TypeOK
  <2>2. PICK v : v = importer[i]
    OBVIOUS
  <2>3. \/ v \in {Idle, [pc |-> "ended", exit |-> 1], [pc |-> "ended", exit |-> 2]}
        \/ EndedWell(v) \/ Running(v)
    BY <2>2 DEF Commanded
  <2>4. \/ v \in {Idle, [pc |-> "ended", exit |-> 1], [pc |-> "ended", exit |-> 2]}
        \/ EndedWell(v)' \/ Running(v)'
    BY <2>3, EndedWellKept, RunningKept
  <2>5. importer'[i] = v
    BY <2>2
  <2>6. QED
    BY <2>4, <2>5
<1>3. QED
  BY <1>1, <1>2

LEMMA TickKeeps ==
    ASSUME IInv, Tick PROVE IInv'
<1>1. /\ UNCHANGED <<merged, rows, grants, current, version, outbox, silent, newest, request, importer>>
      /\ now' = now + 1 /\ now \in Nat /\ TypeOK /\ Commanded
  BY DEF Tick, importVars, IInv, TypeOK
<1>2. /\ EventTypes' /\ NoChains' /\ RowsOwned' /\ GrantsNamed' /\ NewestIsLatest' /\ Settled'
      /\ Events' /\ AllowedImportIsPaid' /\ Kept
  BY <1>1, CoreKept
<1>3. DOMAIN importer' = Importers /\ Commanded'
  BY <1>1, <1>2, CommandedStays
<1>4. TypeOK'
  <2>1. 0..now \subseteq 0..(now')
    BY <1>1
  <2>2. request' \in [Requests -> {Idle} \cup [pc : {"queried", "normalized", "committed"},
                                 snapshot : Snapshots, customer : Customers, at : 0..(now')]]
    <3>1. [pc : {"queried", "normalized", "committed"}, snapshot : Snapshots, customer : Customers, at : 0..now]
          \subseteq [pc : {"queried", "normalized", "committed"}, snapshot : Snapshots, customer : Customers, at : 0..(now')]
      BY <2>1
    <3>2. QED
      BY <1>1, <3>1 DEF TypeOK
  <2>3. QED
    BY <1>1, <1>2, <1>3, <2>2 DEF TypeOK
<1>5. QED
  BY <1>2, <1>3, <1>4 DEF IInv

\* Steps of a request that store nothing.
LEMMA RequestKeeps ==
    ASSUME IInv, NEW r \in Requests, NEW q,
           q = Idle \/ q \in [pc : {"queried", "normalized", "committed"},
                              snapshot : Snapshots, customer : Customers, at : 0..now],
           request' = [request EXCEPT ![r] = q],
           UNCHANGED <<now, merged, rows, grants, current, version, outbox, silent, newest, importer>>
    PROVE  IInv'
<1>1. TypeOK /\ Commanded /\ now \in Nat \ {0}
  BY DEF IInv, TypeOK
<1>2. /\ EventTypes' /\ NoChains' /\ RowsOwned' /\ GrantsNamed' /\ NewestIsLatest' /\ Settled'
      /\ Events' /\ AllowedImportIsPaid' /\ Kept
  BY <1>1, CoreKept
<1>3. DOMAIN importer' = Importers /\ Commanded'
  BY <1>1, <1>2, CommandedStays
<1>4. TypeOK'
  BY <1>1, <1>2, <1>3 DEF TypeOK
<1>5. QED
  BY <1>2, <1>3, <1>4 DEF IInv

LEMMA QueryKeeps ==
    ASSUME IInv, NEW r \in Requests, NEW s \in Snapshots, Query(r, s) PROVE IInv'
<1> DEFINE q == [pc |-> "queried", snapshot |-> s, customer |-> ResolveCustomer(Owner[s.lineage]), at |-> 0]
<1>1. ResolveCustomer(Owner[s.lineage]) \in Customers
  BY Behind, SnapshotTyped DEF IInv, TypeOK
<1>2. 0 \in 0..now
  BY DEF IInv, TypeOK
<1>3. q \in [pc : {"queried", "normalized", "committed"}, snapshot : Snapshots, customer : Customers, at : 0..now]
  BY <1>1, <1>2
<1>4. /\ request' = [request EXCEPT ![r] = q]
      /\ UNCHANGED <<now, merged, rows, grants, current, version, outbox, silent, newest, importer>>
  BY DEF Query, importVars
<1> HIDE DEF q
<1>5. QED
  BY <1>3, <1>4, RequestKeeps

LEMMA NormalizeKeeps ==
    ASSUME IInv, NEW r \in Requests, Normalize(r) PROVE IInv'
<1> DEFINE q == [request[r] EXCEPT !.pc = "normalized", !.at = now]
<1>1. request[r] # Idle
  BY DEF Normalize, Idle
<1>2. q \in [pc : {"queried", "normalized", "committed"}, snapshot : Snapshots, customer : Customers, at : 0..now]
  <2>1. TypeOK /\ now \in 0..now
    BY DEF IInv, TypeOK
  <2>2. request[r] \in [pc : {"queried", "normalized", "committed"},
                        snapshot : Snapshots, customer : Customers, at : 0..now]
    BY <1>1, <2>1, RequestTyped
  <2>3. QED
    BY <2>1, <2>2
<1>3. /\ request' = [request EXCEPT ![r] = q]
      /\ UNCHANGED <<now, merged, rows, grants, current, version, outbox, silent, newest, importer>>
  BY DEF Normalize, importVars, IInv, TypeOK
<1> HIDE DEF q
<1>4. QED
  BY <1>2, <1>3, RequestKeeps

LEMMA IdleKeeps ==
    ASSUME IInv, NEW r \in Requests, PostCommit(r) \/ Fail(r) PROVE IInv'
<1>1. /\ request' = [request EXCEPT ![r] = Idle]
      /\ UNCHANGED <<now, merged, rows, grants, current, version, outbox, silent, newest, importer>>
  BY DEF PostCommit, Fail, importVars
<1>2. QED
  BY <1>1, RequestKeeps

\* What a persist saves: the row of its answer, for the customer behind the owner.
LEMMA PersistSaves ==
    ASSUME TypeOK, NoChains, RowsOwned, NEW r \in Requests, Persist(r),
           NEW s, s = request[r].snapshot, NEW at, at = request[r].at,
           NEW c, c = ResolveCustomer(Owner[s.lineage])
    PROVE  /\ s \in Snapshots /\ at \in 0..now /\ at \in Nat /\ c \in Customers /\ Canonical(c)
           /\ request[r] # Idle
           /\ \E row : rows' = {o \in rows : o.id # s.id} \cup {row} /\ Replaced(s, at, row)
<1>1. request[r] # Idle
  BY DEF Persist, Idle
<1>2. s \in Snapshots /\ at \in 0..now /\ at \in Nat
  BY <1>1, RequestTyped DEF TypeOK
<1>3. Owner[s.lineage] \in Customers
  BY <1>2, SnapshotTyped
<1>4. c \in Customers /\ Canonical(c) /\ ResolveCustomer(c) = c
  BY <1>3, Behind DEF TypeOK
<1>5. PICK owner \in EvidenceCustomers(s.lineage, c) : rows' = SaveObservation(s, at, owner)
  BY DEF Persist
<1>6. owner \in Customers /\ Together(owner, Owner[s.lineage])
  <2>1. CASE owner = c
    BY <1>4, <2>1 DEF Together
  <2>2. CASE owner # c
    <3>1. PICK o \in rows : o.lineage = s.lineage /\ owner = o.customer
      BY <1>5, <2>2 DEF EvidenceCustomers
    <3>2. QED
      BY <3>1 DEF RowsOwned, TypeOK, StoreRow
  <2>3. QED
    BY <2>1, <2>2
<1>7. \E row : SaveObservation(s, at, owner) = {o \in rows : o.id # s.id} \cup {row} /\ Replaced(s, at, row)
  BY <1>2, <1>6, Saved
<1>8. QED
  BY <1>1, <1>2, <1>4, <1>5, <1>7

LEMMA PersistKeeps ==
    ASSUME IInv, NEW r \in Requests, Persist(r) PROVE IInv'
<1>1. /\ TypeOK /\ NoChains /\ RowsOwned /\ NewestIsLatest /\ GrantsNamed /\ Settled /\ Events /\ Commanded
      /\ AllowedImportIsPaid /\ now \in Nat
  BY DEF IInv, TypeOK
<1>2. PICK s : s = request[r].snapshot
  OBVIOUS
<1>3. PICK at : at = request[r].at
  OBVIOUS
<1>4. PICK c : c = ResolveCustomer(Owner[s.lineage])
  OBVIOUS
<1>5. /\ s \in Snapshots /\ at \in 0..now /\ at \in Nat /\ c \in Customers /\ Canonical(c)
      /\ request[r] # Idle
      /\ \E row : rows' = {o \in rows : o.id # s.id} \cup {row} /\ Replaced(s, at, row)
  BY <1>1, <1>2, <1>3, <1>4, PersistSaves
<1>6. PICK row : rows' = {o \in rows : o.id # s.id} \cup {row} /\ Replaced(s, at, row)
  BY <1>5
<1>7. UNCHANGED <<now, merged, grants, importer>>
  BY DEF Persist, importVars
<1>8. rows' \subseteq StoreRow /\ Table(rows') /\ RowsOwned'
  BY <1>1, <1>5, <1>6, <1>7, SavedRows
<1>9. newest' = RecordSighting(s, at)
  BY <1>2, <1>3 DEF Persist
<1>10. /\ newest' \subseteq [lineage : Lineages, product : {z.product : z \in Snapshots}, at : Nat, allowed : BOOLEAN]
       /\ NewestIsLatest'
  BY <1>1, <1>5, <1>6, <1>9, SavedNewest
<1>11. Refresh(c, rows', grants', merged', at, TRUE)
  BY <1>2, <1>3, <1>4, <1>7 DEF Persist
<1>12. EventTypes' /\ Events' /\ Settled'
  <2>1. /\ \A d \in Customers \ {c} : Canonical(d) =>
                Own(rows', CustomerClosure(d, merged)) = Own(rows, CustomerClosure(d, merged))
        /\ \A o \in Own(rows, CustomerClosure(c, merged)) :
                \E p \in Own(rows', CustomerClosure(c, merged)) : SameSource(p, o)
    BY <1>1, <1>4, <1>5, <1>6, <1>7, SavedFor
  <2>2. /\ grants' \subseteq ImportRow /\ Table(grants')
        /\ merged' \in [Customers -> Customers \cup {NoCustomer}]
    BY <1>1, <1>7 DEF TypeOK
  <2>3. \A d \in Customers \ {c} : Canonical(d)' =>
               /\ Canonical(d) /\ CustomerClosure(d, merged') = CustomerClosure(d, merged)
               /\ Own(rows', CustomerClosure(d, merged)) = Own(rows, CustomerClosure(d, merged))
               /\ Own(grants', CustomerClosure(d, merged)) = Own(grants, CustomerClosure(d, merged))
    BY <1>7, <2>1 DEF Canonical
  <2>4. /\ \A o \in Own(rows, CustomerClosure(c, merged)) :
               \E p \in Own(rows', CustomerClosure(c, merged')) : SameSource(p, o)
        /\ \A g \in Own(grants, CustomerClosure(c, merged)) :
               \E h \in Own(grants', CustomerClosure(c, merged')) : SameSource(h, g)
    BY <1>7, <2>1 DEF SameSource
  <2>5. QED
    BY <1>1, <1>5, <1>7, <1>8, <1>11, <2>2, <2>3, <2>4, Refreshed
<1>13. Kept
  BY <1>1, <1>7, KeptUnchanged
<1>14. DOMAIN importer' = Importers /\ Commanded'
  BY <1>1, <1>7, <1>13, CommandedStays
<1>15. NoChains' /\ GrantsNamed' /\ AllowedImportIsPaid'
  BY <1>1, <1>7 DEF NoChains, Canonical, GrantsNamed, AllowedImportIsPaid, ResolveCustomer
<1>16. TypeOK'
  <2>1. request' \in [Requests -> {Idle} \cup [pc : {"queried", "normalized", "committed"},
                                 snapshot : Snapshots, customer : Customers, at : 0..now]]
    <3>1. [request[r] EXCEPT !.pc = "committed"] \in
              [pc : {"queried", "normalized", "committed"}, snapshot : Snapshots, customer : Customers, at : 0..now]
      BY <1>1, <1>5, RequestTyped
    <3>2. request' = [request EXCEPT ![r] = [request[r] EXCEPT !.pc = "committed"]]
      BY <1>1 DEF Persist, TypeOK
    <3>3. QED
      BY <1>1, <3>1, <3>2 DEF TypeOK
  <2>2. QED
    BY <1>1, <1>7, <1>8, <1>10, <1>12, <1>14, <2>1 DEF TypeOK
<1>17. QED
  BY <1>8, <1>10, <1>12, <1>14, <1>15, <1>16 DEF IInv

LEMMA MergeKeeps ==
    ASSUME IInv, NEW c \in Customers, NEW s \in Customers, MergeCustomers(c, s) PROVE IInv'
<1>1. /\ TypeOK /\ NoChains /\ RowsOwned /\ NewestIsLatest /\ GrantsNamed /\ Settled /\ Events /\ Commanded
      /\ AllowedImportIsPaid /\ now \in Nat /\ merged \in [Customers -> Customers \cup {NoCustomer}]
  BY DEF IInv, TypeOK
<1>2. /\ c # s /\ Canonical(c) /\ merged[s] = NoCustomer /\ \A d \in Customers : merged[d] # s
      /\ merged' = [merged EXCEPT ![s] = c]
      /\ UNCHANGED <<now, rows, grants, request, newest, importer>>
  BY DEF MergeCustomers, Canonical, importVars
<1>3. c # NoCustomer /\ s # NoCustomer
  BY EntitlementsAssumption DEF NoCustomer
<1>4. merged' \in [Customers -> Customers \cup {NoCustomer}] /\ NoChains'
  BY <1>1, <1>2, <1>3 DEF NoChains, Canonical
<1>5. \A d \in Customers : ResolveCustomer(d)' = IF d = s THEN c ELSE ResolveCustomer(d)
  BY <1>1, <1>2, <1>3 DEF ResolveCustomer
<1>6. \A d \in Customers : ResolveCustomer(d) = s => d = s
  BY <1>1, <1>2 DEF ResolveCustomer
<1>7. ResolveCustomer(s) = s
  BY <1>2 DEF ResolveCustomer
<1>8. \A x, y \in Customers : Together(x, y) => Together(x, y)'
  <2> SUFFICES ASSUME NEW x \in Customers, NEW y \in Customers, ResolveCustomer(x) = ResolveCustomer(y)
               PROVE  ResolveCustomer(x)' = ResolveCustomer(y)'
    BY DEF Together
  <2>1. x = s <=> y = s
    BY <1>6, <1>7
  <2>2. QED
    BY <1>5, <2>1
<1>9. Kept
  BY <1>1, <1>2, <1>8 DEF Kept, SameSource, Together
<1>10. RowsOwned'
  <2>1. \A o \in rows : o.customer \in Customers /\ Owner[o.lineage] \in Customers
    BY <1>1, EntitlementsAssumption DEF TypeOK, StoreRow
  <2>2. QED
    BY <1>1, <1>2, <1>8, <2>1 DEF RowsOwned
<1>11. EventTypes' /\ Events' /\ Settled'
  <2>1. \A d \in Customers \ {c} : Canonical(d)' =>
            Canonical(d) /\ CustomerClosure(d, merged') = CustomerClosure(d, merged)
    <3> SUFFICES ASSUME NEW d \in Customers \ {c}, Canonical(d)'
                 PROVE  Canonical(d) /\ CustomerClosure(d, merged') = CustomerClosure(d, merged)
      OBVIOUS
    <3>1. d # s /\ Canonical(d)
      BY <1>1, <1>2, <1>3 DEF Canonical
    <3>2. \A x \in Customers : merged'[x] = d <=> merged[x] = d
      BY <1>1, <1>2, EntitlementsAssumption DEF NoCustomer
    <3>3. QED
      BY <3>1, <3>2 DEF CustomerClosure
  <2>2. CustomerClosure(c, merged) \subseteq CustomerClosure(c, merged')
    BY <1>1, <1>2, <1>3 DEF CustomerClosure
  <2>3. /\ \A o \in Own(rows, CustomerClosure(c, merged)) :
               \E p \in Own(rows', CustomerClosure(c, merged')) : SameSource(p, o)
        /\ \A g \in Own(grants, CustomerClosure(c, merged)) :
               \E h \in Own(grants', CustomerClosure(c, merged')) : SameSource(h, g)
    BY <1>2, <2>2 DEF SameSource, Own
  <2>4. \A d \in Customers \ {c} : Canonical(d)' =>
               /\ Canonical(d) /\ CustomerClosure(d, merged') = CustomerClosure(d, merged)
               /\ Own(rows', CustomerClosure(d, merged)) = Own(rows, CustomerClosure(d, merged))
               /\ Own(grants', CustomerClosure(d, merged)) = Own(grants, CustomerClosure(d, merged))
    BY <1>2, <2>1
  <2>5. Refresh(c, rows', grants', merged', now, TRUE)
    BY <1>2 DEF MergeCustomers
  <2>6. now \in 0..now
    BY <1>1
  <2>7. /\ rows' \subseteq StoreRow /\ Table(rows') /\ grants' \subseteq ImportRow /\ Table(grants')
        /\ UNCHANGED now
    BY <1>1, <1>2 DEF TypeOK
  <2>8. QED
    BY <1>1, <1>2, <1>4, <2>3, <2>4, <2>5, <2>6, <2>7, Refreshed
<1>12. DOMAIN importer' = Importers /\ Commanded'
  BY <1>1, <1>2, <1>9, CommandedStays
<1>13. AllowedImportIsPaid'
  <2> SUFFICES ASSUME NEW g \in grants', g.access = "allowed" PROVE Paid(g)'
    BY DEF AllowedImportIsPaid, Paid
  <2>1. g \in grants /\ g.customer \in Customers
    BY <1>1, <1>2 DEF TypeOK, ImportRow
  <2>2. Paid(g)
    BY <1>1, <2>1 DEF AllowedImportIsPaid, Paid
  <2>3. QED
    BY <1>1, <1>9, <2>1, <2>2, PaidKept
<1>14. GrantsNamed' /\ NewestIsLatest'
  BY <1>1, <1>2 DEF GrantsNamed, NewestIsLatest
<1>15. TypeOK'
  BY <1>1, <1>2, <1>4, <1>11, <1>12 DEF TypeOK
<1>16. QED
  BY <1>4, <1>10, <1>11, <1>12, <1>13, <1>14, <1>15 DEF IInv

\* Steps of an import that store nothing for a customer.
LEMMA ImporterKeeps ==
    ASSUME IInv, NEW i \in Importers, NEW q, importer' = [importer EXCEPT ![i] = q],
           \/ q \in {Idle, [pc |-> "ended", exit |-> 1], [pc |-> "ended", exit |-> 2]}
           \/ EndedWell(q) \/ Running(q),
           UNCHANGED <<now, merged, rows, grants, current, version, outbox, silent, newest, request>>
    PROVE  IInv'
<1>1. TypeOK /\ Commanded /\ now \in Nat \ {0}
  BY DEF IInv, TypeOK
<1>2. /\ EventTypes' /\ NoChains' /\ RowsOwned' /\ GrantsNamed' /\ NewestIsLatest' /\ Settled'
      /\ Events' /\ AllowedImportIsPaid' /\ Kept
  BY <1>1, CoreKept
<1>3. \/ q \in {Idle, [pc |-> "ended", exit |-> 1], [pc |-> "ended", exit |-> 2]}
      \/ EndedWell(q)' \/ Running(q)'
  BY <1>1, <1>2, EndedWellKept, RunningKept
<1>4. DOMAIN importer' = Importers /\ Commanded'
  BY <1>1, <1>2, <1>3, CommandedKept
<1>5. TypeOK'
  BY <1>1, <1>2, <1>4 DEF TypeOK
<1>6. QED
  BY <1>2, <1>4, <1>5 DEF IInv

LEMMA StartImportKeeps ==
    ASSUME IInv, NEW i \in Importers, NEW command \in Commands, StartImport(i, command) PROVE IInv'
<1> DEFINE file == Exports[command.export]
           plan == Plan(file, command.skipAnonymous, now)
           skipped == {s.id : s \in {p \in Range(plan) : p.skipped}}
           todo == {<<k, plan[k]>> : k \in {j \in DOMAIN plan : ~plan[j].skipped /\ ~plan[j].fatal}}
           failed == \E s \in Range(plan) : s.fatal
           started == [pc |-> "planned", export |-> command.export, batch |-> command.batch,
                       webhooks |-> command.webhooks, at |-> now, skipped |-> skipped, todo |-> todo,
                       failed |-> failed]
           q == IF ~file.complete THEN [pc |-> "ended", exit |-> 2] ELSE started
<1>1. /\ importer' = [importer EXCEPT ![i] = q]
      /\ UNCHANGED <<now, merged, rows, grants, current, version, outbox, silent, newest, request>>
  BY DEF StartImport
<1>2. now \in 1..now /\ now \in Nat
  BY DEF IInv, TypeOK
<1>3. /\ command.export \in {k.export : k \in Commands} /\ command.batch \in {k.batch : k \in Commands}
      /\ command.webhooks \in {k.webhooks : k \in Commands}
      /\ command.skipAnonymous \in {k.skipAnonymous : k \in Commands}
  OBVIOUS
<1>4. \A k \in DOMAIN plan : plan[k] \in Range(plan) /\ (plan[k].skipped => plan[k].id \in AnonymousIds)
  <2> HIDE DEF plan
  <2>1. QED
    BY <1>2, <1>3, PlanEntries DEF plan, PlannedAs
<1>5. \A p \in Range(plan) : \E k \in DOMAIN plan : p = plan[k]
  BY DEF Range
<1>6. skipped \in SUBSET AnonymousIds /\ failed \in BOOLEAN
  <2> HIDE DEF plan
  <2>1. QED
    BY <1>4, <1>5
<1>7. failed \/ \A k \in DOMAIN plan :
          \/ plan[k].skipped /\ plan[k].id \in skipped
          \/ ~plan[k].skipped /\ ~plan[k].fatal /\ (<<k, plan[k]>> \in todo \/ Stored(plan[k]))
  <2> HIDE DEF plan
  <2> SUFFICES ASSUME ~failed, NEW k \in DOMAIN plan
               PROVE  \/ plan[k].skipped /\ plan[k].id \in skipped
                      \/ ~plan[k].skipped /\ ~plan[k].fatal /\ <<k, plan[k]>> \in todo
    OBVIOUS
  <2>1. ~plan[k].fatal
    BY <1>4
  <2>2. CASE plan[k].skipped
    BY <1>4, <2>2
  <2>3. CASE ~plan[k].skipped
    BY <2>1, <2>3
  <2>4. QED
    BY <2>2, <2>3
<1>8. Running(started)
  <2> HIDE DEF skipped, todo, failed
  <2>1. /\ started.export = command.export /\ started.at = now /\ started.todo = todo
        /\ started.skipped = skipped /\ started.failed = failed /\ started.pc = "planned"
    OBVIOUS
  <2>2. started \in [pc : {"planned", "applying"}, export : {k.export : k \in Commands},
              batch : {k.batch : k \in Commands}, webhooks : {k.webhooks : k \in Commands},
              at : 1..now, skipped : SUBSET AnonymousIds, todo : {started.todo}, failed : BOOLEAN]
    BY <1>2, <1>3, <1>6, <2>1
  <2>3. \E sk \in {k.skipAnonymous : k \in Commands} :
            LET pl == Plan(Exports[started.export], sk, started.at)
            IN  /\ started.todo \subseteq {<<k, pl[k]>> : k \in {j \in DOMAIN pl : ~pl[j].skipped /\ ~pl[j].fatal}}
                /\ started.failed \/ \A k \in DOMAIN pl :
                       \/ pl[k].skipped /\ pl[k].id \in started.skipped
                       \/ ~pl[k].skipped /\ ~pl[k].fatal /\ (<<k, pl[k]>> \in started.todo \/ Stored(pl[k]))
    <3> WITNESS command.skipAnonymous \in {k.skipAnonymous : k \in Commands}
    <3>1. todo \subseteq {<<k, plan[k]>> : k \in {j \in DOMAIN plan : ~plan[j].skipped /\ ~plan[j].fatal}}
      BY DEF todo
    <3> HIDE DEF started
    <3>2. QED
      BY <1>7, <2>1, <3>1
  <2> HIDE DEF started
  <2>4. QED
    BY <2>1, <2>2, <2>3 DEF Running
<1>9. q \in {Idle, [pc |-> "ended", exit |-> 1], [pc |-> "ended", exit |-> 2]} \/ Running(q)
  <2> HIDE DEF started
  <2>1. QED
    BY <1>8
<1> HIDE DEF q
<1>10. QED
  <2>1. PICK v : v = q
    OBVIOUS
  <2>2. /\ importer' = [importer EXCEPT ![i] = v]
        /\ v \in {Idle, [pc |-> "ended", exit |-> 1], [pc |-> "ended", exit |-> 2]} \/ Running(v)
    BY <1>1, <1>9, <2>1
  <2>3. QED
    BY <1>1, <2>2, ImporterKeeps

LEMMA RunningImporter ==
    ASSUME Commanded, NEW i \in Importers, importer[i].pc \in {"planned", "applying"}
    PROVE  Running(importer[i])
<1>1. importer[i] \notin {Idle, [pc |-> "ended", exit |-> 1], [pc |-> "ended", exit |-> 2]}
  BY DEF Idle
<1>2. ~EndedWell(importer[i])
  BY DEF EndedWell
<1>3. QED
  BY <1>1, <1>2 DEF Commanded

\* The parts of a running command.
Fields(q) ==
    /\ q.export \in {k.export : k \in Commands} /\ q.at \in 1..now /\ q.skipped \in SUBSET AnonymousIds
    /\ q.failed \in BOOLEAN

LEMMA RunningFields ==
    ASSUME NEW q, Running(q)
    PROVE  Fields(q)
BY DEF Running, Fields

LEMMA EnsureKeeps ==
    ASSUME IInv, NEW i \in Importers, EnsureImportBatch(i) PROVE IInv'
<1>1. PICK q : q = importer[i]
  OBVIOUS
<1>2. Running(q)
  BY <1>1, RunningImporter DEF EnsureImportBatch, IInv
<1> DEFINE p == [q EXCEPT !.pc = "applying"]
<1>3. Running(p)
  <2>1. /\ p.todo = q.todo /\ p.export = q.export /\ p.at = q.at /\ p.failed = q.failed
        /\ p.skipped = q.skipped /\ p.pc = "applying"
    BY <1>2 DEF Running
  <2>2. p \in [pc : {"planned", "applying"}, export : {k.export : k \in Commands},
              batch : {k.batch : k \in Commands}, webhooks : {k.webhooks : k \in Commands},
              at : 1..now, skipped : SUBSET AnonymousIds, todo : {p.todo}, failed : BOOLEAN]
    BY <1>2, <2>1 DEF Running
  <2> HIDE DEF p
  <2>3. QED
    BY <1>2, <2>1, <2>2 DEF Running
<1>4. \E v : /\ importer' = [importer EXCEPT ![i] = v]
             /\ v = [pc |-> "ended", exit |-> 2] \/ v = p
  BY <1>1 DEF EnsureImportBatch
<1>5. UNCHANGED <<now, merged, rows, grants, current, version, outbox, silent, newest, request>>
  BY DEF EnsureImportBatch
<1> HIDE DEF p
<1>6. QED
  BY <1>3, <1>4, <1>5, ImporterKeeps

LEMMA FailImportKeeps ==
    ASSUME IInv, NEW i \in Importers, FailImport(i) PROVE IInv'
<1>1. /\ importer' = [importer EXCEPT ![i] = Idle]
      /\ UNCHANGED <<now, merged, rows, grants, current, version, outbox, silent, newest, request>>
  BY DEF FailImport
<1>2. QED
  BY <1>1, ImporterKeeps

\* A command that did everything it planned, and failed nothing, imported its file.
LEMMA EndImportKeeps ==
    ASSUME IInv, NEW i \in Importers, EndImport(i) PROVE IInv'
<1>1. PICK q : q = importer[i]
  OBVIOUS
<1>2. Running(q) /\ q.todo = {} /\ Fields(q)
  BY <1>1, RunningImporter, RunningFields DEF EndImport, IInv
<1> DEFINE p == [pc |-> "ended", exit |-> 0, export |-> q.export, at |-> q.at, skipped |-> q.skipped]
<1>3. ASSUME ~q.failed PROVE EndedWell(p)
  <2>1. PICK sk \in {k.skipAnonymous : k \in Commands} :
            LET plan == Plan(Exports[q.export], sk, q.at)
            IN  \A k \in DOMAIN plan :
                    \/ plan[k].skipped /\ plan[k].id \in q.skipped
                    \/ ~plan[k].skipped /\ ~plan[k].fatal /\ (<<k, plan[k]>> \in q.todo \/ Stored(plan[k]))
    BY <1>2, <1>3 DEF Running
  <2> DEFINE plan == Plan(Exports[q.export], sk, q.at)
             drafts == parseExport(Exports[q.export], q.at)
  <2>2. \A k \in DOMAIN plan :
            \/ plan[k].skipped /\ plan[k].id \in q.skipped
            \/ ~plan[k].skipped /\ ~plan[k].fatal /\ Stored(plan[k])
    BY <1>2, <2>1
  <2>3. q.export \in {k.export : k \in Commands} /\ q.at \in Nat
    BY <1>2 DEF Fields
  <2>4. p \in [pc : {"ended"}, exit : {0}, export : {k.export : k \in Commands}, at : 1..now,
               skipped : SUBSET AnonymousIds]
    BY <1>2 DEF Fields
  <2>5. /\ DOMAIN plan = DOMAIN drafts
        /\ \A k \in DOMAIN plan : PlannedAs(plan[k], drafts[k], q.at)
    <3>1. PlanOf(plan, drafts, q.at)
      BY <2>3, PlanRead
    <3> HIDE DEF plan, drafts
    <3>2. QED
      BY <3>1 DEF PlanOf
  <2>6. ASSUME NEW d \in Range(drafts) PROVE d.id \in q.skipped \/ Imported(d, q.at)
    <3>1. PICK k \in DOMAIN drafts : d = drafts[k]
      BY <2>6 DEF Range
    <3> HIDE DEF plan, drafts
    <3>2. k \in DOMAIN plan
      BY <2>5, <3>1
    <3>3. CASE plan[k].id \in q.skipped
      BY <2>5, <3>1, <3>2, <3>3 DEF PlannedAs
    <3>4. CASE ~plan[k].fatal /\ ~plan[k].skipped /\ Stored(plan[k])
      <4>1. d.id \in Customers /\ ReadRows(d.rows) /\ plan[k].id = d.id
        BY <2>5, <3>1, <3>2, <3>4 DEF ReadDraft, PlannedAs
      <4>2. ASSUME NEW row \in Range(d.rows), NEW e \in row.entitlements
            PROVE  \E h \in mapGrant(row, e, q.at), g \in grants : SameSource(g, h) /\ Together(g.customer, d.id)
        <5>1. ~RowRefused(row, q.at)
          BY <2>5, <3>1, <3>2, <3>4, <4>2 DEF PlannedAs
        <5>2. PICK h : h \in mapGrant(row, e, q.at)
          BY <4>2, <5>1 DEF RowRefused
        <5>3. PICK n \in DOMAIN d.rows : row = d.rows[n]
          BY <4>2 DEF Range
        <5>4. h \in MadeOf(d.rows, n, q.at)
          BY <4>2, <5>2, <5>3 DEF MadeOf
        <5>5. PICK x \in PlannedGrants(d.rows, q.at) : SameSource(x, h)
          BY <4>1, <5>4, PlannedCovers
        <5>6. x \in plan[k].grants
          BY <2>5, <3>1, <3>2, <5>5 DEF PlannedAs
        <5>7. PICK g \in grants : SameSource(g, x) /\ Together(g.customer, plan[k].id)
          BY <3>4, <5>6 DEF Stored
        <5>8. SameSource(g, h) /\ Together(g.customer, d.id)
          BY <4>1, <5>5, <5>7 DEF SameSource
        <5>9. QED
          BY <5>2, <5>8
      <4>3. QED
        BY <4>1, <4>2 DEF Imported
    <3>5. QED
      BY <2>2, <3>2, <3>3, <3>4
  <2>7. p.export = q.export /\ p.at = q.at /\ p.skipped = q.skipped
    OBVIOUS
  <2> HIDE DEF p
  <2>8. QED
    BY <2>4, <2>6, <2>7 DEF EndedWell
<1>4. \E v : /\ importer' = [importer EXCEPT ![i] = v]
             /\ v = [pc |-> "ended", exit |-> 1] \/ (~q.failed /\ v = p)
  BY <1>1 DEF EndImport
<1>5. UNCHANGED <<now, merged, rows, grants, current, version, outbox, silent, newest, request>>
  BY DEF EndImport
<1> HIDE DEF p
<1>6. QED
  BY <1>3, <1>4, <1>5, ImporterKeeps

\* The next subscriber is one of the plan, among those to do.
LEMMA NextPlanned ==
    ASSUME NEW plan, IsFiniteSet(DOMAIN plan), DOMAIN plan \subseteq Nat, NEW todo, todo # {},
           todo \subseteq {<<k, plan[k]>> : k \in DOMAIN plan}
    PROVE  \E k \in DOMAIN plan : NextSubscriber(todo) = <<k, plan[k]>> /\ <<k, plan[k]>> \in todo
<1> DEFINE S == {k \in DOMAIN plan : <<k, plan[k]>> \in todo}
           R == {p \in S \X S : p[1] <= p[2]}
<1>1. S \subseteq Nat
  OBVIOUS
<1>2. IsFiniteSet(S)
  BY FS_Subset
<1>3. S # {}
  OBVIOUS
<1>4. \A x, y \in S : x # y => <<x, y>> \in R \/ <<y, x>> \in R
  BY <1>1
<1>5. \A x, y, z \in S : <<x, y>> \in R /\ <<y, z>> \in R => <<x, z>> \in R
  BY <1>1
<1>6. PICK m \in S : \A d \in S \ {m} : <<m, d>> \in R
  <2> HIDE DEF R, S
  <2>1. QED
    BY <1>2, <1>3, <1>4, <1>5, FiniteFirst
<1>7. \A d \in S : m <= d
  <2> SUFFICES ASSUME NEW d \in S PROVE m <= d
    OBVIOUS
  <2>1. CASE d = m
    BY <1>1, <2>1
  <2>2. CASE d # m
    BY <1>6, <2>2
  <2>3. QED
    BY <2>1, <2>2
<1>8. \A p \in todo : \E k \in S : p = <<k, plan[k]>>
  OBVIOUS
<1>9. <<m, plan[m]>> \in todo /\ \A p \in todo : <<m, plan[m]>>[1] <= p[1]
  BY <1>7, <1>8
<1>10. NextSubscriber(todo) \in todo
  BY <1>9 DEF NextSubscriber
<1>11. QED
  BY <1>8, <1>10

\* The grants of a subscriber are written under a customer.
Upserts(q, c, G, written) ==
    /\ c \in Customers /\ q.export \in {k.export : k \in Commands}
    /\ IsFiniteSet(G) /\ \A g \in G : MadeGrant(g)
    /\ \A g, h \in G : SameSource(g, h) => g = h
    /\ written = {importGrantRecord(q, c, g) : g \in G}
    /\ grants' = UpsertImportGrants(grants, written)

\* Upserting the grants of a subscriber under a customer: every purchase stored stays so,
\* nobody else's grants are touched.
LEMMA Upserted ==
    ASSUME TypeOK, GrantsNamed, NEW q, NEW c, NEW G, NEW written, Upserts(q, c, G, written)
    PROVE  /\ grants' \subseteq ImportRow /\ Table(grants') /\ GrantsNamed'
           /\ \A g \in G : \E w \in grants' : SameSource(w, g) /\ w.customer = c
           /\ \A g \in grants : \E w \in grants' : SameSource(w, g) /\ w.customer = g.customer
           /\ \A w \in grants' : w \in grants \/ \E g \in G : w = importGrantRecord(q, c, g)
           /\ \A M : c \notin M => Own(grants', M) = Own(grants, M)
<1>0. /\ c \in Customers /\ q.export \in {k.export : k \in Commands}
      /\ IsFiniteSet(G) /\ \A g \in G : MadeGrant(g)
      /\ \A g, h \in G : SameSource(g, h) => g = h
      /\ written = {importGrantRecord(q, c, g) : g \in G}
      /\ grants' = UpsertImportGrants(grants, written)
  BY DEF Upserts
<1> USE <1>0
<1>1. grants' = {g \in grants : \A h \in written : h.id # g.id} \cup written
  BY DEF UpsertImportGrants
<1>2. q.export \in DOMAIN Exports
  BY EntitlementsAssumption
<1>3. ASSUME NEW g \in G
      PROVE  LET w == importGrantRecord(q, c, g)
             IN  /\ w \in ImportRow /\ w \in written /\ w.id = GrantID(c, g) /\ w.customer = c
                 /\ w.product = g.product /\ w.lineage = g.lineage /\ w.id = GrantID(c, w)
                 /\ w.product \in MappedProducts /\ w.lineage \in Nat
  <2> DEFINE w == importGrantRecord(q, c, g)
  <2>1. MadeGrant(g)
    BY <1>3
  <2>2. GrantID(c, g) \in Nat
    BY <2>1, GrantIDIsNumber DEF MadeGrant
  <2>3. w = [kind |-> "import", product |-> g.product, lineage |-> g.lineage, access |-> g.access,
             reason |-> g.reason, starts |-> g.starts, ends |-> g.ends, at |-> g.at,
             id |-> GrantID(c, g), customer |-> c, export |-> q.export]
    BY DEF importGrantRecord
  <2>4. w \in written
    BY <1>3
  <2> HIDE DEF w
  <2>5. w \in ImportRow
    BY <1>2, <2>1, <2>2, <2>3 DEF ImportRow, MadeGrant
  <2>6. w.id = GrantID(c, g) /\ w.customer = c /\ w.product = g.product /\ w.lineage = g.lineage
    BY <2>3
  <2>7. GrantID(c, w) = GrantID(c, g)
    BY <2>6 DEF GrantID
  <2>8. QED
    BY <2>1, <2>4, <2>5, <2>6, <2>7 DEF w, MadeGrant
<1>4. \A w \in written : \E g \in G : w = importGrantRecord(q, c, g)
  OBVIOUS
<1>5. grants' \subseteq ImportRow
  BY <1>1, <1>3, <1>4 DEF TypeOK
<1>6. \A g \in grants : /\ g.id = GrantID(g.customer, g) /\ g.customer \in Customers
                        /\ g.product \in MappedProducts /\ g.lineage \in Nat
  BY DEF GrantsNamed, TypeOK, ImportRow
<1>7. IsFiniteSet(grants')
  <2> DEFINE K == {g \in grants : \A h \in written : h.id # g.id}
  <2>1. IsFiniteSet(K) /\ grants' = K \cup written
    BY <1>1, FS_Subset DEF TypeOK, Table
  <2>2. IsFiniteSet(written)
    <3> DEFINE f == [g \in G |-> importGrantRecord(q, c, g)]
    <3>1. f \in Surjection(G, written)
      BY DEF Surjection
    <3>2. QED
      BY <3>1, FS_Surjection
  <2>3. IsFiniteSet(K \cup written)
    <3> HIDE DEF K
    <3>1. QED
      BY <2>1, <2>2, FS_Union
  <2>4. QED
    BY <2>1, <2>3
<1>8. ASSUME NEW v \in grants', NEW w \in grants', v.id = w.id PROVE v = w
  <2>1. CASE v \in written /\ w \in written
    <3>1. PICK g \in G : v = importGrantRecord(q, c, g)
      BY <1>4, <2>1
    <3>2. PICK h \in G : w = importGrantRecord(q, c, h)
      BY <1>4, <2>1
    <3>3. GrantID(c, g) = GrantID(c, h) /\ MadeGrant(g) /\ MadeGrant(h)
      BY <1>3, <1>8, <3>1, <3>2
    <3>4. SameSource(g, h)
      BY <3>3, GrantIDNames DEF MadeGrant
    <3>5. QED
      BY <3>1, <3>2, <3>4
  <2>2. CASE v \notin written \/ w \notin written
    BY <1>1, <1>8, <2>2 DEF TypeOK, Table
  <2>3. QED
    BY <2>1, <2>2
<1>9. GrantsNamed'
  <2> SUFFICES ASSUME NEW w \in grants' PROVE w.id = GrantID(w.customer, w)
    BY DEF GrantsNamed
  <2>1. CASE w \in written
    <3>1. PICK g \in G : w = importGrantRecord(q, c, g)
      BY <1>4, <2>1
    <3>2. w.id = GrantID(c, w) /\ w.customer = c
      BY <1>3, <3>1
    <3>3. QED
      BY <3>2
  <2>2. CASE w \notin written
    BY <1>1, <1>6, <2>2
  <2>3. QED
    BY <2>1, <2>2
<1>10. \A g \in G : \E w \in grants' : SameSource(w, g) /\ w.customer = c
  BY <1>1, <1>3 DEF SameSource
<1>11. ASSUME NEW g \in grants, NEW h \in written, h.id = g.id
       PROVE  g.customer = c /\ h.customer = c /\ SameSource(h, g)
  <2>1. PICK x \in G : h = importGrantRecord(q, c, x)
    BY <1>4
  <2>2. /\ h.id = GrantID(c, h) /\ h.customer = c /\ h.product \in MappedProducts /\ h.lineage \in Nat
    BY <1>3, <2>1
  <2>3. GrantID(c, h) = GrantID(g.customer, g)
    BY <1>6, <1>11, <2>2
  <2>4. c = g.customer /\ SameSource(h, g)
    BY <1>6, <2>2, <2>3, GrantIDNames
  <2>5. QED
    BY <2>2, <2>4
<1>12. \A g \in grants : \E w \in grants' : SameSource(w, g) /\ w.customer = g.customer
  <2> SUFFICES ASSUME NEW g \in grants PROVE \E w \in grants' : SameSource(w, g) /\ w.customer = g.customer
    OBVIOUS
  <2>1. CASE \E h \in written : h.id = g.id
    BY <1>1, <1>11, <2>1
  <2>2. CASE ~\E h \in written : h.id = g.id
    BY <1>1, <2>2 DEF SameSource
  <2>3. QED
    BY <2>1, <2>2
<1>13. \A w \in grants' : w \in grants \/ \E g \in G : w = importGrantRecord(q, c, g)
  BY <1>1, <1>4
<1>14. ASSUME NEW M, c \notin M PROVE Own(grants', M) = Own(grants, M)
  <2>1. \A w \in written : w.customer = c
    BY <1>3, <1>4
  <2>2. QED
    BY <1>1, <1>11, <1>14, <2>1 DEF Own
<1>15. Table(grants')
  BY <1>7, <1>8 DEF Table
<1>16. QED
  BY <1>5, <1>9, <1>10, <1>12, <1>13, <1>14, <1>15

\* The plan a running command goes through, and the subscriber it comes to next.
Coming(q, plan, drafts, k) ==
    /\ PlanOf(plan, drafts, q.at) /\ drafts = parseExport(Exports[q.export], q.at)
    /\ k \in DOMAIN plan /\ NextSubscriber(q.todo) = <<k, plan[k]>>
    /\ ~plan[k].skipped /\ ~plan[k].fatal
    /\ q.todo \subseteq {<<n, plan[n]>> : n \in {j \in DOMAIN plan : ~plan[j].skipped /\ ~plan[j].fatal}}
    /\ q.failed \/ \A n \in DOMAIN plan :
           \/ plan[n].skipped /\ plan[n].id \in q.skipped
           \/ ~plan[n].skipped /\ ~plan[n].fatal /\ (<<n, plan[n]>> \in q.todo \/ Stored(plan[n]))

LEMMA RunningComes ==
    ASSUME NEW q, Running(q), q.todo # {}, now \in Nat
    PROVE  \E sk \in {k.skipAnonymous : k \in Commands} : \E drafts :
               \E k : Coming(q, Plan(Exports[q.export], sk, q.at), drafts, k)
<1>1. PICK sk \in {k.skipAnonymous : k \in Commands} :
          LET plan == Plan(Exports[q.export], sk, q.at)
          IN  /\ q.todo \subseteq {<<n, plan[n]>> : n \in {j \in DOMAIN plan : ~plan[j].skipped /\ ~plan[j].fatal}}
              /\ q.failed \/ \A n \in DOMAIN plan :
                     \/ plan[n].skipped /\ plan[n].id \in q.skipped
                     \/ ~plan[n].skipped /\ ~plan[n].fatal /\ (<<n, plan[n]>> \in q.todo \/ Stored(plan[n]))
  BY DEF Running
<1>2. Fields(q)
  BY RunningFields
<1>3. PICK plan : plan = Plan(Exports[q.export], sk, q.at)
  OBVIOUS
<1>4. PICK drafts : drafts = parseExport(Exports[q.export], q.at)
  OBVIOUS
<1>5. PlanOf(plan, drafts, q.at)
  BY <1>2, <1>3, <1>4, PlanRead DEF Fields
<1>6. q.todo \subseteq {<<n, plan[n]>> : n \in {j \in DOMAIN plan : ~plan[j].skipped /\ ~plan[j].fatal}}
  BY <1>1, <1>3
<1>7. q.todo \subseteq {<<n, plan[n]>> : n \in DOMAIN plan}
  BY <1>6
<1>8. PICK k \in DOMAIN plan : NextSubscriber(q.todo) = <<k, plan[k]>> /\ <<k, plan[k]>> \in q.todo
  BY <1>5, <1>7, NextPlanned DEF PlanOf
<1>9. ~plan[k].skipped /\ ~plan[k].fatal
  BY <1>6, <1>8
<1>10. Coming(q, plan, drafts, k)
  BY <1>1, <1>3, <1>4, <1>5, <1>6, <1>8, <1>9 DEF Coming
<1>11. QED
  BY <1>3, <1>10

\* What is left of a plan: the subscribers to do, and unless one has failed, every other
\* one skipped or stored.
WorkLeft(q, plan, todo, failed) ==
    /\ failed \in BOOLEAN
    /\ todo \subseteq {<<n, plan[n]>> : n \in {j \in DOMAIN plan : ~plan[j].skipped /\ ~plan[j].fatal}}
    /\ failed \/ \A n \in DOMAIN plan :
           \/ plan[n].skipped /\ plan[n].id \in q.skipped
           \/ ~plan[n].skipped /\ ~plan[n].fatal /\ (<<n, plan[n]>> \in todo \/ Stored(plan[n]))

\* A command stays under way while it works its plan off.
LEMMA StaysRunning ==
    ASSUME NEW q, Running(q), NEW sk \in {k.skipAnonymous : k \in Commands}, NEW todo, NEW failed,
           WorkLeft(q, Plan(Exports[q.export], sk, q.at), todo, failed)
    PROVE  Running([q EXCEPT !.todo = todo, !.failed = failed])
<1>a. PICK p : p = [q EXCEPT !.todo = todo, !.failed = failed]
  OBVIOUS
<1>b. PICK plan : plan = Plan(Exports[q.export], sk, q.at)
  OBVIOUS
<1>c. /\ failed \in BOOLEAN
      /\ todo \subseteq {<<n, plan[n]>> : n \in {j \in DOMAIN plan : ~plan[j].skipped /\ ~plan[j].fatal}}
      /\ failed \/ \A n \in DOMAIN plan :
             \/ plan[n].skipped /\ plan[n].id \in q.skipped
             \/ ~plan[n].skipped /\ ~plan[n].fatal /\ (<<n, plan[n]>> \in todo \/ Stored(plan[n]))
  BY <1>b DEF WorkLeft
<1>1. /\ p.todo = todo /\ p.export = q.export /\ p.at = q.at /\ p.failed = failed
      /\ p.skipped = q.skipped /\ p.pc = q.pc
  BY <1>a DEF Running
<1>2. p \in [pc : {"planned", "applying"}, export : {k.export : k \in Commands},
             batch : {k.batch : k \in Commands}, webhooks : {k.webhooks : k \in Commands},
             at : 1..now, skipped : SUBSET AnonymousIds, todo : {p.todo}, failed : BOOLEAN]
  BY <1>1, <1>a, <1>c DEF Running
<1>3. p.pc \in {"planned", "applying"}
  BY <1>1, <1>a, <1>c DEF Running
<1>4. Running(p)
  BY <1>1, <1>2, <1>3, <1>b, <1>c DEF Running
<1>5. QED
  BY <1>4, <1>a

\* The same of the next state.
LEMMA StaysRunningNext ==
    ASSUME NEW q, Running(q)', NEW sk \in {k.skipAnonymous : k \in Commands}, NEW todo, NEW failed,
           WorkLeft(q, Plan(Exports[q.export], sk, q.at), todo, failed)'
    PROVE  Running([q EXCEPT !.todo = todo, !.failed = failed])'
<1>a. PICK p : p = [q EXCEPT !.todo = todo, !.failed = failed]
  OBVIOUS
<1>b. PICK plan : plan = Plan(Exports[q.export], sk, q.at)
  OBVIOUS
<1>c. /\ failed \in BOOLEAN
      /\ todo \subseteq {<<n, plan[n]>> : n \in {j \in DOMAIN plan : ~plan[j].skipped /\ ~plan[j].fatal}}
      /\ failed \/ \A n \in DOMAIN plan :
             \/ plan[n].skipped /\ plan[n].id \in q.skipped
             \/ ~plan[n].skipped /\ ~plan[n].fatal /\ (<<n, plan[n]>> \in todo \/ Stored(plan[n])')
  BY <1>b DEF WorkLeft
<1>1. /\ p.todo = todo /\ p.export = q.export /\ p.at = q.at /\ p.failed = failed
      /\ p.skipped = q.skipped /\ p.pc = q.pc
  BY <1>a DEF Running
<1>2. p \in [pc : {"planned", "applying"}, export : {k.export : k \in Commands},
             batch : {k.batch : k \in Commands}, webhooks : {k.webhooks : k \in Commands},
             at : 1..(now'), skipped : SUBSET AnonymousIds, todo : {p.todo}, failed : BOOLEAN]
  BY <1>1, <1>a, <1>c DEF Running
<1>3. p.pc \in {"planned", "applying"}
  BY <1>1, <1>a, <1>c DEF Running
<1>4. Running(p)'
  BY <1>1, <1>2, <1>3, <1>b, <1>c DEF Running
<1>5. QED
  BY <1>4, <1>a

\* The customer and the grants an applied subscriber is written with.
LEMMA SubscriberApplies ==
    ASSUME TypeOK, NoChains, NEW q, Fields(q), NEW plan, NEW drafts, NEW k, Coming(q, plan, drafts, k),
           NEW s, s = plan[k], NEW c, c = importCustomer(s)
    PROVE  /\ s.id \in Customers /\ c \in Customers /\ Canonical(c) /\ c = ResolveCustomer(s.id)
           /\ ResolveCustomer(c) = c
           /\ IsFiniteSet(s.grants) /\ \A g \in s.grants : MadeGrant(g)
           /\ \A g, h \in s.grants : SameSource(g, h) => g = h
           /\ drafts[k] \in Range(drafts) /\ drafts[k].id = s.id
           /\ \A g \in s.grants : g.access = "allowed" => PaidFor(drafts[k], g, q.at)
<1>1. /\ PlannedAs(s, drafts[k], q.at) /\ drafts[k] \in Range(drafts) /\ ~s.fatal
  BY DEF Coming, PlanOf
<1>2. s.id \in Customers /\ drafts[k].id = s.id /\ ReadRows(drafts[k].rows)
  BY <1>1 DEF PlannedAs, ReadDraft
<1>3. s.grants = PlannedGrants(drafts[k].rows, q.at)
  BY <1>1 DEF PlannedAs
<1>4. q.at \in Nat
  BY DEF Fields, TypeOK
<1>5. /\ IsFiniteSet(s.grants) /\ \A g \in s.grants : MadeGrant(g)
      /\ \A g, h \in s.grants : SameSource(g, h) => g = h
      /\ \A g \in s.grants : g.access = "allowed" => PaidFor(drafts[k], g, q.at)
  BY <1>2, <1>3, <1>4, PlannedFinite, PlannedMade, PlannedOnce, PlannedPaid
<1>6. c \in Customers /\ Canonical(c) /\ c = ResolveCustomer(s.id) /\ ResolveCustomer(c) = c
  BY <1>2, Behind DEF TypeOK, importCustomer
<1>7. QED
  BY <1>1, <1>2, <1>5, <1>6

\* A written grant is paid for when its planned one is.
LEMMA WrittenPaid ==
    ASSUME NEW d, NEW g, NEW w, NEW t, PaidFor(d, g, t), w.product = g.product, w.lineage = g.lineage
    PROVE  PaidFor(d, w, t)
<1>1. RowsOf(d, w, t) = RowsOf(d, g, t)
  BY DEF RowsOf, SameSource
<1>2. QED
  BY <1>1 DEF PaidFor

LEMMA ApplyKeeps ==
    ASSUME IInv, NEW i \in Importers, ApplySubscriber(i) PROVE IInv'
<1>1. /\ TypeOK /\ NoChains /\ RowsOwned /\ NewestIsLatest /\ GrantsNamed /\ Settled /\ Events /\ Commanded
      /\ AllowedImportIsPaid /\ now \in Nat
  BY DEF IInv, TypeOK
<1>2. PICK q : q = importer[i]
  OBVIOUS
<1>3. Running(q) /\ q.todo # {} /\ Fields(q)
  BY <1>1, <1>2, RunningImporter, RunningFields DEF ApplySubscriber
<1>0. PICK sk \in {command.skipAnonymous : command \in Commands} :
          \E drafts, k : Coming(q, Plan(Exports[q.export], sk, q.at), drafts, k)
  BY <1>1, <1>3, RunningComes
<1>4. PICK drafts, k : Coming(q, Plan(Exports[q.export], sk, q.at), drafts, k)
  BY <1>0
<1>5. PICK plan : plan = Plan(Exports[q.export], sk, q.at)
  OBVIOUS
<1>6. Coming(q, plan, drafts, k)
  BY <1>4, <1>5
<1>7. PICK s : s = plan[k]
  OBVIOUS
<1>8. PICK c : c = importCustomer(s)
  OBVIOUS
<1> DEFINE refused == \E a \in s.aliases : AliasRefused(c, a)
           todo == q.todo \ {NextSubscriber(q.todo)}
<1>9. NextSubscriber(q.todo)[2] = s /\ NextSubscriber(q.todo) = <<k, s>>
  BY <1>6, <1>7 DEF Coming
<1>10. PICK failed : failed = (q.failed \/ refused)
  OBVIOUS
<1>11. failed \in BOOLEAN
  BY <1>10
<1>12. PICK p : p = [q EXCEPT !.todo = todo, !.failed = failed]
  OBVIOUS
<1>13. importer' = [importer EXCEPT ![i] = p]
  <2>1. importer' = [importer EXCEPT ![i].todo = @ \ {NextSubscriber(@)}, ![i].failed = @ \/ refused]
    BY <1>2, <1>8, <1>9 DEF ApplySubscriber
  <2>2. i \in DOMAIN importer
    BY <1>1 DEF TypeOK
  <2>3. importer' = [importer EXCEPT ![i] = [importer[i] EXCEPT !.todo = importer[i].todo \ {NextSubscriber(importer[i].todo)},
                                                                !.failed = importer[i].failed \/ refused]]
    <3> HIDE DEF refused
    <3>1. QED
      BY <2>1, <2>2
  <2>4. QED
    BY <1>2, <1>10, <1>12, <2>3
<1>14. UNCHANGED <<now, merged, rows, request, newest>>
  BY DEF ApplySubscriber
<1>15. todo \subseteq {<<n, plan[n]>> : n \in {j \in DOMAIN plan : ~plan[j].skipped /\ ~plan[j].fatal}}
  BY <1>6 DEF Coming
<1>16. /\ s.id \in Customers /\ c \in Customers /\ Canonical(c) /\ c = ResolveCustomer(s.id)
       /\ ResolveCustomer(c) = c
       /\ IsFiniteSet(s.grants) /\ \A g \in s.grants : MadeGrant(g)
       /\ \A g, h \in s.grants : SameSource(g, h) => g = h
       /\ drafts[k] \in Range(drafts) /\ drafts[k].id = s.id
       /\ \A g \in s.grants : g.access = "allowed" => PaidFor(drafts[k], g, q.at)
  BY <1>1, <1>3, <1>6, <1>7, <1>8, SubscriberApplies
<1>17. CASE refused
  <2>1. UNCHANGED <<grants, current, version, outbox, silent>>
    BY <1>2, <1>8, <1>9, <1>17 DEF ApplySubscriber
  <2>2. failed
    BY <1>10, <1>17
  <2>3. Running(p)
    <3> HIDE DEF todo
    <3>1. WorkLeft(q, plan, todo, failed)
      BY <1>11, <1>15, <2>2 DEF WorkLeft
    <3>2. WorkLeft(q, Plan(Exports[q.export], sk, q.at), todo, failed)
      BY <1>5, <3>1
    <3>3. Running([q EXCEPT !.todo = todo, !.failed = failed])
      BY <1>3, <3>2, StaysRunning
    <3>4. QED
      BY <1>12, <3>3
  <2>4. QED
    BY <1>13, <1>14, <2>1, <2>3, ImporterKeeps
<1>18. CASE ~refused
  <2>1. /\ grants' = UpsertImportGrants(grants, {importGrantRecord(q, c, g) : g \in s.grants})
        /\ Refresh(c, rows, grants', merged, q.at, q.webhooks)
    BY <1>2, <1>8, <1>9, <1>18 DEF ApplySubscriber
  <2>2. PICK written : written = {importGrantRecord(q, c, g) : g \in s.grants}
    OBVIOUS
  <2>3. /\ grants' \subseteq ImportRow /\ Table(grants') /\ GrantsNamed'
        /\ \A g \in s.grants : \E w \in grants' : SameSource(w, g) /\ w.customer = c
        /\ \A g \in grants : \E w \in grants' : SameSource(w, g) /\ w.customer = g.customer
        /\ \A w \in grants' : w \in grants \/ \E g \in s.grants : w = importGrantRecord(q, c, g)
        /\ \A M : c \notin M => Own(grants', M) = Own(grants, M)
    <3>1. q.export \in {x.export : x \in Commands}
      BY <1>3 DEF Fields
    <3>2. PICK G : G = s.grants
      OBVIOUS
    <3>3. /\ IsFiniteSet(G) /\ \A g \in G : MadeGrant(g) /\ \A h \in G : SameSource(g, h) => g = h
          /\ written = {importGrantRecord(q, c, g) : g \in G} /\ grants' = UpsertImportGrants(grants, written)
      BY <1>16, <2>1, <2>2, <3>2
    <3>4. Upserts(q, c, G, written)
      BY <1>16, <3>1, <3>3 DEF Upserts
    <3>5. /\ grants' \subseteq ImportRow /\ Table(grants') /\ GrantsNamed'
          /\ \A g \in G : \E w \in grants' : SameSource(w, g) /\ w.customer = c
          /\ \A g \in grants : \E w \in grants' : SameSource(w, g) /\ w.customer = g.customer
          /\ \A w \in grants' : w \in grants \/ \E g \in G : w = importGrantRecord(q, c, g)
          /\ \A M : c \notin M => Own(grants', M) = Own(grants, M)
      BY <1>1, <3>4, Upserted
    <3>6. QED
      BY <3>2, <3>5
  <2>4. Kept
    <3>1. \A x, y \in Customers : Together(x, y) => Together(x, y)'
      BY <1>14 DEF Together, ResolveCustomer
    <3>2. \A g \in grants : \E h \in grants' : SameSource(h, g) /\ Together(h.customer, g.customer)'
      BY <2>3 DEF Together
    <3>3. QED
      BY <1>1, <1>14, <3>1, <3>2 DEF Kept
  <2>5. Stored(s)'
    <3>1. ResolveCustomer(c)' = ResolveCustomer(s.id)'
      BY <1>14, <1>16 DEF ResolveCustomer
    <3>2. QED
      BY <2>3, <3>1 DEF Stored, Together
  <2>6. Running(p)'
    <3>1. Running(q)'
      BY <1>1, <1>3, <2>4, RunningKept
    <3>2. \A n \in DOMAIN plan : ~plan[n].fatal /\ Stored(plan[n]) => Stored(plan[n])'
      <4> SUFFICES ASSUME NEW n \in DOMAIN plan, ~plan[n].fatal, Stored(plan[n]), NEW h \in plan[n].grants
                   PROVE  \E g \in grants' : SameSource(g, h) /\ Together(g.customer, plan[n].id)'
        BY DEF Stored
      <4>1. plan[n].id \in Customers
        BY <1>6 DEF Coming, PlanOf, PlannedAs
      <4>2. \E g \in grants : SameSource(g, h) /\ Together(g.customer, plan[n].id)
        BY DEF Stored
      <4>3. QED
        BY <1>1, <2>4, <4>1, <4>2, StoredKept
    <3>3. failed \/ \A n \in DOMAIN plan :
              \/ plan[n].skipped /\ plan[n].id \in q.skipped
              \/ ~plan[n].skipped /\ ~plan[n].fatal /\ (<<n, plan[n]>> \in todo \/ Stored(plan[n])')
      <4> SUFFICES ASSUME ~failed, NEW n \in DOMAIN plan,
                          ~(plan[n].skipped /\ plan[n].id \in q.skipped)
                   PROVE  ~plan[n].skipped /\ ~plan[n].fatal /\ (<<n, plan[n]>> \in todo \/ Stored(plan[n])')
        OBVIOUS
      <4>1. ~plan[n].skipped /\ ~plan[n].fatal /\ (<<n, plan[n]>> \in q.todo \/ Stored(plan[n]))
        BY <1>6, <1>10 DEF Coming
      <4>2. CASE Stored(plan[n])
        BY <3>2, <4>1, <4>2
      <4>3. CASE <<n, plan[n]>> \in q.todo
        <5>1. CASE <<n, plan[n]>> = NextSubscriber(q.todo)
          <6>1. plan[n] = s
            BY <1>9, <5>1
          <6>2. QED
            BY <2>5, <4>1, <6>1
        <5>2. CASE <<n, plan[n]>> # NextSubscriber(q.todo)
          BY <4>1, <4>3, <5>2
        <5>3. QED
          BY <5>1, <5>2
      <4>4. QED
        BY <4>1, <4>2, <4>3
    <3> HIDE DEF todo
    <3>4. WorkLeft(q, plan, todo, failed)'
      BY <1>11, <1>15, <3>3 DEF WorkLeft
    <3>5. WorkLeft(q, Plan(Exports[q.export], sk, q.at), todo, failed)'
      BY <1>5, <3>4
    <3>6. Running([q EXCEPT !.todo = todo, !.failed = failed])'
      BY <3>1, <3>5, StaysRunningNext
    <3>7. QED
      BY <1>12, <3>6
  <2>7. DOMAIN importer' = Importers /\ Commanded'
    BY <1>1, <1>13, <2>4, <2>6, CommandedKept
  <2>8. EventTypes' /\ Events' /\ Settled'
    <3>1. PICK at : at = q.at
      OBVIOUS
    <3>2. PICK webhooks : webhooks = q.webhooks
      OBVIOUS
    <3>3. at \in 0..now
      BY <1>1, <1>3, <3>1 DEF Fields
    <3>4. Refresh(c, rows', grants', merged', at, webhooks)
      BY <1>14, <2>1, <3>1, <3>2
    <3>5. /\ rows' \subseteq StoreRow /\ Table(rows') /\ UNCHANGED now
          /\ merged' \in [Customers -> Customers \cup {NoCustomer}]
      BY <1>1, <1>14 DEF TypeOK
    <3>6. /\ \A o \in Own(rows, CustomerClosure(c, merged)) :
               \E x \in Own(rows', CustomerClosure(c, merged')) : SameSource(x, o)
          /\ \A g \in Own(grants, CustomerClosure(c, merged)) :
               \E h \in Own(grants', CustomerClosure(c, merged')) : SameSource(h, g)
      BY <1>14, <2>3 DEF Own, SameSource
    <3>7. \A d \in Customers \ {c} : Canonical(d)' =>
               /\ Canonical(d) /\ CustomerClosure(d, merged') = CustomerClosure(d, merged)
               /\ Own(rows', CustomerClosure(d, merged)) = Own(rows, CustomerClosure(d, merged))
               /\ Own(grants', CustomerClosure(d, merged)) = Own(grants, CustomerClosure(d, merged))
      <4> SUFFICES ASSUME NEW d \in Customers \ {c}, Canonical(d)
                   PROVE  Own(grants', CustomerClosure(d, merged)) = Own(grants, CustomerClosure(d, merged))
        BY <1>14 DEF Canonical
      <4>1. c \notin CustomerClosure(d, merged)
        BY <1>1, <1>16, ClosureOfBehind DEF TypeOK
      <4>2. QED
        BY <2>3, <4>1
    <3>8. QED
      BY <1>1, <1>16, <2>3, <3>3, <3>4, <3>5, <3>6, <3>7, Refreshed
  <2>9. AllowedImportIsPaid'
    <3> SUFFICES ASSUME NEW w \in grants', w.access = "allowed" PROVE Paid(w)'
      BY DEF AllowedImportIsPaid, Paid
    <3>1. CASE w \in grants
      <4>1. Paid(w) /\ w.customer \in Customers
        BY <1>1, <3>1 DEF AllowedImportIsPaid, Paid, TypeOK, ImportRow
      <4>2. QED
        BY <1>1, <2>4, <4>1, PaidKept
    <3>2. CASE w \notin grants
      <4>1. PICK g \in s.grants : w = importGrantRecord(q, c, g)
        BY <2>3, <3>2
      <4>2. /\ w.access = g.access /\ w.product = g.product /\ w.lineage = g.lineage /\ w.customer = c
            /\ w.export = q.export
        BY <4>1 DEF importGrantRecord
      <4>3. PaidFor(drafts[k], w, q.at)
        BY <1>16, <4>2, WrittenPaid
      <4>4. q.at \in 1..(now') /\ drafts[k] \in Range(parseExport(Exports[w.export], q.at))
        BY <1>3, <1>6, <1>14, <1>16, <4>2 DEF Fields, Coming
      <4>5. ResolveCustomer(drafts[k].id)' = ResolveCustomer(w.customer)'
        BY <1>14, <1>16, <4>2 DEF ResolveCustomer
      <4>6. drafts[k].id \in Customers
        BY <1>16
      <4>7. QED
        BY <4>3, <4>4, <4>5, <4>6 DEF Paid
    <3>3. QED
      BY <3>1, <3>2
  <2>10. NoChains' /\ RowsOwned' /\ NewestIsLatest'
    BY <1>1, <1>14 DEF NoChains, Canonical, RowsOwned, Together, ResolveCustomer, NewestIsLatest
  <2>11. TypeOK'
    BY <1>1, <1>14, <2>3, <2>7, <2>8 DEF TypeOK
  <2>12. QED
    BY <2>3, <2>7, <2>8, <2>9, <2>10, <2>11 DEF IInv
<1>19. QED
  BY <1>17, <1>18

LEMMA StutterKeeps ==
    ASSUME IInv, UNCHANGED vars PROVE IInv'
<1>1. /\ UNCHANGED <<merged, rows, grants, current, version, outbox, silent, newest>>
      /\ UNCHANGED <<now, request, importer>>
  BY DEF vars, importVars
<1>2. now \in Nat \ {0} /\ now' \in Nat \ {0} /\ now <= now' /\ TypeOK /\ Commanded
  BY <1>1 DEF IInv, TypeOK
<1>3. /\ EventTypes' /\ NoChains' /\ RowsOwned' /\ GrantsNamed' /\ NewestIsLatest' /\ Settled'
      /\ Events' /\ AllowedImportIsPaid' /\ Kept
  BY <1>1, <1>2, CoreKept
<1>4. DOMAIN importer' = Importers /\ Commanded'
  BY <1>1, <1>2, <1>3, CommandedStays
<1>5. TypeOK'
  BY <1>1, <1>2, <1>3, <1>4 DEF TypeOK
<1>6. QED
  BY <1>3, <1>4, <1>5 DEF IInv

LEMMA NextIInv ==
    ASSUME IInv, [Next]_vars PROVE IInv'
<1>1. CASE Tick
  BY <1>1, TickKeeps
<1>2. ASSUME NEW r \in Requests, NEW s \in Snapshots, Query(r, s) PROVE IInv'
  BY <1>2, QueryKeeps
<1>3. ASSUME NEW r \in Requests, Normalize(r) \/ Persist(r) \/ PostCommit(r) \/ Fail(r) PROVE IInv'
  BY <1>3, NormalizeKeeps, PersistKeeps, IdleKeeps
<1>4. ASSUME NEW c \in Customers, NEW s \in Customers, MergeCustomers(c, s) PROVE IInv'
  BY <1>4, MergeKeeps
<1>5. ASSUME NEW i \in Importers, NEW command \in Commands, StartImport(i, command) PROVE IInv'
  BY <1>5, StartImportKeeps
<1>6. ASSUME NEW i \in Importers,
             EnsureImportBatch(i) \/ ApplySubscriber(i) \/ EndImport(i) \/ FailImport(i)
      PROVE  IInv'
  BY <1>6, EnsureKeeps, ApplyKeeps, EndImportKeeps, FailImportKeeps
<1>7. CASE UNCHANGED vars
  BY <1>7, StutterKeeps
<1>8. QED
  BY <1>1, <1>2, <1>3, <1>4, <1>5, <1>6, <1>7 DEF Next

\* The inductive invariant: in every state what is stored has its types and its owners,
\* every projection is settled on its customer's sources, every version has its event, and
\* every import command has stored what it has gone through.
THEOREM Invariance == Spec => []IInv
<1>1. Init => IInv
  BY InitIInv
<1>2. IInv /\ [Next]_vars => IInv'
  BY NextIInv
<1>3. QED
  BY <1>1, <1>2, PTL DEF Spec

--------------------------------------------------------------------------------
(* What follows from the invariant.                                          *)

\* Every version of a projection has exactly one event, except those an import wrote
\* silently: newEntitlementEvent is called for a write and for nothing else.
THEOREM OneEventPerVersion == Spec => []EventPerVersion
<1>1. IInv => EventPerVersion
  <2> SUFFICES ASSUME IInv, NEW c \in Customers, NEW v \in 1..version[c]
               PROVE  Cardinality({e \in outbox : e.customer = c /\ e.version = v})
                          = IF <<c, v>> \in silent THEN 0 ELSE 1
    BY DEF EventPerVersion
  <2> DEFINE E == {e \in outbox : e.customer = c /\ e.version = v}
  <2>1. Events
    BY DEF IInv
  <2>2. CASE <<c, v>> \in silent
    <3>1. E = {}
      BY <2>1, <2>2 DEF Events
    <3>2. QED
      BY <2>2, <3>1, FS_EmptySet
  <2>3. CASE <<c, v>> \notin silent
    <3>1. PICK e \in outbox : e.customer = c /\ e.version = v
      BY <2>1, <2>3 DEF Events
    <3>2. E = {e}
      BY <2>1, <3>1 DEF Events
    <3>3. Cardinality({e}) = 1
      BY FS_Singleton
    <3>4. QED
      BY <2>3, <3>2, <3>3
  <2>4. QED
    BY <2>2, <2>3
<1>2. QED
  BY <1>1, Invariance, PTL

\* The last event of a customer neither promises access a read denies nor denies access a
\* read still shows: it was computed at a moment no later than now.
THEOREM LastEventAgrees == Spec => []EventAgreesWithRead
<1>1. IInv => EventAgreesWithRead
  <2> SUFFICES ASSUME IInv, NEW e \in outbox, e.version = version[e.customer]
               PROVE  /\ e.access = "allowed" => Shows(e.customer, "allowed")
                      /\ AccessAt(current[e.customer], now) = "allowed" => e.access = "allowed"
    BY DEF EventAgreesWithRead
  <2>1. PICK p : p = current[e.customer]
    OBVIOUS
  <2>2. p # NoProjection
    BY <2>1 DEF IInv, Events
  <2>3. PICK t \in 0..now : e.access = AccessAt(p, t)
    BY <2>1 DEF IInv, Events
  <2>4. e.customer \in Customers /\ now \in Nat
    BY DEF IInv, TypeOK, EventTypes
  <2>5. p \in Source
    BY <2>1, <2>2, <2>4 DEF IInv, TypeOK, EventTypes
  <2>6. p.ends \in Nat
    BY <2>5, SourcesTyped DEF Typed
  <2>7. e.access = "allowed" => p.access = "allowed"
    BY <2>3 DEF AccessAt
  <2>8. AccessAt(p, now) = "allowed" => e.access = "allowed"
    BY <2>3, <2>4, <2>6 DEF AccessAt
  <2>9. QED
    BY <2>1, <2>2, <2>7, <2>8 DEF Shows
<1>2. QED
  BY <1>1, Invariance, PTL

\* An imported grant allows access only where its export shows the purchase as begun, not
\* over and not refunded.
THEOREM ImportsArePaid == Spec => []AllowedImportIsPaid
<1>1. IInv => AllowedImportIsPaid
  BY DEF IInv
<1>2. QED
  BY <1>1, Invariance, PTL

\* An import command that exits with 0 has left a grant for everything its file has of
\* subscribers that are not skipped, whatever ran beside it or has run since.
THEOREM SuccessfulImportIsStored == Spec => []ExitZeroMeansImported
<1>1. IInv => ExitZeroMeansImported
  <2> SUFFICES ASSUME IInv, NEW i \in Importers, importer[i].pc = "ended", importer[i].exit = 0,
                      NEW d \in Range(parseExport(Exports[importer[i].export], importer[i].at)),
                      ~(d.id \in importer[i].skipped \cap AnonymousIds)
               PROVE  \A row \in Range(d.rows) : \A e \in row.entitlements :
                          \E h \in mapGrant(row, e, importer[i].at), g \in grants :
                              SameSource(g, h) /\ ResolveCustomer(g.customer) = ResolveCustomer(d.id)
    BY DEF ExitZeroMeansImported
  <2>1. PICK q : q = importer[i]
    OBVIOUS
  <2>2. \/ q \in {Idle, [pc |-> "ended", exit |-> 1], [pc |-> "ended", exit |-> 2]}
        \/ EndedWell(q) \/ Running(q)
    BY <2>1 DEF IInv, Commanded
  <2>3. q.pc = "ended" /\ q.exit = 0
    BY <2>1
  <2>4. EndedWell(q)
    BY <2>2, <2>3 DEF Idle, Running
  <2>5. q.skipped \subseteq AnonymousIds
    BY <2>4 DEF EndedWell
  <2>6. d \in Range(parseExport(Exports[q.export], q.at)) /\ d.id \notin q.skipped
    BY <2>1, <2>5
  <2>7. Imported(d, q.at)
    BY <2>4, <2>6 DEF EndedWell
  <2>8. QED
    BY <2>1, <2>7 DEF Imported, Together
<1>2. QED
  BY <1>1, Invariance, PTL

\* The rows of a purchase lineage belong to the customer behind its owner.
LEMMA OwnRows ==
    ASSUME TypeOK, NoChains, RowsOwned, NEW c \in Customers, Canonical(c), NEW o \in rows
    PROVE  o \in Own(rows, CustomerClosure(c, merged)) <=> ResolveCustomer(Owner[o.lineage]) = c
<1>1. o.customer \in Customers
  BY DEF TypeOK, StoreRow
<1>2. o.customer \in CustomerClosure(c, merged) <=> ResolveCustomer(o.customer) = c
  BY <1>1, ClosureOfBehind DEF TypeOK
<1>3. ResolveCustomer(o.customer) = ResolveCustomer(Owner[o.lineage])
  BY DEF RowsOwned, Together
<1>4. QED
  BY <1>2, <1>3 DEF Own

\* The grants of a customer are those of the customers it is behind.
LEMMA OwnGrants ==
    ASSUME TypeOK, NoChains, NEW c \in Customers, Canonical(c), NEW g \in grants
    PROVE  g \in Own(grants, CustomerClosure(c, merged)) <=> ResolveCustomer(g.customer) = c
<1>1. g.customer \in Customers
  BY DEF TypeOK, ImportRow
<1>2. g.customer \in CustomerClosure(c, merged) <=> ResolveCustomer(g.customer) = c
  BY <1>1, ClosureOfBehind DEF TypeOK
<1>3. QED
  BY <1>2 DEF Own

\* Its tables have the form the sources are made from.
LEMMA OwnTables ==
    ASSUME TypeOK, NEW M
    PROVE  /\ Own(rows, M) \subseteq StoreRow /\ Table(Own(rows, M))
           /\ Own(grants, M) \subseteq ImportRow /\ Table(Own(grants, M))
<1>1. Own(rows, M) \subseteq rows /\ Own(grants, M) \subseteq grants
  BY DEF Own
<1>2. IsFiniteSet(Own(rows, M)) /\ IsFiniteSet(Own(grants, M))
  BY <1>1, FS_Subset DEF TypeOK, Table
<1>3. QED
  BY <1>1, <1>2 DEF TypeOK, Table

\* The store reports a product of a customer exactly when an answer about one of their
\* lineages does.
LEMMA StoreReportsAnswers ==
    ASSUME TypeOK, NoChains, RowsOwned, NewestIsLatest, NEW c \in Customers, Canonical(c), NEW g
    PROVE  StoreReports(g, SourcesOf(c)) <=>
               \E n \in newest : ResolveCustomer(Owner[n.lineage]) = c /\ n.product = g.product
<1> DEFINE M == CustomerClosure(c, merged)
           T == Own(rows, M)
           C == SourcesOf(c)
<1>1. C = FirstRows(T) \cup Hidden(LastGrants(Own(grants, M)))
  BY SourcesSplit DEF SourcesOf
<1>2. T \subseteq StoreRow /\ Table(T) /\ Own(grants, M) \subseteq ImportRow
  BY OwnTables
<1>3. T \subseteq rows
  BY DEF Own
<1>4. ASSUME NEW s \in C, s.kind = "store" PROVE s \in FirstRows(T) /\ s \in T /\ s \in rows
  <2>1. ASSUME NEW h \in Hidden(LastGrants(Own(grants, M))) PROVE h.kind = "import"
    <3>1. PICK k \in LastGrants(Own(grants, M)) : h = [k EXCEPT !.export = NoExport]
      BY <2>1 DEF Hidden
    <3>2. k \in ImportRow
      BY <1>2 DEF LastGrants
    <3>3. k.kind = "import"
      BY <3>2 DEF ImportRow
    <3>4. QED
      BY <3>1, <3>2, <3>3, HiddenExport
  <2>2. s \in FirstRows(T)
    BY <1>1, <1>4, <2>1
  <2>3. QED
    BY <1>3, <2>2 DEF FirstRows
<1>5. ASSUME StoreReports(g, C)
      PROVE  \E n \in newest : ResolveCustomer(Owner[n.lineage]) = c /\ n.product = g.product
  <2>1. PICK s \in C : s.kind = "store" /\ s.product = g.product
    BY <1>5 DEF StoreReports
  <2>2. s \in T /\ s \in rows
    BY <1>4, <2>1
  <2>3. PICK n \in newest : SameSource(s, n)
    BY <2>2 DEF NewestIsLatest
  <2>4. ResolveCustomer(Owner[s.lineage]) = c
    BY <2>2, OwnRows
  <2>5. QED
    BY <2>1, <2>3, <2>4 DEF SameSource
<1>6. ASSUME NEW n \in newest, ResolveCustomer(Owner[n.lineage]) = c, n.product = g.product
      PROVE  StoreReports(g, C)
  <2>1. PICK o \in rows : SameSource(o, n)
    BY <1>6 DEF NewestIsLatest
  <2>2. o \in T
    BY <1>6, <2>1, OwnRows DEF SameSource
  <2>3. PICK p \in FirstRows(T) : SameSource(p, o)
    BY <1>2, <2>2, FirstRowExists
  <2>4. p \in StoreRow
    BY <1>2, <2>3 DEF FirstRows
  <2>5. p \in C /\ p.kind = "store" /\ p.product = g.product
    BY <1>1, <1>6, <2>1, <2>3, <2>4 DEF SameSource, StoreRow
  <2>6. QED
    BY <2>5 DEF StoreReports
<1>7. QED
  BY <1>5, <1>6

\* A customer's settled projection allows access exactly when one of the reported sources
\* does.
LEMMA SettledAllows ==
    ASSUME NEW C, Candidates(C), C \subseteq Source, NEW p \in Source \cup {NoProjection}, SettledOn(p, C)
    PROVE  p # NoProjection /\ p.access = "allowed" <=> \E x \in ReportedSources(C) : x.access = "allowed"
<1>1. ReportedSources(C) \subseteq C
  BY ReportedAreLive
<1>2. ASSUME p # NoProjection, p.access = "allowed"
      PROVE  \E x \in ReportedSources(C) : x.access = "allowed"
  <2>1. PICK mine \in ReportedSources(C) : ProjectionsEqual(p, mine)
    BY <1>2 DEF SettledOn
  <2>2. mine.access = p.access
    BY <1>1, <1>2, <2>1, EqualFields
  <2>3. QED
    BY <1>2, <2>2
<1>3. ASSUME NEW x \in ReportedSources(C), x.access = "allowed"
      PROVE  p # NoProjection /\ p.access = "allowed"
  <2>1. p # NoProjection
    BY <1>3 DEF SettledOn
  <2>2. PICK mine \in ReportedSources(C) : ProjectionsEqual(p, mine) /\ Unbeaten(mine, ReportedSources(C))
    BY <1>3 DEF SettledOn
  <2>3. ~Outranks(x, mine)
    BY <1>3, <2>2 DEF Unbeaten
  <2>4. /\ AccessStrength(x.access) = 3 /\ AccessStrength(mine.access) \in 1..3
        /\ AccessStrength(mine.access) = 3 <=> mine.access = "allowed"
    BY <1>1, <1>3, RanksAreNumbers DEF Candidates
  <2>5. mine.access = "allowed"
    BY <2>3, <2>4 DEF Outranks
  <2>6. mine.access = p.access
    BY <1>1, <2>1, <2>2, EqualFields
  <2>7. QED
    BY <2>1, <2>5, <2>6
<1>4. QED
  BY <1>2, <1>3

\* The store allows a customer exactly when a first row of theirs does.
LEMMA StoreAllowsByRow ==
    ASSUME TypeOK, NoChains, RowsOwned, NewestIsLatest, NEW c \in Customers, Canonical(c)
    PROVE  StoreAllows(c) <=>
               \E x \in FirstRows(Own(rows, CustomerClosure(c, merged))) : x.access = "allowed"
<1> DEFINE T == Own(rows, CustomerClosure(c, merged))
<1>1. T \subseteq StoreRow /\ Table(T) /\ T \subseteq rows
  BY OwnTables DEF Own
<1>2. \A n \in newest : n.at \in Nat
  BY DEF TypeOK
<1>3. ASSUME NEW x \in FirstRows(T), x.access = "allowed" PROVE StoreAllows(c)
  <2>1. x \in T /\ x \in rows /\ x \in StoreRow /\ x.at \in Nat
    BY <1>1 DEF FirstRows, StoreRow
  <2>2. PICK n \in newest : SameSource(x, n) /\ x.at <= n.at
    BY <2>1 DEF NewestIsLatest
  <2>3. PICK o \in rows : SameSource(o, n) /\ o.at = n.at
    BY DEF NewestIsLatest
  <2>4. ResolveCustomer(Owner[x.lineage]) = c
    BY <2>1, OwnRows
  <2>5. o \in T
    BY <2>2, <2>3, <2>4, OwnRows DEF SameSource
  <2>6. x = o \/ RowPrecedes(x, o)
    BY <2>2, <2>3, <2>5 DEF FirstRows, SameSource
  <2>7. x.at = n.at
    BY <1>2, <2>1, <2>2, <2>3, <2>6 DEF RowPrecedes
  <2>8. n.allowed
    BY <1>3, <2>1, <2>2, <2>7 DEF NewestIsLatest
  <2>9. QED
    BY <2>2, <2>4, <2>8 DEF StoreAllows, SameSource
<1>4. ASSUME StoreAllows(c) PROVE \E x \in FirstRows(T) : x.access = "allowed"
  <2>1. PICK n \in newest : n.allowed /\ ResolveCustomer(Owner[n.lineage]) = c
    BY <1>4 DEF StoreAllows
  <2>2. PICK o \in rows : SameSource(o, n) /\ o.at = n.at /\ o.access = "allowed"
    BY <2>1 DEF NewestIsLatest
  <2>3. o \in T
    BY <2>1, <2>2, OwnRows DEF SameSource
  <2>4. PICK x \in FirstRows(T) : SameSource(x, o) /\ (x = o \/ RowPrecedes(x, o))
    BY <1>1, <2>3, FirstRowExists
  <2>5. x \in rows /\ x.at \in Nat
    BY <1>1 DEF FirstRows, StoreRow
  <2>6. PICK m \in newest : SameSource(x, m) /\ x.at <= m.at
    BY <2>5 DEF NewestIsLatest
  <2>7. m = n
    <3>1. SameSource(m, n)
      BY <2>2, <2>4, <2>6 DEF SameSource
    <3>2. QED
      BY <3>1 DEF NewestIsLatest
  <2>8. x.at <= o.at
    BY <2>2, <2>6, <2>7
  <2>9. x.access = "allowed"
    BY <1>2, <2>2, <2>4, <2>5, <2>8 DEF RowPrecedes
  <2>10. QED
    BY <2>9
<1>5. QED
  BY <1>3, <1>4

\* A customer is shown access exactly when the answer stamped last for one of their
\* purchase lineages allows it, or the last import of a purchase no store has answered
\* about: in whatever order requests, merges and imports commit.
THEOREM AccessIsAnswered == Spec => []AccessFollowsAnswers
<1>1. IInv => AccessFollowsAnswers
  <2> SUFFICES ASSUME IInv, NEW c \in Customers, Canonical(c)
               PROVE  Shows(c, "allowed") <=> StoreAllows(c) \/ ImportAllows(c)
    BY DEF AccessFollowsAnswers
  <2> DEFINE M == CustomerClosure(c, merged)
             T == Own(rows, M)
             G == Own(grants, M)
  <2>1. TypeOK /\ NoChains /\ RowsOwned /\ NewestIsLatest /\ Settled
    BY DEF IInv
  <2>2. PICK C : C = SourcesOf(c)
    OBVIOUS
  <2>3. C = FirstRows(T) \cup Hidden(LastGrants(G))
    BY <2>2, SourcesSplit DEF SourcesOf
  <2>4. Candidates(C) /\ C \subseteq Source
    BY <2>1, <2>2, SourcesAreCandidates DEF TypeOK, SourcesOf
  <2>5. PICK p : p = current[c]
    OBVIOUS
  <2>6. p \in Source \cup {NoProjection} /\ SettledOn(p, C)
    BY <2>1, <2>2, <2>5 DEF TypeOK, EventTypes, Settled
  <2>7. Shows(c, "allowed") <=> \E x \in ReportedSources(C) : x.access = "allowed"
    BY <2>4, <2>5, <2>6, SettledAllows DEF Shows
  <2>8. /\ T \subseteq StoreRow /\ Table(T) /\ T \subseteq rows
        /\ G \subseteq ImportRow /\ Table(G) /\ G \subseteq grants
    BY <2>1, OwnTables DEF Own
  <2>9. \A x : x \in ReportedSources(C) <=> x \in C /\ (x.kind = "import" => ~StoreReports(x, C))
    BY <2>4, ReportedAreLive
  <2>10. \A x \in FirstRows(T) : x \in C /\ x.kind = "store"
    BY <2>3, <2>8 DEF FirstRows, StoreRow
  <2>11. \A g \in LastGrants(G) : g \in G /\ g \in ImportRow /\ g \in grants
    BY <2>8 DEF LastGrants
  <2>12. ASSUME NEW x \in ReportedSources(C), x.access = "allowed" PROVE StoreAllows(c) \/ ImportAllows(c)
    <3>1. CASE x \in FirstRows(T)
      BY <2>1, <2>12, <3>1, StoreAllowsByRow
    <3>2. CASE x \in Hidden(LastGrants(G))
      <4>1. PICK g \in LastGrants(G) : x = [g EXCEPT !.export = NoExport]
        BY <3>2 DEF Hidden
      <4>2. g.kind = "import"
        BY <2>11 DEF ImportRow
      <4>3. x.kind = "import" /\ x.product = g.product /\ x.access = g.access
        BY <2>11, <4>1, <4>2, HiddenExport
      <4>4. ~StoreReports(g, SourcesOf(c))
        BY <2>2, <2>9, <4>3 DEF StoreReports
      <4>5. \A n \in newest : ResolveCustomer(Owner[n.lineage]) = c => n.product # g.product
        BY <2>1, <4>4, StoreReportsAnswers
      <4>6. ResolveCustomer(g.customer) = c /\ g \in grants
        BY <2>1, <2>11, OwnGrants
      <4>7. \A h \in grants \ {g} :
                SameSource(g, h) /\ ResolveCustomer(h.customer) = c => SeenLater(g, h)
        BY <2>1, OwnGrants DEF LastGrants
      <4>8. QED
        BY <2>12, <4>3, <4>5, <4>6, <4>7 DEF ImportAllows
    <3>3. QED
      BY <2>3, <2>9, <3>1, <3>2
  <2>13. ASSUME StoreAllows(c) PROVE \E x \in ReportedSources(C) : x.access = "allowed"
    <3>1. PICK x \in FirstRows(T) : x.access = "allowed"
      BY <2>1, <2>13, StoreAllowsByRow
    <3>2. QED
      BY <2>9, <2>10, <3>1
  <2>14. ASSUME ImportAllows(c) PROVE \E x \in ReportedSources(C) : x.access = "allowed"
    <3>1. PICK g \in grants :
              /\ g.access = "allowed" /\ ResolveCustomer(g.customer) = c
              /\ \A h \in grants \ {g} :
                     SameSource(g, h) /\ ResolveCustomer(h.customer) = c => SeenLater(g, h)
              /\ \A n \in newest : ResolveCustomer(Owner[n.lineage]) = c => n.product # g.product
      BY <2>14 DEF ImportAllows
    <3>2. g \in G
      BY <2>1, <3>1, OwnGrants
    <3>3. g \in LastGrants(G)
      <4>1. ASSUME NEW h \in G \ {g}, SameSource(g, h) PROVE SeenLater(g, h)
        BY <2>1, <2>8, <3>1, <4>1, OwnGrants
      <4>2. QED
        BY <3>2, <4>1 DEF LastGrants
    <3>4. PICK x : x = [g EXCEPT !.export = NoExport]
      OBVIOUS
    <3>5. x \in C
      BY <2>3, <3>3, <3>4 DEF Hidden
    <3>6. x.product = g.product /\ x.access = g.access
      BY <2>8, <3>2, <3>4, HiddenExport
    <3>7. ~StoreReports(x, SourcesOf(c))
      BY <2>1, <3>1, <3>6, StoreReportsAnswers
    <3>8. QED
      BY <2>2, <2>9, <3>1, <3>5, <3>6, <3>7
  <2>15. QED
    BY <2>7, <2>12, <2>13, <2>14
<1>2. QED
  BY <1>1, Invariance, PTL

--------------------------------------------------------------------------------
(* What changes nothing.                                                     *)

\* A refresh from sources that differ from the stored ones only in when they were seen
\* leaves projection, version and outbox alone.
LEMMA SeenAgainIdle ==
    ASSUME IInv, NEW c \in Customers, Canonical(c), NEW at, NEW webhooks, NEW M,
           M = CustomerClosure(c, merged),
           rows' \subseteq StoreRow, Table(rows'), grants' \subseteq ImportRow, Table(grants'),
           SeenAgain(FirstRows(Own(rows, M)), FirstRows(Own(rows', M))),
           SeenAgain(FirstRows(Own(rows', M)), FirstRows(Own(rows, M))),
           SeenAgain(Hidden(LastGrants(Own(grants, M))), Hidden(LastGrants(Own(grants', M)))),
           SeenAgain(Hidden(LastGrants(Own(grants', M))), Hidden(LastGrants(Own(grants, M)))),
           Refresh(c, rows', grants', merged, at, webhooks)
    PROVE  UNCHANGED <<current, version, outbox, silent>>
<1>1. PICK C : C = CustomerEntitlementSources(M, rows, grants)
  OBVIOUS
<1>2. PICK D : D = CustomerEntitlementSources(M, rows', grants')
  OBVIOUS
<1>3. /\ rows \subseteq StoreRow /\ Table(rows) /\ grants \subseteq ImportRow /\ Table(grants)
      /\ current \in [Customers -> Source \cup {NoProjection}]
  BY DEF IInv, TypeOK, EventTypes
<1>4. Candidates(C) /\ C \subseteq Source
  BY <1>1, <1>3, SourcesAreCandidates
<1>5. Candidates(D) /\ D \subseteq Source
  BY <1>2, SourcesAreCandidates
<1>6. /\ C = FirstRows(Own(rows, M)) \cup Hidden(LastGrants(Own(grants, M)))
      /\ D = FirstRows(Own(rows', M)) \cup Hidden(LastGrants(Own(grants', M)))
  BY <1>1, <1>2, SourcesSplit
<1>7. SeenAgain(C, D) /\ SeenAgain(D, C)
  BY <1>6 DEF SeenAgain
<1>8. PICK p : p = current[c]
  OBVIOUS
<1>9. p \in Source \cup {NoProjection} /\ SettledOn(p, C)
  BY <1>1, <1>3, <1>8 DEF IInv, Settled, SourcesOf
<1>10. SettledOn(p, D)
  BY <1>4, <1>5, <1>7, <1>9, SettledAnyway
<1>11. D = CustomerEntitlementSources(CustomerClosure(c, merged), rows', grants')
  BY <1>2
<1>12. SettledOn(current[c], D)
  BY <1>8, <1>10
<1>13. QED
  BY <1>3, <1>5, <1>11, <1>12, RefreshIdle

LEMMA SeenItself == \A C : SeenAgain(C, C)
BY DEF SeenAgain, ProjectionsEqual

\* A row replaced by one seen later stays the first of its purchase if no other row of its
\* lineage was seen as late; nothing else of its table is touched.
LEMMA FirstRowsMoved ==
    ASSUME NEW T, NEW U, T \subseteq StoreRow, U \subseteq StoreRow, NEW o \in T, NEW row \in U,
           o.at <= row.at, SameSource(o, row), \A p \in T : SameSource(p, o) => p.at < o.at \/ p = o,
           o # row => o \notin U, U = (T \ {o}) \cup {row},
           NEW x \in FirstRows(T)
    PROVE  IF x = o THEN row \in FirstRows(U) ELSE x \in FirstRows(U)
<1>1. \A p \in T \cup U : p.at \in Nat
  BY DEF StoreRow
<1>2. CASE x = o
  <2>1. ASSUME NEW p \in U \ {row}, SameSource(row, p) PROVE RowPrecedes(row, p)
    <3>1. p \in T /\ p # o /\ SameSource(p, o)
      BY <2>1 DEF SameSource
    <3>2. p.at < o.at
      BY <3>1
    <3>3. QED
      BY <1>1, <3>1, <3>2 DEF RowPrecedes
  <2>2. QED
    BY <1>2, <2>1 DEF FirstRows
<1>3. CASE x # o
  <2>1. x \in T /\ x \in U
    BY <1>3 DEF FirstRows
  <2>2. ~SameSource(x, o)
    <3>1. ASSUME SameSource(x, o) PROVE FALSE
      <4>1. x.at < o.at
        BY <1>3, <2>1, <3>1
      <4>2. RowPrecedes(x, o)
        BY <1>3, <3>1 DEF FirstRows
      <4>3. QED
        BY <1>1, <2>1, <4>1, <4>2 DEF RowPrecedes
    <3>2. QED
      BY <3>1
  <2>3. ASSUME NEW p \in U \ {x}, SameSource(x, p) PROVE RowPrecedes(x, p)
    <3>1. p # row
      BY <2>2, <2>3 DEF SameSource
    <3>2. QED
      BY <2>3, <3>1 DEF FirstRows
  <2>4. QED
    BY <1>3, <2>1, <2>3 DEF FirstRows
<1>4. QED
  BY <1>2, <1>3

LEMMA DuplicateIdle ==
    ASSUME IInv, NEW r \in Requests, Persist(r), CommitsDuplicate(r)
    PROVE  UNCHANGED <<current, version, outbox>>
<1>1. TypeOK /\ NoChains /\ RowsOwned
  BY DEF IInv
<1>2. PICK s : s = request[r].snapshot
  OBVIOUS
<1>3. PICK at : at = request[r].at
  OBVIOUS
<1>4. PICK c : c = ResolveCustomer(Owner[s.lineage])
  OBVIOUS
<1>5. /\ s \in Snapshots /\ at \in Nat /\ c \in Customers /\ Canonical(c)
      /\ \E row : rows' = {o \in rows : o.id # s.id} \cup {row} /\ Replaced(s, at, row)
  BY <1>1, <1>2, <1>3, <1>4, PersistSaves
<1>6. PICK row : rows' = {o \in rows : o.id # s.id} \cup {row} /\ Replaced(s, at, row)
  BY <1>5
<1>7. PICK o \in rows : o.id = s.id /\ \A p \in rows : p.lineage = o.lineage => p.at < o.at \/ p = o
  BY <1>2 DEF CommitsDuplicate
<1>8. UNCHANGED <<merged, grants>>
  BY DEF Persist
<1>9. rows' \subseteq StoreRow /\ Table(rows')
  BY <1>1, <1>5, <1>6, <1>8, SavedRows
<1>10. PICK M : M = CustomerClosure(c, merged)
  OBVIOUS
<1>11. row \in Own(rows', M)
  BY <1>1, <1>4, <1>5, <1>6, <1>8, <1>10, SavedFor
<1>12. /\ o.at <= row.at /\ SameSource(o, row) /\ ProjectionsEqual(o, row) /\ row \in StoreRow
       /\ o \in StoreRow /\ row.id = s.id /\ o.at \in Nat /\ row.at \in Nat
  BY <1>1, <1>6, <1>7 DEF Replaced, TypeOK, StoreRow
<1>13. o.customer = row.customer
  BY <1>12, EqualFields DEF Source
<1> DEFINE T == Own(rows, M)
           U == Own(rows', M)
<1>14. o \in T /\ row \in U /\ row.customer \in M
  BY <1>7, <1>11, <1>13 DEF Own
<1>15. \A p \in rows : p.id = s.id <=> p = o
  BY <1>1, <1>7 DEF TypeOK, Table
<1>16. U = (T \ {o}) \cup {row}
  BY <1>6, <1>14, <1>15 DEF Own
<1>17. \A p \in rows : SameSource(p, o) => p.at < o.at \/ p = o
  BY <1>7 DEF SameSource
<1>18. T \subseteq StoreRow /\ U \subseteq StoreRow /\ T \subseteq rows
  BY <1>1, <1>9 DEF Own, TypeOK
<1>19. o # row => o \notin U
  BY <1>16
<1>20. SeenAgain(FirstRows(T), FirstRows(U))
  <2> HIDE DEF T, U
  <2> SUFFICES ASSUME NEW x \in FirstRows(T) PROVE \E d \in FirstRows(U) : ProjectionsEqual(x, d)
    BY DEF SeenAgain
  <2>1. IF x = o THEN row \in FirstRows(U) ELSE x \in FirstRows(U)
    BY <1>12, <1>14, <1>16, <1>17, <1>18, <1>19, FirstRowsMoved
  <2>2. QED
    BY <1>12, <2>1 DEF ProjectionsEqual
<1>21. SeenAgain(FirstRows(U), FirstRows(T))
  <2> HIDE DEF T, U
  <2> SUFFICES ASSUME NEW x \in FirstRows(U) PROVE \E d \in FirstRows(T) : ProjectionsEqual(x, d)
    BY DEF SeenAgain
  <2>1. CASE x = row
    <3>1. ASSUME NEW p \in T \ {o}, SameSource(o, p) PROVE RowPrecedes(o, p)
      <4>1. p.at < o.at /\ p.at \in Nat
        BY <1>17, <1>18, <3>1 DEF SameSource, StoreRow
      <4>2. QED
        BY <1>12, <4>1 DEF RowPrecedes
    <3>2. o \in FirstRows(T)
      BY <1>14, <3>1 DEF FirstRows
    <3>3. ProjectionsEqual(row, o)
      BY <1>12 DEF ProjectionsEqual
    <3>4. QED
      BY <2>1, <3>2, <3>3
  <2>2. CASE x # row
    <3>1. x \in U /\ x \in T /\ x # o /\ x \in StoreRow
      BY <1>16, <1>18, <2>2 DEF FirstRows
    <3>2. ~SameSource(x, o)
      <4>1. ASSUME SameSource(x, o) PROVE FALSE
        <5>1. x.at < o.at /\ x.at \in Nat
          BY <1>17, <1>18, <3>1, <4>1 DEF StoreRow
        <5>2. SameSource(x, row)
          BY <1>12, <4>1 DEF SameSource
        <5>3. RowPrecedes(x, row)
          BY <1>14, <2>2, <5>2 DEF FirstRows
        <5>4. QED
          BY <1>12, <5>1, <5>3 DEF RowPrecedes
      <4>2. QED
        BY <4>1
    <3>3. ASSUME NEW p \in T \ {x}, SameSource(x, p) PROVE RowPrecedes(x, p)
      <4>1. p # o
        BY <3>2, <3>3
      <4>2. p \in U \ {x}
        BY <1>16, <3>3, <4>1
      <4>3. QED
        BY <3>3, <4>2 DEF FirstRows
    <3>4. x \in FirstRows(T)
      BY <3>1, <3>3 DEF FirstRows
    <3>5. QED
      BY <3>4 DEF ProjectionsEqual
  <2>3. QED
    BY <2>1, <2>2
<1>22. Refresh(c, rows', grants', merged, at, TRUE)
  BY <1>2, <1>3, <1>4, <1>8 DEF Persist
<1>23. /\ SeenAgain(Hidden(LastGrants(Own(grants, M))), Hidden(LastGrants(Own(grants', M))))
       /\ SeenAgain(Hidden(LastGrants(Own(grants', M))), Hidden(LastGrants(Own(grants, M))))
  BY <1>8, SeenItself
<1>24. grants' \subseteq ImportRow /\ Table(grants')
  BY <1>1, <1>8 DEF TypeOK
<1>25. UNCHANGED <<current, version, outbox, silent>>
  BY <1>5, <1>9, <1>10, <1>20, <1>21, <1>22, <1>23, <1>24, SeenAgainIdle
<1>26. QED
  BY <1>25

\* A verification that repeats the answer stored last for its lineage changes no
\* projection and emits no event, whatever was committed since it was asked.
THEOREM DuplicatesAreIdle == Spec => DuplicateChangesNothing
<1>1. ASSUME IInv, [Next]_vars
      PROVE  [\A r \in Requests : CommitsDuplicate(r) => UNCHANGED <<current, version, outbox>>]_vars
  <2> SUFFICES ASSUME Next, NEW r \in Requests, CommitsDuplicate(r)
               PROVE  UNCHANGED <<current, version, outbox>>
    BY <1>1
  <2>1. request \in [Requests -> {Idle} \cup [pc : {"queried", "normalized", "committed"},
                                 snapshot : Snapshots, customer : Customers, at : 0..now]]
    BY <1>1 DEF IInv, TypeOK
  <2>2. request[r].pc = "normalized" /\ request'[r].pc = "committed"
    BY DEF CommitsDuplicate
  <2>3. request'[r].pc # request[r].pc
    BY <2>2
  <2>4. request # request'
    BY <2>3
  <2>5. ASSUME NEW n \in Requests, Persist(n) PROVE n = r
    BY <2>1, <2>3, <2>5 DEF Persist
  <2>6. CASE \E n \in Requests : Persist(n)
    BY <1>1, <2>5, <2>6, DuplicateIdle
  <2>7. CASE ~\E n \in Requests : Persist(n)
    <3>1. \/ Tick \/ \E n \in Requests, s \in Snapshots : Query(n, s)
          \/ \E n \in Requests : Normalize(n) \/ PostCommit(n) \/ Fail(n)
          \/ \E c, s \in Customers : MergeCustomers(c, s)
          \/ \E i \in Importers : \/ \E command \in Commands : StartImport(i, command)
                                  \/ EnsureImportBatch(i) \/ ApplySubscriber(i) \/ EndImport(i) \/ FailImport(i)
      BY <2>7 DEF Next
    <3>2. CASE \E c, s \in Customers : MergeCustomers(c, s)
      BY <2>4, <3>2 DEF MergeCustomers
    <3>3. CASE \E i \in Importers : ApplySubscriber(i)
      BY <2>4, <3>3 DEF ApplySubscriber
    <3>4. QED
      BY <3>1, <3>2, <3>3 DEF Tick, Query, Normalize, PostCommit, Fail, StartImport, EnsureImportBatch,
         EndImport, FailImport
  <2>8. QED
    BY <2>6, <2>7
<1>2. QED
  BY <1>1, Invariance, PTL DEF Spec, DuplicateChangesNothing

\* Two grants that say the same are one projection, whichever import wrote them and
\* whenever they were seen.
LEMMA HiddenEqual ==
    ASSUME NEW g \in ImportRow, NEW h \in ImportRow, SameSource(g, h), SameDecision(g, h),
           g.id = h.id, g.customer = h.customer
    PROVE  ProjectionsEqual([g EXCEPT !.export = NoExport], [h EXCEPT !.export = NoExport])
<1>1. ASSUME NEW x \in ImportRow
      PROVE  [[x EXCEPT !.export = NoExport] EXCEPT !.at = 0]
                 = [kind |-> "import", product |-> x.product, lineage |-> x.lineage, access |-> x.access,
                    reason |-> x.reason, starts |-> x.starts, ends |-> x.ends, at |-> 0, id |-> x.id,
                    customer |-> x.customer, export |-> NoExport]
  <2>1. PICK y : y = [x EXCEPT !.export = NoExport]
    OBVIOUS
  <2>2. y = [kind |-> "import", product |-> x.product, lineage |-> x.lineage, access |-> x.access,
             reason |-> x.reason, starts |-> x.starts, ends |-> x.ends, at |-> x.at, id |-> x.id,
             customer |-> x.customer, export |-> NoExport]
    BY <1>1, <2>1 DEF ImportRow
  <2>3. [y EXCEPT !.at = 0]
             = [kind |-> "import", product |-> x.product, lineage |-> x.lineage, access |-> x.access,
                reason |-> x.reason, starts |-> x.starts, ends |-> x.ends, at |-> 0, id |-> x.id,
                customer |-> x.customer, export |-> NoExport]
    BY <2>2
  <2>4. QED
    BY <2>1, <2>3
<1>2. /\ g.product = h.product /\ g.lineage = h.lineage /\ g.access = h.access
      /\ g.reason = h.reason /\ g.starts = h.starts /\ g.ends = h.ends
  BY DEF SameSource, SameDecision
<1>3. QED
  BY <1>1, <1>2 DEF ProjectionsEqual

\* Every grant to be written is stored, under the same customer and with the same decision,
\* and the purchase is stored once among the customers M.
StoredAlike(G, c, M) ==
    \A g \in G : \E h \in Own(grants, M) :
        /\ SameSource(h, g) /\ SameDecision(h, g) /\ h.customer = c
        /\ \A x \in Own(grants, M) : SameSource(x, g) => x = h

\* Writing grants that are stored alike replaces each by one that differs in export and
\* sighting.
LEMMA UpsertedAlike ==
    ASSUME TypeOK, GrantsNamed, NEW q, NEW c, NEW G, NEW written, Upserts(q, c, G, written),
           NEW M, c \in M, StoredAlike(G, c, M)
    PROVE  /\ SeenAgain(Hidden(LastGrants(Own(grants, M))), Hidden(LastGrants(Own(grants', M))))
           /\ SeenAgain(Hidden(LastGrants(Own(grants', M))), Hidden(LastGrants(Own(grants, M))))
<1>0. /\ c \in Customers /\ q.export \in {k.export : k \in Commands}
      /\ \A g \in G : MadeGrant(g)
      /\ \A g, h \in G : SameSource(g, h) => g = h
      /\ written = {importGrantRecord(q, c, g) : g \in G}
      /\ grants' = {g \in grants : \A h \in written : h.id # g.id} \cup written
  BY DEF Upserts, UpsertImportGrants
<1>1. /\ grants' \subseteq ImportRow
      /\ \A w \in grants' : w \in grants \/ \E g \in G : w = importGrantRecord(q, c, g)
  BY Upserted
<1>2. ASSUME NEW g \in G
      PROVE  LET w == importGrantRecord(q, c, g)
             IN  /\ w \in Own(grants', M) /\ w \in written /\ w.id = GrantID(c, g) /\ w.customer = c
                 /\ SameSource(w, g) /\ SameDecision(w, g) /\ w \in ImportRow
  <2> DEFINE w == importGrantRecord(q, c, g)
  <2>1. w = [kind |-> "import", product |-> g.product, lineage |-> g.lineage, access |-> g.access,
             reason |-> g.reason, starts |-> g.starts, ends |-> g.ends, at |-> g.at,
             id |-> GrantID(c, g), customer |-> c, export |-> q.export]
    BY DEF importGrantRecord
  <2>2. w \in written /\ w \in grants'
    BY <1>0, <1>2
  <2> HIDE DEF w
  <2>3. w.id = GrantID(c, g) /\ w.customer = c /\ SameSource(w, g) /\ SameDecision(w, g)
    BY <2>1 DEF SameSource, SameDecision
  <2>4. w \in Own(grants', M) /\ w \in ImportRow
    BY <1>1, <2>2, <2>3 DEF Own
  <2>5. QED
    BY <2>2, <2>3, <2>4 DEF w
<1>3. ASSUME NEW g \in G, NEW h \in Own(grants, M), SameSource(h, g), SameDecision(h, g), h.customer = c,
             NEW w, w = importGrantRecord(q, c, g)
      PROVE  /\ h \in ImportRow /\ h.id = w.id
             /\ ProjectionsEqual([h EXCEPT !.export = NoExport], [w EXCEPT !.export = NoExport])
             /\ ProjectionsEqual([w EXCEPT !.export = NoExport], [h EXCEPT !.export = NoExport])
  <2>1. h \in grants /\ h \in ImportRow /\ h.id = GrantID(c, h)
    BY <1>3 DEF Own, TypeOK, GrantsNamed
  <2>2. GrantID(c, h) = GrantID(c, g)
    BY <1>3 DEF GrantID, SameSource
  <2>3. /\ w.id = GrantID(c, g) /\ w.customer = c /\ SameSource(w, g) /\ SameDecision(w, g) /\ w \in ImportRow
    BY <1>2, <1>3
  <2>4. /\ SameSource(h, w) /\ SameDecision(h, w) /\ SameSource(w, h) /\ SameDecision(w, h)
        /\ h.id = w.id /\ h.customer = w.customer
    BY <1>3, <2>1, <2>2, <2>3 DEF SameSource, SameDecision
  <2>5. QED
    BY <2>1, <2>3, <2>4, HiddenEqual
<1>4. ASSUME NEW x \in Own(grants', M), NEW g \in G, SameSource(x, g) PROVE x = importGrantRecord(q, c, g)
  <2>1. CASE x \in written
    <3>1. PICK k \in G : x = importGrantRecord(q, c, k)
      BY <1>0, <2>1
    <3>2. SameSource(x, k)
      BY <1>2, <3>1
    <3>3. SameSource(k, g)
      BY <1>4, <3>2 DEF SameSource
    <3>4. k = g
      BY <1>0, <3>3
    <3>5. QED
      BY <3>1, <3>4
  <2>2. CASE x \notin written
    <3>1. x \in grants /\ x \in Own(grants, M) /\ \A h \in written : h.id # x.id
      BY <1>0, <1>4, <2>2 DEF Own
    <3>2. PICK h \in Own(grants, M) : /\ SameSource(h, g) /\ SameDecision(h, g) /\ h.customer = c
                                      /\ \A y \in Own(grants, M) : SameSource(y, g) => y = h
      BY DEF StoredAlike
    <3>3. x = h
      BY <1>4, <3>1, <3>2
    <3>4. PICK w : w = importGrantRecord(q, c, g)
      OBVIOUS
    <3>5. x.id = w.id
      BY <1>3, <3>2, <3>3, <3>4
    <3>6. w \in written
      BY <1>2, <3>4
    <3>7. QED
      BY <3>1, <3>5, <3>6
  <2>3. QED
    BY <2>1, <2>2
<1>5. ASSUME NEW g \in G PROVE importGrantRecord(q, c, g) \in LastGrants(Own(grants', M))
  <2>1. PICK w : w = importGrantRecord(q, c, g)
    OBVIOUS
  <2>2. w \in Own(grants', M) /\ SameSource(w, g)
    BY <1>2, <2>1
  <2>3. \A x \in Own(grants', M) \ {w} : ~SameSource(w, x)
    BY <1>4, <2>1, <2>2 DEF SameSource
  <2>4. w \in LastGrants(Own(grants', M))
    BY <2>2, <2>3 DEF LastGrants
  <2>5. QED
    BY <2>1, <2>4
<1>6. ASSUME NEW x, \A g \in G : ~SameSource(x, g)
      PROVE  x \in Own(grants, M) <=> x \in Own(grants', M)
  <2>1. x \notin written
    <3>1. \A g \in G : SameSource(importGrantRecord(q, c, g), g)
      BY <1>2
    <3>2. QED
      BY <1>0, <1>6, <3>1
  <2>2. ASSUME x \in grants, NEW h \in written, h.id = x.id PROVE FALSE
    <3>1. PICK g \in G : h = importGrantRecord(q, c, g)
      BY <1>0
    <3>2. GrantID(c, g) = GrantID(x.customer, x) /\ MadeGrant(g)
      BY <1>0, <1>2, <2>2, <3>1 DEF GrantsNamed
    <3>3. /\ x.customer \in Customers /\ x.product \in MappedProducts /\ x.lineage \in Nat
      BY <2>2 DEF TypeOK, ImportRow
    <3>4. SameSource(g, x)
      BY <1>0, <3>2, <3>3, GrantIDNames DEF MadeGrant
    <3>5. SameSource(x, g)
      BY <3>4 DEF SameSource
    <3>6. QED
      BY <1>6, <3>5
  <2>3. QED
    BY <1>0, <2>1, <2>2 DEF Own
<1>7. ASSUME NEW x, \A g \in G : ~SameSource(x, g)
      PROVE  x \in LastGrants(Own(grants, M)) <=> x \in LastGrants(Own(grants', M))
  <2>1. \A y : SameSource(x, y) => (y \in Own(grants, M) <=> y \in Own(grants', M))
    <3> SUFFICES ASSUME NEW y, SameSource(x, y) PROVE y \in Own(grants, M) <=> y \in Own(grants', M)
      OBVIOUS
    <3>1. \A g \in G : ~SameSource(y, g)
      BY <1>7 DEF SameSource
    <3>2. QED
      BY <1>6, <3>1
  <2>2. x \in Own(grants, M) <=> x \in Own(grants', M)
    BY <1>6, <1>7
  <2>3. QED
    BY <2>1, <2>2 DEF LastGrants
<1>8. SeenAgain(Hidden(LastGrants(Own(grants, M))), Hidden(LastGrants(Own(grants', M))))
  <2> SUFFICES ASSUME NEW x \in LastGrants(Own(grants, M))
               PROVE  \E y \in LastGrants(Own(grants', M)) :
                          ProjectionsEqual([x EXCEPT !.export = NoExport], [y EXCEPT !.export = NoExport])
    BY DEF SeenAgain, Hidden
  <2>1. CASE \E g \in G : SameSource(x, g)
    <3>1. PICK g \in G : SameSource(x, g)
      BY <2>1
    <3>2. x \in Own(grants, M)
      BY DEF LastGrants
    <3>3. SameDecision(x, g) /\ x.customer = c
      BY <3>1, <3>2 DEF StoredAlike
    <3>4. PICK w : w = importGrantRecord(q, c, g)
      OBVIOUS
    <3>5. ProjectionsEqual([x EXCEPT !.export = NoExport], [w EXCEPT !.export = NoExport])
      BY <1>3, <3>1, <3>2, <3>3, <3>4
    <3>6. QED
      BY <1>5, <3>4, <3>5
  <2>2. CASE \A g \in G : ~SameSource(x, g)
    <3>1. x \in LastGrants(Own(grants', M))
      BY <1>7, <2>2
    <3>2. QED
      BY <3>1 DEF ProjectionsEqual
  <2>3. QED
    BY <2>1, <2>2
<1>9. SeenAgain(Hidden(LastGrants(Own(grants', M))), Hidden(LastGrants(Own(grants, M))))
  <2> SUFFICES ASSUME NEW x \in LastGrants(Own(grants', M))
               PROVE  \E y \in LastGrants(Own(grants, M)) :
                          ProjectionsEqual([x EXCEPT !.export = NoExport], [y EXCEPT !.export = NoExport])
    BY DEF SeenAgain, Hidden
  <2>1. CASE \E g \in G : SameSource(x, g)
    <3>1. PICK g \in G : SameSource(x, g)
      BY <2>1
    <3>2. x \in Own(grants', M)
      BY DEF LastGrants
    <3>3. x = importGrantRecord(q, c, g)
      BY <1>4, <3>1, <3>2
    <3>4. PICK h \in Own(grants, M) : /\ SameSource(h, g) /\ SameDecision(h, g) /\ h.customer = c
                                      /\ \A y \in Own(grants, M) : SameSource(y, g) => y = h
      BY DEF StoredAlike
    <3>5. ProjectionsEqual([x EXCEPT !.export = NoExport], [h EXCEPT !.export = NoExport])
      BY <1>3, <3>3, <3>4
    <3>6. \A y \in Own(grants, M) \ {h} : ~SameSource(h, y)
      BY <3>4 DEF SameSource
    <3>7. h \in LastGrants(Own(grants, M))
      BY <3>6 DEF LastGrants
    <3>8. QED
      BY <3>5, <3>7
  <2>2. CASE \A g \in G : ~SameSource(x, g)
    <3>1. x \in LastGrants(Own(grants, M))
      BY <1>7, <2>2
    <3>2. QED
      BY <3>1 DEF ProjectionsEqual
  <2>3. QED
    BY <2>1, <2>2
<1>10. QED
  BY <1>8, <1>9

LEMMA RepeatedIdle ==
    ASSUME IInv, NEW i \in Importers, ApplySubscriber(i), AppliesRepeated(i)
    PROVE  UNCHANGED <<current, version, outbox>>
<1>1. TypeOK /\ NoChains /\ GrantsNamed /\ Commanded /\ now \in Nat
  BY DEF IInv, TypeOK
<1>2. PICK q : q = importer[i]
  OBVIOUS
<1>3. Running(q) /\ q.todo # {} /\ Fields(q)
  BY <1>1, <1>2, RunningImporter, RunningFields DEF ApplySubscriber
<1>0. PICK sk \in {command.skipAnonymous : command \in Commands} :
          \E drafts, k : Coming(q, Plan(Exports[q.export], sk, q.at), drafts, k)
  BY <1>1, <1>3, RunningComes
<1>4. PICK drafts, k : Coming(q, Plan(Exports[q.export], sk, q.at), drafts, k)
  BY <1>0
<1>5. PICK plan : plan = Plan(Exports[q.export], sk, q.at)
  OBVIOUS
<1>6. Coming(q, plan, drafts, k)
  BY <1>4, <1>5
<1>7. PICK s : s = plan[k]
  OBVIOUS
<1>8. PICK c : c = importCustomer(s)
  OBVIOUS
<1>9. NextSubscriber(q.todo)[2] = s
  BY <1>6, <1>7 DEF Coming
<1>10. /\ s.id \in Customers /\ c \in Customers /\ Canonical(c) /\ c = ResolveCustomer(s.id)
       /\ IsFiniteSet(s.grants) /\ \A g \in s.grants : MadeGrant(g)
       /\ \A g, h \in s.grants : SameSource(g, h) => g = h
  BY <1>1, <1>3, <1>6, <1>7, <1>8, SubscriberApplies
<1>11. \A g \in s.grants :
           LET stored == {h \in grants : SameSource(g, h) /\ ResolveCustomer(h.customer) = c}
           IN  stored # {} /\ \A h \in stored : h.customer = c /\ SameDecision(g, h)
  BY <1>2, <1>9, <1>10 DEF AppliesRepeated
<1> DEFINE refused == \E a \in s.aliases : AliasRefused(c, a)
<1>12. CASE refused
  BY <1>2, <1>8, <1>9, <1>12 DEF ApplySubscriber
<1>13. CASE ~refused
  <2>1. /\ grants' = UpsertImportGrants(grants, {importGrantRecord(q, c, g) : g \in s.grants})
        /\ Refresh(c, rows, grants', merged, q.at, q.webhooks)
    BY <1>2, <1>8, <1>9, <1>13 DEF ApplySubscriber
  <2>2. UNCHANGED <<rows, merged>>
    BY DEF ApplySubscriber
  <2>3. PICK G : G = s.grants
    OBVIOUS
  <2>4. PICK written : written = {importGrantRecord(q, c, g) : g \in G}
    OBVIOUS
  <2>5. q.export \in {x.export : x \in Commands}
    BY <1>3 DEF Fields
  <2>6. Upserts(q, c, G, written)
    BY <1>10, <2>1, <2>3, <2>4, <2>5 DEF Upserts
  <2>7. PICK M : M = CustomerClosure(c, merged)
    OBVIOUS
  <2>8. c \in M
    BY <1>10, <2>7 DEF CustomerClosure
  <2>9. StoredAlike(G, c, M)
    <3> SUFFICES ASSUME NEW g \in G
                 PROVE  \E h \in Own(grants, M) :
                            /\ SameSource(h, g) /\ SameDecision(h, g) /\ h.customer = c
                            /\ \A x \in Own(grants, M) : SameSource(x, g) => x = h
      BY DEF StoredAlike
    <3>1. PICK h \in grants : SameSource(g, h) /\ ResolveCustomer(h.customer) = c
      BY <1>11, <2>3
    <3>2. ASSUME NEW x \in Own(grants, M), SameSource(x, g)
          PROVE  x \in grants /\ x.customer = c /\ SameDecision(g, x) /\ SameSource(g, x)
      <4>1. x \in grants
        BY <3>2 DEF Own
      <4>2. ResolveCustomer(x.customer) = c
        BY <1>1, <1>10, <2>7, <3>2, <4>1, OwnGrants
      <4>3. SameSource(g, x)
        BY <3>2 DEF SameSource
      <4>4. QED
        BY <1>11, <2>3, <4>1, <4>2, <4>3
    <3>3. h \in Own(grants, M) /\ SameSource(h, g)
      BY <1>1, <1>10, <2>7, <3>1, OwnGrants DEF SameSource
    <3>4. h.customer = c /\ SameDecision(h, g)
      BY <3>2, <3>3 DEF SameDecision
    <3>5. ASSUME NEW x \in Own(grants, M), SameSource(x, g) PROVE x = h
      <4>1. x \in grants /\ x.customer = c /\ SameSource(g, x)
        BY <3>2, <3>5
      <4>2. x.id = GrantID(c, x) /\ h.id = GrantID(c, h)
        BY <1>1, <3>4, <4>1 DEF GrantsNamed
      <4>3. GrantID(c, x) = GrantID(c, h)
        BY <3>1, <4>1 DEF GrantID, SameSource
      <4>4. x.id = h.id
        BY <4>2, <4>3
      <4>5. QED
        BY <1>1, <4>1, <4>4 DEF TypeOK, Table
    <3>6. QED
      BY <3>3, <3>4, <3>5
  <2>10. /\ SeenAgain(Hidden(LastGrants(Own(grants, M))), Hidden(LastGrants(Own(grants', M))))
         /\ SeenAgain(Hidden(LastGrants(Own(grants', M))), Hidden(LastGrants(Own(grants, M))))
    BY <1>1, <2>6, <2>8, <2>9, UpsertedAlike
  <2>11. grants' \subseteq ImportRow /\ Table(grants')
    BY <1>1, <2>6, Upserted
  <2>12. /\ SeenAgain(FirstRows(Own(rows, M)), FirstRows(Own(rows', M)))
         /\ SeenAgain(FirstRows(Own(rows', M)), FirstRows(Own(rows, M)))
    BY <2>2, SeenItself
  <2>13. rows' \subseteq StoreRow /\ Table(rows')
    BY <1>1, <2>2 DEF TypeOK
  <2>14. PICK at : at = q.at
    OBVIOUS
  <2>15. PICK webhooks : webhooks = q.webhooks
    OBVIOUS
  <2>16. Refresh(c, rows', grants', merged, at, webhooks)
    BY <2>1, <2>2, <2>14, <2>15
  <2>17. UNCHANGED <<current, version, outbox, silent>>
    BY <1>10, <2>7, <2>10, <2>11, <2>12, <2>13, <2>16, SeenAgainIdle
  <2>18. QED
    BY <2>17
<1>14. QED
  BY <1>12, <1>13

\* Importing again what is stored under the customer with the same decision changes no
\* projection and emits no event, whatever export and batch it comes from and whatever
\* requests, merges and other imports did in between.
THEOREM RepeatsAreIdle == Spec => RepeatedImportChangesNothing
<1>1. ASSUME IInv, [Next]_vars
      PROVE  [\A i \in Importers : AppliesRepeated(i) => UNCHANGED <<current, version, outbox>>]_vars
  <2> SUFFICES ASSUME Next, NEW i \in Importers, AppliesRepeated(i)
               PROVE  UNCHANGED <<current, version, outbox>>
    BY <1>1
  <2>1. DOMAIN importer = Importers
    BY <1>1 DEF IInv, TypeOK
  <2>2. importer'[i].todo # importer[i].todo
    BY DEF AppliesRepeated
  <2>3. importer'[i] # importer[i] /\ importer' # importer
    BY <2>2
  <2>4. ASSUME NEW n \in Importers, ApplySubscriber(n) PROVE n = i
    <3>1. \E v : importer' = [importer EXCEPT ![n] = v]
      BY <2>4 DEF ApplySubscriber
    <3>2. QED
      BY <2>1, <2>3, <3>1
  <2>5. CASE \E n \in Importers : ApplySubscriber(n)
    BY <1>1, <2>4, <2>5, RepeatedIdle
  <2>6. CASE \E n \in Requests : Persist(n)
    BY <2>3, <2>6 DEF Persist, importVars
  <2>7. CASE \E c, s \in Customers : MergeCustomers(c, s)
    BY <2>3, <2>7 DEF MergeCustomers, importVars
  <2>8. CASE \/ Tick \/ \E n \in Requests, s \in Snapshots : Query(n, s)
             \/ \E n \in Requests : Normalize(n) \/ PostCommit(n) \/ Fail(n)
             \/ \E n \in Importers : \/ \E command \in Commands : StartImport(n, command)
                                     \/ EnsureImportBatch(n) \/ EndImport(n) \/ FailImport(n)
    BY <2>8 DEF Tick, Query, Normalize, PostCommit, Fail, StartImport, EnsureImportBatch,
       EndImport, FailImport
  <2>9. QED
    BY <2>5, <2>6, <2>7, <2>8 DEF Next
<1>2. QED
  BY <1>1, Invariance, PTL DEF Spec, RepeatedImportChangesNothing

====
