---- MODULE EntitlementProjector ----
(***************************************************************************)
(* DefaultProjector.Project for one entitlement: which access source of a  *)
(* customer becomes the current projection.  (Entitlements do not          *)
(* influence each other: the code groups everything by entitlement.)       *)
(*                                                                         *)
(* A candidate is a record                                                 *)
(*   kind     "store" (an observation) or "import" (a historical grant)    *)
(*   product  the application product that grants the entitlement          *)
(*   lineage  the purchase lineage inside that product                     *)
(*   access   "allowed", "unresolved" or "denied"                          *)
(*   ends     end of the effective period, 0 when there is none            *)
(*   at       ObservedAt                                                   *)
(*   id       the observation or grant identity, ordered like its text     *)
(* The current projection is such a record too, or NoProjection.           *)
(***************************************************************************)
EXTENDS Naturals

\* No current projection, or none to be applied.
NoProjection == [kind |-> "none"]

\* accessStrength
AccessStrength(access) == CASE access = "allowed" -> 3
                            [] access = "unresolved" -> 2
                            [] access = "denied" -> 1

\* sourceKindRank
SourceKindRank(p) == IF p.kind = "import" THEN 1 ELSE 2

\* compareAllowedEnd(p, q) > 0: both allowed and p's access ends after q's.
EndsLater(p, q) ==
    /\ p.access = "allowed" /\ q.access = "allowed"
    /\ q.ends # 0
    /\ p.ends = 0 \/ p.ends > q.ends

\* sourceFromCandidate, sourceFromCurrent: one independent source of access.
SameSource(p, q) == p.product = q.product /\ p.lineage = q.lineage

\* The tail both orders share: the later sighting, then the smaller identity.
SeenLater(p, q) == p.at > q.at \/ (p.at = q.at /\ p.id < q.id)

\* newerSourceCandidate
NewerSourceCandidate(p, q) ==
    \/ SourceKindRank(p) > SourceKindRank(q)
    \/ SourceKindRank(p) = SourceKindRank(q) /\ SeenLater(p, q)

\* Faulty variant: the latest sighting decides before the end of access does.
CandidatePreferredBySighting(p, q) ==
    \/ AccessStrength(p.access) > AccessStrength(q.access)
    \/ /\ AccessStrength(p.access) = AccessStrength(q.access)
       /\ \/ SourceKindRank(p) > SourceKindRank(q)
          \/ SourceKindRank(p) = SourceKindRank(q) /\ SeenLater(p, q)

\* candidatePreferred
CandidatePreferred(p, q) ==
    \/ AccessStrength(p.access) > AccessStrength(q.access)
    \/ /\ AccessStrength(p.access) = AccessStrength(q.access)
       /\ \/ SourceKindRank(p) > SourceKindRank(q)
          \/ /\ SourceKindRank(p) = SourceKindRank(q)
             /\ \/ EndsLater(p, q)
                \/ ~EndsLater(p, q) /\ ~EndsLater(q, p) /\ SeenLater(p, q)

\* storeProducts: the store has reported the product of this projection.
StoreReports(p, candidates) == \E s \in candidates : s.kind = "store" /\ s.product = p.product

\* byEntitlement: the newest candidate of every source, imports the store supersedes left out.
ReportedSources(candidates) ==
    LET live == {c \in candidates : c.kind = "import" => ~StoreReports(c, candidates)}
    IN  {c \in live : \A d \in live \ {c} : SameSource(c, d) => NewerSourceCandidate(c, d)}

\* The candidate the selection loop ends with, whatever the order of the map.
MostPreferred(sources) == CHOOSE c \in sources : \A d \in sources \ {c} : CandidatePreferred(c, d)

\* importLosesToStore
ImportLosesToStore(current, chosen) == current.kind = "import" /\ chosen.kind = "store"

\* An equally strong candidate of the current source is kept, so that equal sources
\* do not take turns.
KeepsCurrentSource(current, mine, chosen) ==
    /\ AccessStrength(mine.access) = AccessStrength(chosen.access)
    /\ ~EndsLater(chosen, mine)
    /\ ~ImportLosesToStore(current, chosen)

\* selected[entitlementID]
Selected(current, sources) ==
    LET chosen == MostPreferred(sources)
        kept == {c \in sources : /\ current # NoProjection
                                 /\ SameSource(c, current)
                                 /\ KeepsCurrentSource(current, c, chosen)}
    IN  IF kept # {} THEN CHOOSE c \in kept : TRUE ELSE chosen

\* currentSourceReported
CurrentSourceReported(current, sources, candidates) ==
    \/ \E c \in sources : SameSource(c, current)
    \/ current.kind = "import" /\ StoreReports(current, candidates)

\* preserveIndependentSource
PreserveIndependentSource(current, candidate) ==
    /\ current.product # candidate.product
    /\ AccessStrength(current.access) >= AccessStrength(candidate.access)

\* Project: the projection to apply, or NoProjection to leave the current one alone.
Project(current, candidates) ==
    LET sources == ReportedSources(candidates)
        candidate == Selected(current, sources)
    IN  IF \/ sources = {}
           \/ /\ current # NoProjection
              /\ ~CurrentSourceReported(current, sources, candidates)
              /\ PreserveIndependentSource(current, candidate)
        THEN NoProjection ELSE candidate

====
