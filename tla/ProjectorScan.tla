---- MODULE ProjectorScan ----
(***************************************************************************)
(* Project as the code runs it, loop by loop, for one entitlement: the     *)
(* candidates arrive in the order of a query, the sources are read back in *)
(* the random order of a Go map, and the result meets whatever projection  *)
(* is current.  Checked against the declarative EntitlementProjector.      *)
(***************************************************************************)
EXTENDS EntitlementProjector, FiniteSets

CONSTANTS
    Universe,       \* the candidates and current projections to try
    MaxCandidates   \* bound of the model: candidates of one customer

ASSUME ScanAssumption ==
    /\ MaxCandidates \in Nat
    /\ \A c \in Universe : /\ c.kind \in {"store", "import"} /\ c.access \in {"allowed", "unresolved", "denied"}
                          /\ c.ends \in Nat /\ c.at \in Nat /\ c.id \in Nat
    /\ \A c, d \in Universe : c.id = d.id => c = d
    /\ \A c, d \in Universe : SameSource(c, d) => c.kind = d.kind   \* the prefix of the lineage key

VARIABLES
    candidates, \* the argument of Project
    todo,       \* what the running loop has not met yet
    sources,    \* byEntitlement[entitlementID]: the values of the map
    chosen,     \* the running choice of the selection loop
    current,    \* the projection before
    result,     \* the projection after
    phase       \* "load", "group", "choose", "done"

scanVars == <<candidates, todo, sources, chosen, current, result, phase>>

ScanInit ==
    /\ candidates = {} /\ todo = {} /\ sources = {}
    /\ chosen = NoProjection /\ current = NoProjection /\ result = NoProjection
    /\ phase = "load"

\* CustomerEntitlementSources has returned some candidates, or one more.
Load(c) ==
    /\ phase = "load"
    /\ Cardinality(candidates) < MaxCandidates
    /\ candidates' = candidates \cup {c}
    /\ UNCHANGED <<todo, sources, chosen, current, result, phase>>

StartGrouping ==
    /\ phase = "load" /\ candidates # {}
    /\ phase' = "group" /\ todo' = candidates
    /\ UNCHANGED <<candidates, sources, chosen, current, result>>

\* Faulty variant: the first candidate met for a source stays.
GroupFirstWins(c) ==
    /\ phase = "group" /\ c \in todo
    /\ todo' = todo \ {c}
    /\ sources' = IF \/ c.kind = "import" /\ StoreReports(c, candidates)
                     \/ \E d \in sources : SameSource(c, d)
                  THEN sources ELSE sources \cup {c}
    /\ UNCHANGED <<candidates, chosen, current, result, phase>>

\* One turn of the grouping loop: skip a superseded import, else keep the newer.
Group(c) ==
    /\ phase = "group" /\ c \in todo
    /\ todo' = todo \ {c}
    /\ LET existing == {d \in sources : SameSource(c, d)}
       IN  sources' = IF c.kind = "import" /\ StoreReports(c, candidates) THEN sources
                      ELSE IF \A d \in existing : NewerSourceCandidate(c, d)
                           THEN (sources \ existing) \cup {c}
                           ELSE sources
    /\ UNCHANGED <<candidates, chosen, current, result, phase>>

StartChoosing ==
    /\ phase = "group" /\ todo = {}
    /\ phase' = "choose" /\ todo' = sources
    /\ UNCHANGED <<candidates, sources, chosen, current, result>>

\* One turn of the selection loop over the map.
Choose(c) ==
    /\ phase = "choose" /\ c \in todo
    /\ todo' = todo \ {c}
    /\ chosen' = IF chosen = NoProjection \/ CandidatePreferred(c, chosen) THEN c ELSE chosen
    /\ UNCHANGED <<candidates, sources, current, result, phase>>

\* The rest of Project, and the projection the caller is left with.
Apply(cur) ==
    /\ phase = "choose" /\ todo = {}
    /\ phase' = "done"
    /\ current' = cur
    /\ result' = LET projection == Project(cur, candidates)
                 IN  IF projection = NoProjection THEN cur ELSE projection
    /\ UNCHANGED <<candidates, todo, sources, chosen>>

ScanNext ==
    \/ \E c \in Universe : Load(c)
    \/ StartGrouping
    \/ \E c \in candidates : Group(c) \/ Choose(c)
    \/ StartChoosing
    \/ \E cur \in Universe \cup {NoProjection} : Apply(cur)

ScanSpec == ScanInit /\ [][ScanNext]_scanVars

--------------------------------------------------------------------------------
(* Properties.                                                               *)

\* The loops compute what the declarative definitions say in every order the
\* candidates and the map can be visited: the choice is never an accident of order.
OrderIrrelevant ==
    /\ phase = "choose" => sources = ReportedSources(candidates)
    /\ phase = "done" => chosen = MostPreferred(ReportedSources(candidates))

\* Project's comment, "without revoking an independent allowed source": no source the
\* customer has is stronger than the projection that results, and none of its kind
\* would allow access for longer.
NoSourceHidden ==
    phase = "done" =>
        \A s \in ReportedSources(candidates) :
            /\ AccessStrength(s.access) <= AccessStrength(result.access)
            /\ ~(s.kind = result.kind /\ result \in candidates /\ EndsLater(s, result))

====
