---- MODULE PurchaseAccessProofs ----
(***************************************************************************)
(* Theorems about the way from a purchase to access: ProjectorScan, for    *)
(* every set of candidates and every current projection (both orders of    *)
(* projector.go are strict and total, so the loops end where the           *)
(* declarative definitions say they do), and StoreAnswers, for any answers *)
(* of the three stores, any number of asks and any clock.                  *)
(***************************************************************************)
EXTENDS StoreAnswers, ProjectorScan, SequenceTheorems, FiniteSetTheorems, TLAPS

(***************************************************************************)
(* The projector                                                           *)
(***************************************************************************)

--------------------------------------------------------------------------------
(* The orders.                                                               *)

LEMMA RanksAreNumbers ==
    ASSUME NEW c \in Universe
    PROVE  /\ AccessStrength(c.access) \in 1..3
           /\ SourceKindRank(c) \in 1..2
           /\ AccessStrength(c.access) = 3 <=> c.access = "allowed"
           /\ SourceKindRank(c) = 1 <=> c.kind = "import"
           /\ c.at \in Nat /\ c.ends \in Nat /\ c.id \in Nat
BY ScanAssumption DEF AccessStrength, SourceKindRank

\* newerSourceCandidate never prefers two candidates to each other.
LEMMA NewerAsymmetric ==
    ASSUME NEW c \in Universe, NEW d \in Universe,
           NewerSourceCandidate(c, d), NewerSourceCandidate(d, c)
    PROVE  FALSE
<1> DEFINE rc == SourceKindRank(c)
           rd == SourceKindRank(d)
<1>1. rc \in 1..2 /\ rd \in 1..2 /\ c.at \in Nat /\ d.at \in Nat /\ c.id \in Nat /\ d.id \in Nat
  BY RanksAreNumbers
<1>2. /\ rc > rd \/ (rc = rd /\ (c.at > d.at \/ (c.at = d.at /\ c.id < d.id)))
      /\ rd > rc \/ (rd = rc /\ (d.at > c.at \/ (d.at = c.at /\ d.id < c.id)))
  BY DEF NewerSourceCandidate, SeenLater
<1> HIDE DEF rc, rd
<1>3. QED
  BY <1>1, <1>2

LEMMA NewerTransitive ==
    ASSUME NEW c \in Universe, NEW d \in Universe, NEW e \in Universe,
           NewerSourceCandidate(c, d), NewerSourceCandidate(d, e)
    PROVE  NewerSourceCandidate(c, e)
<1> DEFINE rc == SourceKindRank(c)
           rd == SourceKindRank(d)
           re == SourceKindRank(e)
<1>1. /\ rc \in 1..2 /\ rd \in 1..2 /\ re \in 1..2
      /\ c.at \in Nat /\ d.at \in Nat /\ e.at \in Nat /\ c.id \in Nat /\ d.id \in Nat /\ e.id \in Nat
  BY RanksAreNumbers
<1>2. /\ rc > rd \/ (rc = rd /\ (c.at > d.at \/ (c.at = d.at /\ c.id < d.id)))
      /\ rd > re \/ (rd = re /\ (d.at > e.at \/ (d.at = e.at /\ d.id < e.id)))
  BY DEF NewerSourceCandidate, SeenLater
<1>3. rc > re \/ (rc = re /\ (c.at > e.at \/ (c.at = e.at /\ c.id < e.id)))
  <2> HIDE DEF rc, rd, re
  <2>1. QED
    BY <1>1, <1>2
<1>4. QED
  BY <1>3 DEF NewerSourceCandidate, SeenLater

LEMMA NewerTotal ==
    ASSUME NEW c \in Universe, NEW d \in Universe, c # d
    PROVE  NewerSourceCandidate(c, d) \/ NewerSourceCandidate(d, c)
<1> DEFINE rc == SourceKindRank(c)
           rd == SourceKindRank(d)
<1>1. rc \in 1..2 /\ rd \in 1..2 /\ c.at \in Nat /\ d.at \in Nat /\ c.id \in Nat /\ d.id \in Nat
  BY RanksAreNumbers
<1>2. c.id # d.id
  BY ScanAssumption
<1>3. \/ rc > rd \/ (rc = rd /\ (c.at > d.at \/ (c.at = d.at /\ c.id < d.id)))
      \/ rd > rc \/ (rd = rc /\ (d.at > c.at \/ (d.at = c.at /\ d.id < c.id)))
  <2> HIDE DEF rc, rd
  <2>1. QED
    BY <1>1, <1>2
<1>4. QED
  BY <1>3 DEF NewerSourceCandidate, SeenLater

\* candidatePreferred never prefers two candidates to each other.
LEMMA PreferredAsymmetric ==
    ASSUME NEW c \in Universe, NEW d \in Universe,
           CandidatePreferred(c, d), CandidatePreferred(d, c)
    PROVE  FALSE
<1> DEFINE sc == AccessStrength(c.access)
           sd == AccessStrength(d.access)
           rc == SourceKindRank(c)
           rd == SourceKindRank(d)
<1>1. /\ sc \in 1..3 /\ sd \in 1..3 /\ rc \in 1..2 /\ rd \in 1..2
      /\ c.at \in Nat /\ d.at \in Nat /\ c.id \in Nat /\ d.id \in Nat /\ c.ends \in Nat /\ d.ends \in Nat
  BY RanksAreNumbers
<1>2. sc = sd /\ rc = rd
  <2>1. /\ sc > sd \/ (sc = sd /\ (rc > rd \/ rc = rd))
        /\ sd > sc \/ (sd = sc /\ (rd > rc \/ rd = rc))
    BY DEF CandidatePreferred
  <2> HIDE DEF sc, sd, rc, rd
  <2>2. QED
    BY <1>1, <2>1
<1>3. /\ EndsLater(c, d) \/ (~EndsLater(d, c) /\ SeenLater(c, d))
      /\ EndsLater(d, c) \/ (~EndsLater(c, d) /\ SeenLater(d, c))
  <2>1. ~(sc > sd) /\ ~(sd > sc) /\ ~(rc > rd) /\ ~(rd > rc)
    <3> HIDE DEF sc, sd, rc, rd
    <3>1. QED
      BY <1>1, <1>2
  <2>2. QED
    BY <2>1 DEF CandidatePreferred
<1>4. ~(EndsLater(c, d) /\ EndsLater(d, c))
  BY <1>1 DEF EndsLater
<1>5. ~(SeenLater(c, d) /\ SeenLater(d, c))
  BY <1>1 DEF SeenLater
<1>6. QED
  BY <1>3, <1>4, <1>5

LEMMA PreferredTotal ==
    ASSUME NEW c \in Universe, NEW d \in Universe, c # d
    PROVE  CandidatePreferred(c, d) \/ CandidatePreferred(d, c)
<1> DEFINE sc == AccessStrength(c.access)
           sd == AccessStrength(d.access)
           rc == SourceKindRank(c)
           rd == SourceKindRank(d)
<1>1. /\ sc \in 1..3 /\ sd \in 1..3 /\ rc \in 1..2 /\ rd \in 1..2
      /\ c.at \in Nat /\ d.at \in Nat /\ c.id \in Nat /\ d.id \in Nat
  BY RanksAreNumbers
<1>2. c.id # d.id
  BY ScanAssumption
<1>3. SeenLater(c, d) \/ SeenLater(d, c)
  BY <1>1, <1>2 DEF SeenLater
<1>4. CASE sc # sd
  <2>1. sc > sd \/ sd > sc
    <3> HIDE DEF sc, sd
    <3>1. QED
      BY <1>1, <1>4
  <2>2. QED
    BY <2>1 DEF CandidatePreferred
<1>5. CASE sc = sd /\ rc # rd
  <2>1. rc > rd \/ rd > rc
    <3> HIDE DEF sc, sd, rc, rd
    <3>1. QED
      BY <1>1, <1>5
  <2>2. QED
    BY <1>5, <2>1 DEF CandidatePreferred
<1>6. CASE sc = sd /\ rc = rd
  BY <1>3, <1>6 DEF CandidatePreferred
<1>7. QED
  BY <1>4, <1>5, <1>6

\* The later end of access, or none, is transitive whatever the third candidate is.
LEMMA LastingOrder ==
    ASSUME NEW c \in Universe, NEW d \in Universe, NEW e \in Universe,
           AccessStrength(c.access) = AccessStrength(d.access),
           AccessStrength(d.access) = AccessStrength(e.access)
    PROVE  /\ EndsLater(c, d) /\ EndsLater(d, e) => EndsLater(c, e)
           /\ EndsLater(c, d) /\ ~EndsLater(e, d) => EndsLater(c, e)
           /\ ~EndsLater(d, c) /\ EndsLater(d, e) => EndsLater(c, e)
           /\ ~EndsLater(d, c) /\ ~EndsLater(e, d) => ~EndsLater(e, c)
<1>1. /\ c.ends \in Nat /\ d.ends \in Nat /\ e.ends \in Nat
      /\ c.access = "allowed" <=> d.access = "allowed"
      /\ d.access = "allowed" <=> e.access = "allowed"
  BY RanksAreNumbers
<1>2. CASE c.access = "allowed"
  BY <1>1, <1>2 DEF EndsLater
<1>3. CASE c.access # "allowed"
  BY <1>1, <1>3 DEF EndsLater
<1>4. QED
  BY <1>2, <1>3

LEMMA PreferredTransitive ==
    ASSUME NEW c \in Universe, NEW d \in Universe, NEW e \in Universe,
           CandidatePreferred(c, d), CandidatePreferred(d, e)
    PROVE  CandidatePreferred(c, e)
<1> DEFINE sc == AccessStrength(c.access)
           sd == AccessStrength(d.access)
           se == AccessStrength(e.access)
           rc == SourceKindRank(c)
           rd == SourceKindRank(d)
           re == SourceKindRank(e)
<1>1. /\ sc \in 1..3 /\ sd \in 1..3 /\ se \in 1..3 /\ rc \in 1..2 /\ rd \in 1..2 /\ re \in 1..2
      /\ c.at \in Nat /\ d.at \in Nat /\ e.at \in Nat /\ c.id \in Nat /\ d.id \in Nat /\ e.id \in Nat
  BY RanksAreNumbers
<1>2. /\ sc > sd \/ (sc = sd /\ (rc > rd \/ rc = rd))
      /\ sd > se \/ (sd = se /\ (rd > re \/ rd = re))
  BY DEF CandidatePreferred
<1>3. sc > se \/ (sc = se /\ rc > re) \/ (sc = sd /\ sd = se /\ rc = rd /\ rd = re)
  <2> HIDE DEF sc, sd, se, rc, rd, re
  <2>1. QED
    BY <1>1, <1>2
<1>4. CASE sc > se \/ (sc = se /\ rc > re)
  BY <1>4 DEF CandidatePreferred
<1>5. CASE sc = sd /\ sd = se /\ rc = rd /\ rd = re
  <2>1. ~(sc > sd) /\ ~(sd > se) /\ ~(rc > rd) /\ ~(rd > re)
    <3> HIDE DEF sc, sd, se, rc, rd, re
    <3>1. QED
      BY <1>1, <1>5
  <2>2. /\ EndsLater(c, d) \/ (~EndsLater(c, d) /\ ~EndsLater(d, c) /\ SeenLater(c, d))
        /\ EndsLater(d, e) \/ (~EndsLater(d, e) /\ ~EndsLater(e, d) /\ SeenLater(d, e))
    BY <2>1 DEF CandidatePreferred
  <2>3. /\ EndsLater(c, d) /\ EndsLater(d, e) => EndsLater(c, e)
        /\ EndsLater(c, d) /\ ~EndsLater(e, d) => EndsLater(c, e)
        /\ ~EndsLater(d, c) /\ EndsLater(d, e) => EndsLater(c, e)
        /\ ~EndsLater(d, c) /\ ~EndsLater(e, d) => ~EndsLater(e, c)
    BY <1>5, LastingOrder
  <2>4. SeenLater(c, d) /\ SeenLater(d, e) => SeenLater(c, e)
    BY <1>1 DEF SeenLater
  <2>5. EndsLater(c, e) \/ (~EndsLater(c, e) /\ ~EndsLater(e, c) /\ SeenLater(c, e))
    BY <2>2, <2>3, <2>4
  <2>6. QED
    BY <1>5, <2>5 DEF CandidatePreferred
<1>6. QED
  BY <1>3, <1>4, <1>5

--------------------------------------------------------------------------------
(* The invariant.                                                            *)

Live == {c \in candidates : c.kind = "import" => ~StoreReports(c, candidates)}

\* The newest candidate of every source in a set.
Best(set) == {c \in set : \A d \in set \ {c} : SameSource(c, d) => NewerSourceCandidate(c, d)}

\* Every source met in a set is in the map, with this candidate or a newer one.
Covered(set) == \A d \in set : \E s \in sources : SameSource(s, d) /\ (s = d \/ NewerSourceCandidate(s, d))

\* The running choice is preferred to everything else met so far.
ChosenOf(met) ==
    /\ met = {} => chosen = NoProjection
    /\ met # {} => chosen \in met /\ \A d \in met \ {chosen} : CandidatePreferred(chosen, d)

TypeOK ==
    /\ candidates \subseteq Universe /\ todo \subseteq candidates
    /\ phase \in {"load", "group", "choose", "done"}
    /\ phase # "load" => candidates # {}
    /\ phase \in {"load", "group"} => chosen = NoProjection
    /\ phase = "load" => todo = {} /\ sources = {}
    /\ phase = "done" => todo = {} /\ current \in Universe \cup {NoProjection}

\* The map holds the newest of the live candidates met so far.
Grouped ==
    /\ phase = "group" => sources = Best(Live \ todo) /\ Covered(Live \ todo)
    /\ phase \in {"choose", "done"} => sources = Best(Live) /\ Covered(Live)

Chosen == phase \in {"choose", "done"} => todo \subseteq sources /\ ChosenOf(sources \ todo)

Projected ==
    phase = "done" =>
        result = IF Project(current, candidates) = NoProjection THEN current ELSE Project(current, candidates)

IInv == TypeOK /\ Grouped /\ Chosen /\ Projected

LEMMA InitIInv == ScanInit => IInv
BY DEF ScanInit, IInv, TypeOK, Grouped, Chosen, Projected

LEMMA NoProjectionIsNone == NoProjection \notin Universe
<1>1. NoProjection.kind = "none"
  BY DEF NoProjection
<1>2. QED
  BY <1>1, ScanAssumption

LEMMA SameSourceEquivalence ==
    /\ \A c : SameSource(c, c)
    /\ \A c, d : SameSource(c, d) => SameSource(d, c)
    /\ \A c, d, e : SameSource(c, d) /\ SameSource(d, e) => SameSource(c, e)
BY DEF SameSource

\* The map after one more candidate: it replaces the one of its source, or that one stays.
LEMMA GroupOne ==
    ASSUME NEW set \in SUBSET Universe, NEW c \in Universe, c \notin set,
           sources = Best(set), Covered(set),
           NEW new, new = IF \A d \in {d \in sources : SameSource(c, d)} : NewerSourceCandidate(c, d)
                          THEN (sources \ {d \in sources : SameSource(c, d)}) \cup {c}
                          ELSE sources
    PROVE  /\ new = Best(set \cup {c})
           /\ \A d \in set \cup {c} : \E s \in new : SameSource(s, d) /\ (s = d \/ NewerSourceCandidate(s, d))
<1> DEFINE existing == {d \in sources : SameSource(c, d)}
<1>1. sources \subseteq set
  BY DEF Best
<1>2. CASE \A d \in existing : NewerSourceCandidate(c, d)
  <2>1. new = (sources \ existing) \cup {c}
    BY <1>2
  <2>2. \A d \in set : SameSource(c, d) => NewerSourceCandidate(c, d)
    <3> SUFFICES ASSUME NEW d \in set, SameSource(c, d) PROVE NewerSourceCandidate(c, d)
      OBVIOUS
    <3>1. PICK s \in sources : SameSource(s, d) /\ (s = d \/ NewerSourceCandidate(s, d))
      BY DEF Covered
    <3>2. SameSource(c, s)
      BY <3>1, SameSourceEquivalence
    <3>3. NewerSourceCandidate(c, s)
      BY <1>2, <3>2
    <3>4. QED
      BY <1>1, <3>1, <3>3, NewerTransitive
  <2>3. \A x \in new : x \in Best(set \cup {c})
    <3> SUFFICES ASSUME NEW x \in new PROVE x \in Best(set \cup {c})
      OBVIOUS
    <3>1. CASE x = c
      BY <2>2, <3>1 DEF Best
    <3>2. CASE x # c
      <4>1. x \in sources /\ x \in set /\ ~SameSource(c, x)
        BY <1>1, <2>1, <3>2
      <4>2. ~SameSource(x, c)
        BY <4>1, SameSourceEquivalence
      <4>3. QED
        BY <4>1, <4>2 DEF Best
    <3>3. QED
      BY <3>1, <3>2
  <2>4. \A x \in Best(set \cup {c}) : x \in new
    <3> SUFFICES ASSUME NEW x \in Best(set \cup {c}), x # c PROVE x \in new
      BY <2>1
    <3>1. x \in set /\ x \in sources /\ (SameSource(x, c) => NewerSourceCandidate(x, c))
      BY DEF Best
    <3>2. ~SameSource(c, x)
      <4> SUFFICES ASSUME SameSource(c, x) PROVE FALSE
        OBVIOUS
      <4>1. NewerSourceCandidate(c, x) /\ NewerSourceCandidate(x, c)
        BY <2>2, <3>1, SameSourceEquivalence
      <4>2. QED
        BY <3>1, <4>1, NewerAsymmetric
    <3>3. QED
      BY <2>1, <3>1, <3>2
  <2>5. \A d \in set \cup {c} : \E s \in new : SameSource(s, d) /\ (s = d \/ NewerSourceCandidate(s, d))
    <3> SUFFICES ASSUME NEW d \in set \cup {c}
                 PROVE  \E s \in new : SameSource(s, d) /\ (s = d \/ NewerSourceCandidate(s, d))
      OBVIOUS
    <3>1. c \in new
      BY <2>1
    <3>2. CASE d = c
      BY <3>1, <3>2, SameSourceEquivalence
    <3>3. CASE d # c /\ SameSource(c, d)
      BY <2>2, <3>1, <3>3
    <3>4. CASE d # c /\ ~SameSource(c, d)
      <4>1. PICK s \in sources : SameSource(s, d) /\ (s = d \/ NewerSourceCandidate(s, d))
        BY <3>4 DEF Covered
      <4>2. ~SameSource(c, s)
        BY <3>4, <4>1, SameSourceEquivalence
      <4>3. QED
        BY <2>1, <4>1, <4>2
    <3>5. QED
      BY <3>2, <3>3, <3>4
  <2>6. new = Best(set \cup {c})
    <3>1. Best(set \cup {c}) \subseteq new /\ new \subseteq Best(set \cup {c})
      BY <2>3, <2>4
    <3>2. QED
      BY <3>1
  <2>7. QED
    BY <2>5, <2>6
<1>3. CASE \E d \in existing : ~NewerSourceCandidate(c, d)
  <2>1. PICK s \in sources : SameSource(c, s) /\ ~NewerSourceCandidate(c, s)
    BY <1>3
  <2>2. new = sources
    BY <1>3
  <2>3. s \in set /\ s # c /\ NewerSourceCandidate(s, c) /\ SameSource(s, c)
    BY <1>1, <2>1, NewerTotal, SameSourceEquivalence
  <2>4. \A x \in sources : SameSource(x, c) => NewerSourceCandidate(x, c)
    <3> SUFFICES ASSUME NEW x \in sources, SameSource(x, c) PROVE NewerSourceCandidate(x, c)
      OBVIOUS
    <3>1. SameSource(x, s)
      BY <2>1, SameSourceEquivalence
    <3>2. x = s \/ NewerSourceCandidate(x, s)
      BY <2>3, <3>1 DEF Best
    <3>3. QED
      BY <1>1, <2>3, <3>2, NewerTransitive
  <2>5. \A x \in sources : x \in Best(set \cup {c})
    BY <1>1, <2>4 DEF Best
  <2>6. \A x \in Best(set \cup {c}) : x \in sources
    <3> SUFFICES ASSUME NEW x \in Best(set \cup {c}) PROVE x \in sources
      OBVIOUS
    <3>1. x # c
      <4> SUFFICES ASSUME x = c PROVE FALSE
        OBVIOUS
      <4>1. NewerSourceCandidate(c, s)
        BY <2>1, <2>3 DEF Best
      <4>2. QED
        BY <2>1, <4>1
    <3>2. QED
      BY <3>1 DEF Best
  <2>7. \A d \in set \cup {c} : \E z \in new : SameSource(z, d) /\ (z = d \/ NewerSourceCandidate(z, d))
    BY <2>2, <2>3 DEF Covered
  <2>8. new = Best(set \cup {c})
    <3>1. Best(set \cup {c}) \subseteq new /\ new \subseteq Best(set \cup {c})
      BY <2>2, <2>5, <2>6
    <3>2. QED
      BY <3>1
  <2>9. QED
    BY <2>7, <2>8
<1>4. QED
  BY <1>2, <1>3

LEMMA GroupIInv ==
    ASSUME IInv, NEW c \in candidates, Group(c)
    PROVE  IInv'
<1> USE DEF Group
<1>1. phase = "group" /\ phase' = "group" /\ candidates' = candidates /\ c \in todo /\ todo' = todo \ {c}
      /\ c \in Universe /\ candidates \subseteq Universe
  BY DEF IInv, TypeOK
<1>2. TypeOK'
  BY <1>1 DEF IInv, TypeOK
<1>3. Live' = Live /\ Live \subseteq candidates
  BY <1>1 DEF Live
<1>4. sources = Best(Live \ todo) /\ Covered(Live \ todo)
  BY <1>1 DEF IInv, Grouped
<1>5. sources' = Best(Live \ todo') /\ \A d \in Live \ todo' : \E s \in sources' : SameSource(s, d) /\ (s = d \/ NewerSourceCandidate(s, d))
  <2>1. CASE c \notin Live
    <3>1. c.kind = "import" /\ StoreReports(c, candidates)
      BY <2>1 DEF Live
    <3>2. sources' = sources /\ Live \ todo' = Live \ todo
      BY <1>1, <2>1, <3>1
    <3>3. QED
      BY <1>4, <3>2 DEF Covered
  <2>2. CASE c \in Live
    <3>1. ~(c.kind = "import" /\ StoreReports(c, candidates))
      BY <2>2 DEF Live
    <3>2. Live \ todo' = (Live \ todo) \cup {c}
      BY <1>1, <2>2
    <3>3. sources' = IF \A d \in {d \in sources : SameSource(c, d)} : NewerSourceCandidate(c, d)
                     THEN (sources \ {d \in sources : SameSource(c, d)}) \cup {c}
                     ELSE sources
      BY <3>1
    <3>4. Live \ todo \in SUBSET Universe /\ c \notin Live \ todo
      BY <1>1, <1>3
    <3>5. sources' = Best((Live \ todo) \cup {c})
          /\ \A d \in (Live \ todo) \cup {c} : \E s \in sources' : SameSource(s, d) /\ (s = d \/ NewerSourceCandidate(s, d))
      BY <1>1, <1>4, <3>3, <3>4, GroupOne
    <3>6. QED
      BY <3>2, <3>5
  <2>3. QED
    BY <2>1, <2>2
<1>6. Grouped'
  BY <1>1, <1>3, <1>5 DEF Grouped, Covered, Best
<1>7. Chosen' /\ Projected'
  BY <1>1 DEF Chosen, Projected
<1>8. QED
  BY <1>2, <1>6, <1>7 DEF IInv

LEMMA ChooseIInv ==
    ASSUME IInv, NEW c \in candidates, Choose(c)
    PROVE  IInv'
<1> USE DEF Choose
<1>1. /\ phase = "choose" /\ phase' = "choose" /\ c \in todo /\ todo' = todo \ {c}
      /\ UNCHANGED <<candidates, sources, current, result>>
  OBVIOUS
<1>2. sources \subseteq Universe /\ todo \subseteq sources /\ ChosenOf(sources \ todo)
  BY <1>1 DEF IInv, TypeOK, Grouped, Chosen, Best, Live
<1>3. TypeOK'
  BY <1>1 DEF IInv, TypeOK
<1>4. Grouped'
  BY <1>1 DEF IInv, Grouped, Live, Covered, Best
<1>5. sources \ todo' = (sources \ todo) \cup {c}
  BY <1>1, <1>2
<1>6. chosen' \in (sources \ todo) \cup {c} /\ \A d \in ((sources \ todo) \cup {c}) \ {chosen'} : CandidatePreferred(chosen', d)
  <2>1. CASE sources \ todo = {}
    BY <2>1, <1>2 DEF ChosenOf
  <2>2. CASE sources \ todo # {}
    <3>1. chosen \in sources \ todo /\ \A d \in (sources \ todo) \ {chosen} : CandidatePreferred(chosen, d)
      BY <1>2, <2>2 DEF ChosenOf
    <3>2. chosen # NoProjection /\ chosen \in Universe /\ c \in Universe /\ c # chosen
      BY <1>1, <1>2, <3>1, NoProjectionIsNone
    <3>3. CASE CandidatePreferred(c, chosen)
      <4>1. chosen' = c
        BY <3>3
      <4>2. \A d \in (sources \ todo) : CandidatePreferred(c, d)
        BY <1>2, <3>1, <3>2, <3>3, PreferredTransitive
      <4>3. QED
        BY <4>1, <4>2
    <3>4. CASE ~CandidatePreferred(c, chosen)
      <4>1. chosen' = chosen /\ CandidatePreferred(chosen, c)
        BY <3>2, <3>4, PreferredTotal
      <4>2. QED
        BY <3>1, <4>1
    <3>5. QED
      BY <3>3, <3>4
  <2>3. QED
    BY <2>1, <2>2
<1>7. Chosen'
  BY <1>1, <1>2, <1>5, <1>6 DEF Chosen, ChosenOf
<1>8. Projected'
  BY <1>1 DEF Projected
<1>9. QED
  BY <1>3, <1>4, <1>7, <1>8 DEF IInv

LEMMA NextIInv == IInv /\ [ScanNext]_scanVars => IInv'
<1> SUFFICES ASSUME IInv, [ScanNext]_scanVars PROVE IInv'
  OBVIOUS
<1>1. CASE UNCHANGED scanVars
  <2>1. UNCHANGED <<candidates, todo, sources, chosen, current, result, phase>>
    BY <1>1 DEF scanVars
  <2>2. TypeOK' /\ Grouped'
    BY <2>1 DEF IInv, TypeOK, Grouped, Live, Covered, Best
  <2>3. Chosen' /\ Projected'
    BY <2>1 DEF IInv, Chosen, ChosenOf, Projected
  <2>4. QED
    BY <2>2, <2>3 DEF IInv
<1>2. ASSUME NEW c \in Universe, Load(c) PROVE IInv'
  BY <1>2 DEF Load, IInv, TypeOK, Grouped, Chosen, Projected
<1>3. CASE StartGrouping
  <2>1. TypeOK' /\ Chosen' /\ Projected'
    BY <1>3 DEF StartGrouping, IInv, TypeOK, Chosen, Projected
  <2>2. Grouped'
    <3>1. (Live \ todo)' = {} /\ sources' = {} /\ phase' = "group"
      BY <1>3 DEF StartGrouping, IInv, TypeOK, Live
    <3>2. QED
      BY <3>1 DEF Grouped, Best, Covered
  <2>3. QED
    BY <2>1, <2>2 DEF IInv
<1>4. CASE StartChoosing
  <2>1. TypeOK' /\ Projected'
    <3>1. sources \subseteq candidates
      BY <1>4 DEF StartChoosing, IInv, Grouped, Best, Live
    <3>2. QED
      BY <1>4, <3>1 DEF StartChoosing, IInv, TypeOK, Projected
  <2>2. Grouped'
    <3>1. sources = Best(Live) /\ Covered(Live)
      BY <1>4 DEF StartChoosing, IInv, Grouped
    <3>2. QED
      BY <1>4, <3>1 DEF StartChoosing, Grouped, Best, Covered, Live
  <2>3. Chosen'
    BY <1>4 DEF StartChoosing, IInv, TypeOK, Chosen, ChosenOf
  <2>4. QED
    BY <2>1, <2>2, <2>3 DEF IInv
<1>5. ASSUME NEW p \in Universe \cup {NoProjection}, Apply(p) PROVE IInv'
  <2> USE <1>5 DEF Apply
  <2>1. TypeOK' /\ Projected'
    BY DEF IInv, TypeOK, Projected
  <2>2. Grouped'
    BY DEF IInv, Grouped, Best, Covered, Live
  <2>3. Chosen'
    BY DEF IInv, Chosen, ChosenOf
  <2>4. QED
    BY <2>1, <2>2, <2>3 DEF IInv
<1>6. QED
  BY <1>1, <1>2, <1>3, <1>4, <1>5, GroupIInv, ChooseIInv DEF ScanNext

\* The inductive invariant holds throughout.
THEOREM ScanInvariant == ScanSpec => []IInv
BY InitIInv, NextIInv, PTL DEF ScanSpec

--------------------------------------------------------------------------------
(* What the invariant says at the end of the loops.                          *)

LEMMA SourcesAreReported ==
    ASSUME IInv, phase \in {"choose", "done"}
    PROVE  /\ sources = ReportedSources(candidates)
           /\ sources \subseteq candidates /\ candidates \subseteq Universe /\ sources # {}
<1>1. sources = Best(Live) /\ Covered(Live) /\ candidates \subseteq Universe /\ candidates # {}
  BY DEF IInv, Grouped, TypeOK
<1>2. ReportedSources(candidates) = Best(Live)
  BY DEF ReportedSources, Best, Live
<1>3. Live # {}
  <2>1. PICK c \in candidates : TRUE
    BY <1>1
  <2>2. CASE c \in Live
    BY <2>2
  <2>3. CASE c \notin Live
    <3>1. PICK s \in candidates : s.kind = "store"
      BY <2>1, <2>3 DEF Live, StoreReports
    <3>2. QED
      BY <3>1 DEF Live
  <2>4. QED
    BY <2>2, <2>3
<1>4. sources # {}
  BY <1>1, <1>3 DEF Covered
<1>5. QED
  BY <1>1, <1>2, <1>4 DEF Best, Live

\* The choice of the loop is the only candidate preferred to all others.
LEMMA ChosenIsMostPreferred ==
    ASSUME IInv, phase = "done"
    PROVE  /\ chosen = MostPreferred(sources) /\ chosen \in sources
           /\ \A d \in sources \ {chosen} : CandidatePreferred(chosen, d)
<1>1. sources \subseteq Universe /\ sources # {} /\ sources \ todo = sources
  BY SourcesAreReported DEF IInv, TypeOK
<1>2. chosen \in sources /\ \A d \in sources \ {chosen} : CandidatePreferred(chosen, d)
  BY <1>1 DEF IInv, Chosen, ChosenOf
<1>3. MostPreferred(sources) \in sources /\ \A d \in sources \ {MostPreferred(sources)} : CandidatePreferred(MostPreferred(sources), d)
  BY <1>2 DEF MostPreferred
<1>4. chosen = MostPreferred(sources)
  <2> DEFINE m == MostPreferred(sources)
  <2> HIDE DEF m
  <2> SUFFICES ASSUME chosen # m PROVE FALSE
    BY DEF m
  <2>1. m \in sources /\ CandidatePreferred(chosen, m) /\ CandidatePreferred(m, chosen)
    BY <1>2, <1>3 DEF m
  <2>2. QED
    BY <1>1, <1>2, <2>1, PreferredAsymmetric
<1>5. QED
  BY <1>2, <1>4

\* Project's two loops: for any candidates, in whatever order the query and the map
\* deliver them, the sources kept and the candidate chosen are the declarative ones.
THEOREM OrderNeverMatters == ScanSpec => []OrderIrrelevant
<1>1. IInv => OrderIrrelevant
  <2> SUFFICES ASSUME IInv PROVE OrderIrrelevant
    OBVIOUS
  <2>1. phase = "choose" => sources = ReportedSources(candidates)
    BY SourcesAreReported
  <2>2. phase = "done" => chosen = MostPreferred(ReportedSources(candidates))
    BY SourcesAreReported, ChosenIsMostPreferred
  <2>3. QED
    BY <2>1, <2>2 DEF OrderIrrelevant
<1>2. QED
  BY ScanInvariant, <1>1, PTL

\* The chosen candidate is as strong as any source, and of the strongest of its kind
\* none lasts longer.
LEMMA ChosenBounds ==
    ASSUME NEW c \in Universe, NEW s \in Universe, CandidatePreferred(c, s)
    PROVE  /\ AccessStrength(s.access) <= AccessStrength(c.access)
           /\ AccessStrength(s.access) = AccessStrength(c.access) => SourceKindRank(s) <= SourceKindRank(c)
           /\ AccessStrength(s.access) = AccessStrength(c.access) /\ SourceKindRank(s) = SourceKindRank(c) => ~EndsLater(s, c)
<1> DEFINE sc == AccessStrength(c.access)
           ss == AccessStrength(s.access)
           rc == SourceKindRank(c)
           rs == SourceKindRank(s)
<1>1. sc \in 1..3 /\ ss \in 1..3 /\ rc \in 1..2 /\ rs \in 1..2 /\ c.ends \in Nat /\ s.ends \in Nat
  BY RanksAreNumbers
<1>2. sc > ss \/ (sc = ss /\ (rc > rs \/ (rc = rs /\ (EndsLater(c, s) \/ ~EndsLater(s, c)))))
  BY DEF CandidatePreferred
<1>3. EndsLater(c, s) => ~EndsLater(s, c)
  BY <1>1 DEF EndsLater
<1>4. ss <= sc /\ (ss = sc => rs <= rc) /\ (ss = sc /\ rs = rc => ~EndsLater(s, c))
  <2> HIDE DEF sc, ss, rc, rs
  <2>1. QED
    BY <1>1, <1>2, <1>3
<1>5. QED
  BY <1>4

\* Keeping the candidate of the current source hides nothing the chosen one shows.
LEMMA KeptBounds ==
    ASSUME NEW c \in Universe, NEW k \in Universe, NEW s \in Universe, NEW p \in Universe,
           SameSource(k, p), KeepsCurrentSource(p, k, c),
           s = c \/ CandidatePreferred(c, s)
    PROVE  /\ AccessStrength(s.access) <= AccessStrength(k.access)
           /\ s.kind = k.kind => ~EndsLater(s, k)
<1>1. /\ AccessStrength(k.access) = AccessStrength(c.access) /\ ~EndsLater(c, k)
      /\ ~(p.kind = "import" /\ c.kind = "store")
  BY DEF KeepsCurrentSource, ImportLosesToStore
<1>2. k.kind = p.kind
  BY ScanAssumption
<1>3. AccessStrength(s.access) \in Nat /\ AccessStrength(c.access) \in Nat
  BY RanksAreNumbers
<1>4. AccessStrength(s.access) <= AccessStrength(k.access)
  BY <1>1, <1>3, ChosenBounds
<1>5. ASSUME s.kind = k.kind, EndsLater(s, k) PROVE FALSE
  <2>1. s.access = "allowed" /\ k.access = "allowed"
    BY <1>5 DEF EndsLater
  <2>2. AccessStrength(s.access) = AccessStrength(k.access)
    BY <2>1
  <2>3. c.access = "allowed"
    BY <1>1, <2>1, RanksAreNumbers
  <2>4. EndsLater(s, c)
    <3>1. s.ends \in Nat /\ k.ends \in Nat /\ c.ends \in Nat
      BY RanksAreNumbers
    <3>2. QED
      BY <1>1, <1>5, <2>1, <2>3, <3>1 DEF EndsLater
  <2>5. s # c
    <3>1. s.ends \in Nat
      BY RanksAreNumbers
    <3>2. QED
      BY <2>4, <3>1 DEF EndsLater
  <2>6. SourceKindRank(s) <= SourceKindRank(c) /\ SourceKindRank(s) # SourceKindRank(c)
    BY <1>1, <2>2, <2>4, <2>5, ChosenBounds
  <2>7. s.kind = "import" /\ c.kind = "store"
    BY <2>6, ScanAssumption DEF SourceKindRank
  <2>8. QED
    BY <1>1, <1>2, <1>5, <2>7
<1>6. QED
  BY <1>4, <1>5

LEMMA NothingHidden == IInv => NoSourceHidden
<1> SUFFICES ASSUME IInv, phase = "done", NEW s \in ReportedSources(candidates)
             PROVE  /\ AccessStrength(s.access) <= AccessStrength(result.access)
                    /\ ~(s.kind = result.kind /\ result \in candidates /\ EndsLater(s, result))
  BY DEF NoSourceHidden
<1> DEFINE k == Selected(current, sources)
           kept == {c \in sources : /\ current # NoProjection
                                    /\ SameSource(c, current)
                                    /\ KeepsCurrentSource(current, c, chosen)}
<1>1. /\ sources = ReportedSources(candidates) /\ sources \subseteq candidates /\ candidates \subseteq Universe
      /\ sources # {} /\ s \in sources /\ s \in Universe
  BY SourcesAreReported
<1>2. /\ chosen = MostPreferred(sources) /\ chosen \in sources /\ chosen \in Universe
      /\ s = chosen \/ CandidatePreferred(chosen, s)
  BY <1>1, ChosenIsMostPreferred
<1>3. k = IF kept # {} THEN CHOOSE c \in kept : TRUE ELSE chosen
  BY <1>2 DEF Selected
<1>4. current \in Universe \/ current = NoProjection
  BY DEF IInv, TypeOK
<1>5. /\ k \in sources
      /\ AccessStrength(s.access) <= AccessStrength(k.access)
      /\ s.kind = k.kind => ~EndsLater(s, k)
  <2>1. CASE kept = {}
    <3>1. k = chosen
      BY <1>3, <2>1
    <3>2. CASE s = chosen
      <4>1. s.ends \in Nat /\ AccessStrength(s.access) \in Nat
        BY <1>1, RanksAreNumbers
      <4>2. QED
        BY <1>2, <3>1, <3>2, <4>1 DEF EndsLater
    <3>3. CASE CandidatePreferred(chosen, s)
      <4>1. /\ AccessStrength(s.access) <= AccessStrength(chosen.access)
            /\ AccessStrength(s.access) = AccessStrength(chosen.access) /\ SourceKindRank(s) = SourceKindRank(chosen) => ~EndsLater(s, chosen)
        BY <1>1, <1>2, <3>3, ChosenBounds
      <4>2. s.kind = chosen.kind => SourceKindRank(s) = SourceKindRank(chosen)
        BY DEF SourceKindRank
      <4>3. EndsLater(s, chosen) => AccessStrength(s.access) = AccessStrength(chosen.access)
        BY DEF EndsLater
      <4>4. QED
        BY <1>2, <3>1, <4>1, <4>2, <4>3
    <3>4. QED
      BY <1>2, <3>2, <3>3
  <2>2. CASE kept # {}
    <3>1. k \in kept
      BY <1>3, <2>2
    <3>2. k \in sources /\ current # NoProjection /\ SameSource(k, current) /\ KeepsCurrentSource(current, k, chosen)
      BY <3>1
    <3>3. current \in Universe /\ k \in Universe
      BY <1>1, <1>4, <3>2
    <3>4. QED
      BY <1>1, <1>2, <3>2, <3>3, KeptBounds
  <2>3. QED
    BY <2>1, <2>2
<1>6. k # NoProjection
  BY <1>1, <1>5, NoProjectionIsNone
<1>7. Project(current, candidates) =
          IF /\ current # NoProjection
             /\ ~CurrentSourceReported(current, sources, candidates)
             /\ PreserveIndependentSource(current, k)
          THEN NoProjection ELSE k
  BY <1>1 DEF Project
<1>8. CASE /\ current # NoProjection
           /\ ~CurrentSourceReported(current, sources, candidates)
           /\ PreserveIndependentSource(current, k)
  <2>1. result = current
    BY <1>7, <1>8 DEF IInv, Projected
  <2>2. AccessStrength(k.access) <= AccessStrength(current.access)
    <3>1. AccessStrength(k.access) \in Nat /\ AccessStrength(current.access) \in Nat
      BY <1>1, <1>4, <1>5, <1>8, RanksAreNumbers
    <3>2. QED
      BY <1>8, <3>1 DEF PreserveIndependentSource
  <2>3. AccessStrength(s.access) <= AccessStrength(current.access)
    <3>1. AccessStrength(k.access) \in Nat /\ AccessStrength(current.access) \in Nat /\ AccessStrength(s.access) \in Nat
      BY <1>1, <1>4, <1>5, <1>8, RanksAreNumbers
    <3>2. QED
      BY <1>5, <2>2, <3>1
  <2>4. current \notin candidates
    <3> SUFFICES ASSUME current \in candidates PROVE FALSE
      OBVIOUS
    <3>1. current \in Live
      BY <1>8 DEF CurrentSourceReported, Live
    <3>2. \E c \in sources : SameSource(c, current)
      BY <3>1 DEF IInv, Grouped, Covered
    <3>3. QED
      BY <1>8, <3>2 DEF CurrentSourceReported
  <2>5. QED
    BY <2>1, <2>3, <2>4
<1>9. CASE ~(/\ current # NoProjection
             /\ ~CurrentSourceReported(current, sources, candidates)
             /\ PreserveIndependentSource(current, k))
  <2>1. result = k
    BY <1>6, <1>7, <1>9 DEF IInv, Projected
  <2>2. QED
    BY <1>5, <2>1
<1>10. QED
  BY <1>8, <1>9

\* Project, preserveIndependentSource and the stickiness of the current source: for any
\* candidates and any current projection, no access the customer has is hidden.
THEOREM NoSourceEverHidden == ScanSpec => []NoSourceHidden
BY ScanInvariant, NothingHidden, PTL

(***************************************************************************)
(* The stores' answers                                                     *)
(***************************************************************************)

--------------------------------------------------------------------------------
(* What an answer reports.                                                   *)

\* The App Store's observation of an answer, with what the reference reads of it.
AppleSeen(ask, t, o) ==
    \E tr \in Transactions(ask) : \E status, renewal :
        /\ o = AppleStore!observation(ask.request, ask.request.kind, tr, status, renewal, t)
        /\ AppleStore!productKind(tr.type) = ask.request.kind
        /\ IF ask.request.kind = "subscription"
           THEN /\ Said(ask) = [transaction |-> tr, status |-> status, renewal |-> renewal]
                /\ status \in 1 .. 5 /\ ~ (status = 1 /\ tr.expires = << >>)
                /\ Optional(renewal.grace) /\ (status = 4 => renewal.grace # tr.expires)
           ELSE Said(ask) = [transaction |-> tr, status |-> 0]

HuaweiSeen(ask, t, o) ==
    o = HuaweiStore!observation(ask.request.application, ask.request.kind, ask.server.purchase, t)

--------------------------------------------------------------------------------
(* A chain of checks that ends in a success was passed.                      *)

Passed(checks) == \A i \in DOMAIN checks : checks[i] = ""

LEMMA Passes == \A g, checks, final : g = Guarded(checks, final) /\ g.ok => g = final /\ Passed(checks)
<1> SUFFICES ASSUME NEW g, NEW checks, NEW final, g = Guarded(checks, final), g.ok
             PROVE  g = final /\ Passed(checks)
  OBVIOUS
<1>1. {i \in DOMAIN checks : checks[i] # ""} = {}
  BY DEF Guarded, Failure
<1>2. QED
  BY <1>1 DEF Guarded, Passed

\* The adapters share StoreResult's checks.
LEMMA AppleGuarded == \A c, r : AppleStore!Guarded(c, r) = Guarded(c, r)
BY DEF Guarded, Failure, AppleStore!Guarded, AppleStore!Failure

LEMMA GoogleGuarded == \A c, r : GoogleStore!Guarded(c, r) = Guarded(c, r)
BY DEF Guarded, Failure, GoogleStore!Guarded, GoogleStore!Failure

LEMMA AppleCardinality == \A S : AppleStore!Cardinality(S) = Cardinality(S)
BY DEF AppleStore!Cardinality, Cardinality

LEMMA HuaweiGuarded == \A c, r : HuaweiStore!Guarded(c, r) = Guarded(c, r)
BY DEF Guarded, Failure, HuaweiStore!Guarded, HuaweiStore!Failure

--------------------------------------------------------------------------------
(* The App Store.                                                            *)

AppleDecision(kind, tr, status, renewal, t) ==
    IF kind = "subscription" THEN AppleStore!normalizeSubscriptionStatus(tr, status, renewal, t)
    ELSE AppleStore!Decision(AppleStore!normalizeState(kind, tr, t), tr.expires)

AppleRenews(kind, renewal, t) ==
    IF kind = "subscription" THEN AppleStore!normalizeRenewal(renewal, t)
    ELSE [mode |-> "none", renew |-> "not_applicable", next |-> "", nextAt |-> << >>]

AppleSnapshot(kind, tr, decision, renews) ==
    [product |-> tr.product, kind |-> kind, state |-> decision.access[1],
     provider |-> AppleStore!providerState(tr, decision.access[1]), access |-> decision.access[2],
     reason |-> decision.access[3], family |-> tr.family, occurred |-> tr.purchased, start |-> tr.purchased,
     end |-> decision.end, mode |-> renews.mode, renew |-> renews.renew, next |-> renews.next,
     nextAt |-> renews.nextAt]

ObservationFields == {"id", "prior", "application", "snapshot", "price", "at", "refs"}

\* The parts of an observation.
LEMMA AppleObserved ==
    ASSUME NEW request, NEW kind, NEW tr, NEW status, NEW renewal, NEW t, NEW o,
           o = AppleStore!observation(request, kind, tr, status, renewal, t)
    PROVE  /\ o.snapshot = AppleSnapshot(kind, tr, AppleDecision(kind, tr, status, renewal, t), AppleRenews(kind, renewal, t))
           /\ o.id = AppleStore!observationSnapshotIdentity(request.application.id, tr, o.snapshot, o.snapshot.end)
           /\ o.prior \in {<< >>, <<AppleStore!observationSnapshotIdentity(request.application.id, tr, o.snapshot, tr.expires)>>}
           /\ o.price = tr.price /\ o.at = 2 * t /\ o.refs = AppleStore!observationReferences(tr)
           /\ DOMAIN o = ObservationFields
<1> DEFINE s == AppleSnapshot(kind, tr, AppleDecision(kind, tr, status, renewal, t), AppleRenews(kind, renewal, t))
           id(end) == AppleStore!observationSnapshotIdentity(request.application.id, tr, s, end)
<1>1. o = [id |-> id(s.end), prior |-> IF id(tr.expires) = id(s.end) THEN << >> ELSE <<id(tr.expires)>>,
           application |-> request.application.id, snapshot |-> s, price |-> tr.price, at |-> AppleStore!Sighting(t),
           refs |-> AppleStore!observationReferences(tr)]
  BY Zenon DEF AppleStore!observation, AppleDecision, AppleRenews, AppleSnapshot
<1> HIDE DEF s
<1>2. o.snapshot = s
  BY <1>1
<1>3. o.id = id(s.end) /\ o.prior \in {<< >>, <<id(tr.expires)>>}
  <2> HIDE DEF id
  <2>1. QED
    BY <1>1
<1>4. o.price = tr.price /\ o.at = 2 * t /\ o.refs = AppleStore!observationReferences(tr) /\ DOMAIN o = ObservationFields
  <2> HIDE DEF id
  <2>1. QED
    BY <1>1 DEF AppleStore!Sighting, ObservationFields
<1>5. QED
  BY <1>2, <1>3, <1>4, Zenon DEF s

\* The end of a period is an instant.
LEMMA AppleEndIsOptional ==
    ASSUME NEW kind, NEW tr, NEW status, NEW renewal, NEW t, Optional(tr.expires),
           kind = "subscription" => Optional(renewal.grace) /\ status \in 1 .. 5
    PROVE  Optional(AppleDecision(kind, tr, status, renewal, t).end)
<1>1. CASE kind # "subscription"
  BY <1>1 DEF AppleDecision, AppleStore!Decision
<1>2. CASE kind = "subscription"
  <2>1. Optional(AppleStore!normalizeActive(tr, renewal, t).end)
    <3>1. CASE tr.expires = << >>
      BY <3>1 DEF AppleStore!normalizeActive, AppleStore!Decision, Optional
    <3>2. CASE tr.expires # << >>
      <4>1. tr.expires = <<tr.expires[1]>> /\ tr.expires[1] \in Nat \ {0}
        BY <3>2 DEF Optional
      <4>2. Optional(tr.expires) /\ Optional(<<tr.expires[1] + ClockSkew>>)
        BY <4>1, AnswersAssumption DEF Optional
      <4>3. AppleStore!normalizeActive(tr, renewal, t).end \in {tr.expires, <<tr.expires[1] + ClockSkew>>}
        BY <3>2 DEF AppleStore!normalizeActive, AppleStore!Decision
      <4>4. QED
        BY <4>2, <4>3
    <3>3. QED
      BY <3>1, <3>2
  <2>2. AppleStore!normalizeSubscriptionStatus(tr, status, renewal, t).end
          \in {tr.expires, renewal.grace, AppleStore!normalizeActive(tr, renewal, t).end}
    BY <1>2 DEF AppleStore!normalizeSubscriptionStatus, AppleStore!Decision
  <2>3. QED
    BY <1>2, <2>1, <2>2 DEF AppleDecision
<1>3. QED
  BY <1>1, <1>2

\* Two ends that look the same in an identity are the same.
LEMMA AppleEndShows ==
    ASSUME NEW expires, NEW end, NEW other, Optional(expires), Optional(end), Optional(other),
           AppleStore!snapshotExpiresIdentity(expires, end) = AppleStore!snapshotExpiresIdentity(expires, other)
    PROVE  end = other
<1>1. CASE end = expires
  BY <1>1 DEF AppleStore!snapshotExpiresIdentity
<1>2. CASE other = expires
  BY <1>2 DEF AppleStore!snapshotExpiresIdentity
<1>3. CASE end # expires /\ other # expires
  <2>1. AppleStore!Value(end) = AppleStore!Value(other)
    BY <1>3 DEF AppleStore!snapshotExpiresIdentity
  <2>2. QED
    BY <2>1 DEF AppleStore!Value, Optional
<1>4. QED
  BY <1>1, <1>2, <1>3

\* Transactions that differ in their price only.
LEMMA UnpricedSame ==
    ASSUME NEW t, NEW u, DOMAIN t = TransactionFields, DOMAIN u = TransactionFields, Unpriced(t) = Unpriced(u)
    PROVE  \A x \in TransactionFields \ {"price"} : t[x] = u[x]
<1>1. \A x \in TransactionFields \ {"price"} : Unpriced(t)[x] = t[x] /\ Unpriced(u)[x] = u[x]
  BY DEF Unpriced
<1>2. QED
  BY <1>1

LEMMA AppleReferences ==
    ASSUME NEW t, NEW u, DOMAIN t = TransactionFields, DOMAIN u = TransactionFields, Unpriced(t) = Unpriced(u)
    PROVE  AppleStore!observationReferences(t) = AppleStore!observationReferences(u)
<1>1. t.id = u.id /\ t.original = u.original /\ t.account = u.account
  BY UnpricedSame DEF TransactionFields
<1>2. QED
  BY <1>1, Zenon DEF AppleStore!observationReferences

\* An identity tells the transaction, without its price.
LEMMA AppleIdentity ==
    ASSUME NEW application, NEW tr, NEW snapshot, NEW end
    PROVE  LET id == AppleStore!observationSnapshotIdentity(application, tr, snapshot, end)
           IN  /\ id.t = Unpriced(tr) /\ id.expiry = AppleStore!snapshotExpiresIdentity(tr.expires, end)
               /\ id.decision = <<snapshot.state, snapshot.access, snapshot.reason>>
               /\ id.renewal = <<snapshot.mode, snapshot.renew, snapshot.next, snapshot.nextAt>>
BY DEF AppleStore!observationSnapshotIdentity, Unpriced

LEMMA AppleAnswersAre ==
    ASSUME NEW ask \in Asks["apple"], NEW tr \in Transactions(ask)
    PROVE  DOMAIN tr = TransactionFields /\ Optional(tr.expires) /\ (tr.type # "subscription" => tr.expires = << >>)
BY AnswersAssumption DEF AppleSays

\* An identity stands for one snapshot.
LEMMA AppleDetermined ==
    ASSUME NEW a \in Asks["apple"], NEW b \in Asks["apple"], NEW t, NEW u, NEW o, NEW p,
           AppleSeen(a, t, o), AppleSeen(b, u, p), o.id = p.id
    PROVE  o.snapshot = p.snapshot /\ o.refs = p.refs /\ PricesAgree(o.price, p.price)
<1>1. PICK v, status, renewal :
        /\ v \in Transactions(a)
        /\ o = AppleStore!observation(a.request, a.request.kind, v, status, renewal, t)
        /\ AppleStore!productKind(v.type) = a.request.kind
        /\ a.request.kind = "subscription" => Optional(renewal.grace) /\ status \in 1 .. 5
  BY Zenon DEF AppleSeen
<1>2. PICK w, status2, renewal2 :
        /\ w \in Transactions(b)
        /\ p = AppleStore!observation(b.request, b.request.kind, w, status2, renewal2, u)
        /\ AppleStore!productKind(w.type) = b.request.kind
        /\ b.request.kind = "subscription" => Optional(renewal2.grace) /\ status2 \in 1 .. 5
  BY Zenon DEF AppleSeen
<1> DEFINE d == AppleDecision(a.request.kind, v, status, renewal, t)
           e == AppleDecision(b.request.kind, w, status2, renewal2, u)
           m == AppleRenews(a.request.kind, renewal, t)
           n == AppleRenews(b.request.kind, renewal2, u)
           ido == AppleStore!observationSnapshotIdentity(a.request.application.id, v, o.snapshot, o.snapshot.end)
           idp == AppleStore!observationSnapshotIdentity(b.request.application.id, w, p.snapshot, p.snapshot.end)
<1>3. /\ o.snapshot = AppleSnapshot(a.request.kind, v, d, m) /\ o.id = ido
      /\ o.price = v.price /\ o.refs = AppleStore!observationReferences(v)
  BY <1>1, AppleObserved
<1>4. /\ p.snapshot = AppleSnapshot(b.request.kind, w, e, n) /\ p.id = idp
      /\ p.price = w.price /\ p.refs = AppleStore!observationReferences(w)
  BY <1>2, AppleObserved
<1>5. /\ ido.t = Unpriced(v) /\ ido.expiry = AppleStore!snapshotExpiresIdentity(v.expires, o.snapshot.end)
      /\ ido.decision = <<o.snapshot.state, o.snapshot.access, o.snapshot.reason>>
      /\ ido.renewal = <<o.snapshot.mode, o.snapshot.renew, o.snapshot.next, o.snapshot.nextAt>>
      /\ idp.t = Unpriced(w) /\ idp.expiry = AppleStore!snapshotExpiresIdentity(w.expires, p.snapshot.end)
      /\ idp.decision = <<p.snapshot.state, p.snapshot.access, p.snapshot.reason>>
      /\ idp.renewal = <<p.snapshot.mode, p.snapshot.renew, p.snapshot.next, p.snapshot.nextAt>>
  BY AppleIdentity
<1>6. Optional(d.end) /\ Optional(e.end)
  BY <1>1, <1>2, AppleEndIsOptional, AppleAnswersAre
<1> HIDE DEF ido, idp, d, e, m, n
<1>7. ido = idp
  BY <1>3, <1>4
<1>8. Unpriced(v) = Unpriced(w) /\ DOMAIN v = TransactionFields /\ DOMAIN w = TransactionFields
  BY <1>1, <1>2, <1>5, <1>7, AppleAnswersAre
<1>9. \A x \in TransactionFields \ {"price"} : v[x] = w[x]
  BY <1>8, UnpricedSame
<1>10. /\ v.product = w.product /\ v.type = w.type /\ v.family = w.family /\ v.purchased = w.purchased
       /\ v.expires = w.expires /\ v.revoked = w.revoked /\ v.upgraded = w.upgraded
  BY <1>9 DEF TransactionFields
<1>11. o.snapshot.end = d.end /\ p.snapshot.end = e.end
  BY <1>3, <1>4 DEF AppleSnapshot
<1>12. d.end = e.end
  BY <1>1, <1>2, <1>5, <1>6, <1>7, <1>10, <1>11, AppleEndShows, AppleAnswersAre
<1>13. a.request.kind = b.request.kind
  BY <1>1, <1>2, <1>10
<1>14. d.access[1] = e.access[1] /\ d.access[2] = e.access[2] /\ d.access[3] = e.access[3]
  BY <1>3, <1>4, <1>5, <1>7 DEF AppleSnapshot
<1>15. m.mode = n.mode /\ m.renew = n.renew /\ m.next = n.next /\ m.nextAt = n.nextAt
  BY <1>3, <1>4, <1>5, <1>7 DEF AppleSnapshot
<1>16. AppleStore!providerState(v, d.access[1]) = AppleStore!providerState(w, e.access[1])
  BY <1>10, <1>14 DEF AppleStore!providerState
<1>17. o.snapshot = p.snapshot
  BY <1>3, <1>4, <1>10, <1>12, <1>13, <1>14, <1>15, <1>16, Zenon DEF AppleSnapshot
<1>18. o.refs = p.refs
  BY <1>3, <1>4, <1>8, AppleReferences
<1>19. PricesAgree(o.price, p.price)
  BY <1>1, <1>2, <1>3, <1>4, <1>8, AnswersAssumption
<1>20. QED
  BY <1>17, <1>18, <1>19

\* What is read of an observation later, the answer grants then, and what it
\* grants right away is read.
LEMMA AppleServes ==
    ASSUME provider = "apple", NEW ask \in Asks["apple"], NEW t \in Nat, NEW o, AppleSeen(ask, t, o)
    PROVE  /\ \A u \in Nat : t <= u /\ AccessAt(o.snapshot.access, o.snapshot.end, u) = "allowed" =>
                 AppleStore!StoreGrants(Said(ask), o.snapshot.product, u)
           /\ AppleStore!StoreGrants(Said(ask), o.snapshot.product, t) =>
                 AccessAt(o.snapshot.access, o.snapshot.end, t) = "allowed"
<1>1. PICK tr, status, renewal :
        /\ tr \in Transactions(ask)
        /\ o = AppleStore!observation(ask.request, ask.request.kind, tr, status, renewal, t)
        /\ AppleStore!productKind(tr.type) = ask.request.kind
        /\ IF ask.request.kind = "subscription"
           THEN /\ Said(ask) = [transaction |-> tr, status |-> status, renewal |-> renewal]
                /\ status \in 1 .. 5 /\ ~ (status = 1 /\ tr.expires = << >>)
                /\ Optional(renewal.grace) /\ (status = 4 => renewal.grace # tr.expires)
           ELSE Said(ask) = [transaction |-> tr, status |-> 0]
  BY Zenon DEF AppleSeen
<1> DEFINE d == AppleDecision(ask.request.kind, tr, status, renewal, t)
<1>2. o.snapshot.access = d.access[2] /\ o.snapshot.end = d.end /\ o.snapshot.product = tr.product
  <2>1. o.snapshot = AppleSnapshot(ask.request.kind, tr, d, AppleRenews(ask.request.kind, renewal, t))
    BY <1>1, AppleObserved
  <2> HIDE DEF d
  <2>2. QED
    BY <2>1 DEF AppleSnapshot
<1>3. Optional(tr.expires) /\ (tr.type # "subscription" => tr.expires = << >>)
  BY <1>1, AppleAnswersAre
<1>4. ask.request.kind \in {"subscription", "non_consumable"}
  BY AnswersAssumption
<1>5. CASE ask.request.kind = "non_consumable"
  <2>1. tr.type = "non_consumable" /\ tr.expires = << >>
    BY <1>1, <1>3, <1>5 DEF AppleStore!productKind
  <2>2. d.end = << >> /\ d.access[2] = IF tr.revoked THEN "denied" ELSE "allowed"
    BY <1>5, <2>1 DEF AppleDecision, AppleStore!Decision, AppleStore!normalizeState
  <2>3. Said(ask).transaction = tr
    BY <1>1, <1>5
  <2>4. QED
    BY <1>2, <2>1, <2>2, <2>3 DEF AccessAt, AppleStore!StoreGrants
<1>6. CASE ask.request.kind = "subscription"
  <2>1. tr.type = "subscription" /\ status \in 1 .. 5 /\ Optional(renewal.grace)
    BY <1>1, <1>6 DEF AppleStore!productKind
  <2>2. Said(ask).transaction = tr /\ Said(ask).status = status /\ Said(ask).renewal = renewal
    BY <1>1, <1>6
  <2>3. d = AppleStore!normalizeSubscriptionStatus(tr, status, renewal, t)
    BY <1>6 DEF AppleDecision
  <2> DEFINE grants(u) == /\ ~ tr.revoked
                          /\ \/ status = 1 /\ u < AppleStore!Value(tr.expires) + ClockSkew
                             \/ status = 4 /\ u < AppleStore!Value(renewal.grace)
  <2>4. \A u : AppleStore!StoreGrants(Said(ask), o.snapshot.product, u) <=> grants(u)
    BY <1>2, <2>1, <2>2 DEF AppleStore!StoreGrants
  <2> HIDE DEF d
  <2>5. CASE tr.revoked
    <3>1. d.access[2] = "denied"
      BY <2>3, <2>5 DEF AppleStore!normalizeSubscriptionStatus, AppleStore!normalizeState, AppleStore!Decision
    <3>2. QED
      BY <1>2, <2>4, <2>5, <3>1 DEF AccessAt
  <2>6. CASE ~ tr.revoked /\ status = 1
    <3>1. tr.expires = <<tr.expires[1]>> /\ tr.expires[1] \in Nat
      BY <1>1, <1>3, <1>6, <2>6 DEF Optional
    <3>2. d = AppleStore!normalizeActive(tr, renewal, t)
      BY <2>3, <2>6 DEF AppleStore!normalizeSubscriptionStatus
    <3>3. CASE tr.expires[1] + ClockSkew <= t
      <4>1. d.access[2] = "denied"
        BY <3>1, <3>2, <3>3 DEF AppleStore!normalizeActive, AppleStore!Decision
      <4>2. ~ grants(t)
        BY <2>6, <3>1, <3>3, AnswersAssumption DEF AppleStore!Value
      <4>3. QED
        BY <1>2, <2>4, <4>1, <4>2 DEF AccessAt
    <3>4. CASE ~ (tr.expires[1] + ClockSkew <= t)
      <4>1. d.access[2] = "allowed" /\ d.end = IF tr.expires[1] > t THEN tr.expires ELSE <<tr.expires[1] + ClockSkew>>
        BY <3>1, <3>2, <3>4 DEF AppleStore!normalizeActive, AppleStore!Decision, AppleStore!After
      <4>2. \A u \in Nat : grants(u) <=> u < tr.expires[1] + ClockSkew
        BY <2>6, <3>1 DEF AppleStore!Value
      <4>3. \A u \in Nat : After(d.end, u) => grants(u)
        BY <3>1, <4>1, <4>2, AnswersAssumption DEF After
      <4>4. After(d.end, t) /\ d.end # << >>
        BY <3>1, <3>4, <4>1, AnswersAssumption DEF After
      <4>5. QED
        BY <1>2, <2>4, <4>1, <4>3, <4>4 DEF AccessAt
    <3>5. QED
      BY <3>3, <3>4
  <2>7. CASE ~ tr.revoked /\ status = 4
    <3>1. d.end = renewal.grace /\ d.access[2] = IF AppleStore!After(renewal.grace, t) THEN "allowed" ELSE "denied"
      BY <2>3, <2>7 DEF AppleStore!normalizeSubscriptionStatus, AppleStore!Decision
    <3>2. \A u \in Nat : /\ grants(u) <=> After(renewal.grace, u)
                         /\ AppleStore!After(renewal.grace, u) = After(renewal.grace, u)
      BY <2>1, <2>7 DEF AppleStore!Value, After, AppleStore!After, Optional
    <3>3. \A u \in Nat : t <= u /\ After(renewal.grace, u) => After(renewal.grace, t)
      BY <2>1 DEF After, Optional
    <3>4. renewal.grace = << >> => ~ After(renewal.grace, t)
      BY DEF After
    <3> HIDE DEF grants
    <3>5. QED
      BY <1>2, <2>4, <3>1, <3>2, <3>3, <3>4 DEF AccessAt
  <2>8. CASE ~ tr.revoked /\ status \in {2, 3, 5}
    <3>1. d.access[2] = "denied"
      BY <2>3, <2>8 DEF AppleStore!normalizeSubscriptionStatus, AppleStore!Decision
    <3>2. QED
      BY <1>2, <2>4, <2>8, <3>1 DEF AccessAt
  <2>9. QED
    BY <2>1, <2>5, <2>6, <2>7, <2>8
<1>7. QED
  BY <1>4, <1>5, <1>6

\* The row of the lineage an ask is about.
AppleRow(ask) ==
    ask.server.status.rows[CHOOSE i \in DOMAIN ask.server.status.rows :
                             ask.server.status.rows[i].original = ask.request.transaction.original]

LEMMA AppleResult ==
    ASSUME NEW request, NEW ask, request.application = ask.request.application,
           NEW kind, NEW tr, NEW status, NEW renewal, NEW t,
           AppleStore!result(request, kind, tr, status, renewal, t).ok
    PROVE  /\ ~ (kind = "subscription" /\ status = 1 /\ tr.expires = << >>)
           /\ AppleStore!result(request, kind, tr, status, renewal, t).observations
                = <<AppleStore!observation(ask.request, kind, tr, status, renewal, t)>>
<1> DEFINE r == AppleStore!result(request, kind, tr, status, renewal, t)
           seen == AppleStore!observation(request, kind, tr, status, renewal, t)
           good == [ok |-> TRUE, observations |-> <<seen>>, named |-> {}, actions |-> {}]
           x == AppleStore!Must(~ (kind = "subscription" /\ status = 1 /\ tr.expires = << >>), "invalid_evidence")
           y == AppleStore!Must(AppleStore!ObservationValid(seen), "invalid_evidence")
           c == <<x, y>>
<1>1. r = Guarded(c, good)
  BY AppleGuarded, Zenon DEF AppleStore!result, AppleStore!invalid
<1>2. seen = AppleStore!observation(ask.request, kind, tr, status, renewal, t)
  BY DEF AppleStore!observation
<1>3. good.observations = <<seen>>
  OBVIOUS
<1>4. x = "" => ~ (kind = "subscription" /\ status = 1 /\ tr.expires = << >>)
  BY DEF AppleStore!Must
<1>5. r.ok
  OBVIOUS
<1>6. c[1] = x /\ 1 \in DOMAIN c
  <2> HIDE DEF x, y
  <2>1. QED
    OBVIOUS
<1> HIDE DEF r, good, seen, x, y, c
<1>7. x = "" /\ r = good
  BY <1>1, <1>5, <1>6, Passes DEF Passed
<1>8. QED
  BY <1>2, <1>3, <1>4, <1>7 DEF r

\* The status of the lineage leads to one observation.
LEMMA AppleStatus ==
    ASSUME NEW ask \in Asks["apple"], NEW application,
           AppleStore!querySubscriptionStatus(application, ask.server.status, ask.request.transaction.original).ok
    PROVE  /\ AppleRow(ask) \in Range(ask.server.status.rows) /\ AppleRow(ask).status \in 1 .. 5
           /\ LET q == AppleStore!querySubscriptionStatus(application, ask.server.status, ask.request.transaction.original)
              IN  /\ q.transaction = AppleRow(ask).transaction /\ q.renewal = AppleRow(ask).renewal
                  /\ q.status = AppleRow(ask).status
<1> DEFINE original == ask.request.transaction.original
           answer == ask.server.status
           q == AppleStore!querySubscriptionStatus(application, answer, original)
           found == AppleStore!selectSubscriptionStatus(answer, original)
           row == answer.rows[CHOOSE i \in found : TRUE]
           good == [ok |-> TRUE, transaction |-> row.transaction, renewal |-> row.renewal, status |-> row.status]
           x1 == AppleStore!classifyProviderStatus(answer.http)
           x2 == AppleStore!Must(AppleStore!validateStatusResponseScope(application, answer), "invalid_evidence")
           x3 == AppleStore!Must(Cardinality(found) = 1, "invalid_evidence")
           x4 == AppleStore!Must(\A i \in found : answer.rows[i].status \in 1 .. 5, "invalid_evidence")
           x5 == AppleStore!Must(\A i \in found : answer.rows[i].transaction.signed /\ answer.rows[i].renewal.signed, "invalid_evidence")
           c == <<x1, x2, x3, x4, x5>>
<1>1. q = AppleStore!Guarded(c, good)
  BY AppleCardinality, Zenon DEF AppleStore!querySubscriptionStatus, AppleStore!invalid
<1>2. q = Guarded(c, good)
  <2> HIDE DEF q, c, good
  <2>1. QED
    BY <1>1, AppleGuarded
<1>3. (x3 = "" => Cardinality(found) = 1) /\ (x4 = "" => \A i \in found : answer.rows[i].status \in 1 .. 5)
  <2> HIDE DEF found
  <2>1. QED
    BY DEF AppleStore!Must
<1>4. q.ok
  OBVIOUS
<1>5. x3 = "" /\ x4 = "" /\ q = good
  <2> HIDE DEF q, x1, x2, x3, x4, x5, good
  <2>1. c[3] = x3 /\ c[4] = x4 /\ {3, 4} \subseteq DOMAIN c
    OBVIOUS
  <2> HIDE DEF c
  <2>2. q = good /\ Passed(c)
    BY <1>2, <1>4, Passes, Zenon
  <2>3. QED
    BY <2>1, <2>2 DEF Passed
<1>6. Cardinality(found) = 1 /\ \A i \in found : answer.rows[i].status \in 1 .. 5
  BY <1>3, <1>5
<1>7. IsFiniteSet(found)
  <2>1. answer.rows \in Seq(Range(answer.rows))
    BY AnswersAssumption DEF AppleSays
  <2>2. Len(answer.rows) \in Nat /\ found \subseteq 1 .. Len(answer.rows)
    BY <2>1, LenProperties DEF AppleStore!selectSubscriptionStatus
  <2>3. IsFiniteSet(1 .. Len(answer.rows))
    BY <2>2, FS_Interval
  <2> HIDE DEF found
  <2>4. QED
    BY <2>2, <2>3, FS_Subset
<1>8. row = AppleRow(ask) /\ row \in Range(answer.rows) /\ row.status \in 1 .. 5
  <2>1. found = {i \in DOMAIN answer.rows : answer.rows[i].original = original}
    BY DEF AppleStore!selectSubscriptionStatus
  <2>2. PICK k : found = {k}
    BY <1>6, <1>7, FS_Singleton
  <2>3. (CHOOSE i \in found : TRUE) = k
    BY <2>2
  <2>4. (CHOOSE i \in DOMAIN answer.rows : answer.rows[i].original = original) = k
    BY <2>1, <2>2
  <2>5. row = AppleRow(ask) /\ row = answer.rows[k]
    BY <2>3, <2>4, Zenon DEF AppleRow
  <2>6. k \in DOMAIN answer.rows /\ answer.rows[k].status \in 1 .. 5
    BY <1>6, <2>1, <2>2
  <2> HIDE DEF row
  <2>7. QED
    BY <2>5, <2>6 DEF Range
<1>9. q.transaction = row.transaction /\ q.renewal = row.renewal /\ q.status = row.status
  <2> HIDE DEF row, q
  <2>1. QED
    BY <1>5
<1> HIDE DEF row
<1>10. QED
  BY <1>8, <1>9

LEMMA AppleSubscription ==
    ASSUME provider = "apple", NEW ask \in Asks["apple"], NEW request, request.application = ask.request.application,
           ask.request.kind = "subscription", NEW account, NEW t,
           AppleStore!subscriptionResult(request, ask.request.transaction.original, account, ask.server.status, t).ok
    PROVE  \E o : /\ AppleSeen(ask, t, o)
                  /\ AppleStore!subscriptionResult(request, ask.request.transaction.original, account, ask.server.status, t).observations = <<o>>
<1> DEFINE original == ask.request.transaction.original
           r == AppleStore!subscriptionResult(request, original, account, ask.server.status, t)
           q == AppleStore!querySubscriptionStatus(request.application, ask.server.status, original)
           row == AppleRow(ask)
           x1 == AppleStore!Must(AppleStore!validateTransactionScope(request, "subscription", q.transaction, {}), "invalid_evidence")
           x2 == AppleStore!Must(account # "" => /\ q.transaction.original = original
                                                 /\ q.transaction.account = account, "invalid_evidence")
           x3 == AppleStore!Must(AppleStore!validateRenewalScope(request, q.transaction, q.renewal), "invalid_evidence")
           res == AppleStore!result(request, "subscription", q.transaction, q.status, q.renewal, t)
           c == <<x1, x2, x3>>
<1>1. r = IF ~ q.ok THEN q ELSE AppleStore!Guarded(c, res)
  BY Zenon DEF AppleStore!subscriptionResult, AppleStore!invalid
<1>2. r.ok
  OBVIOUS
<1>3. q.ok
  <2> HIDE DEF q, r, c, res
  <2>1. QED
    BY <1>1, <1>2
<1>4. /\ row \in Range(ask.server.status.rows) /\ row.status \in 1 .. 5
      /\ q.transaction = row.transaction /\ q.renewal = row.renewal /\ q.status = row.status
  BY <1>3, AppleStatus
<1>5. x1 = "" => AppleStore!validateTransactionScope(request, "subscription", q.transaction, {})
  BY DEF AppleStore!Must
<1>6. x1 = "" /\ r = res
  <2> HIDE DEF q, r, x1, x2, x3, res
  <2>1. c[1] = x1 /\ 1 \in DOMAIN c
    OBVIOUS
  <2> HIDE DEF c
  <2>2. r = Guarded(c, res)
    BY <1>1, <1>3, AppleGuarded
  <2>3. r = res /\ Passed(c)
    BY <1>2, <2>2, Passes, Zenon
  <2>4. QED
    BY <2>1, <2>3 DEF Passed
<1> HIDE DEF row, q, x1, x2, x3
<1> DEFINE o == AppleStore!observation(ask.request, "subscription", row.transaction, row.status, row.renewal, t)
<1>7. r.observations = <<o>> /\ ~ (row.status = 1 /\ row.transaction.expires = << >>)
  <2> HIDE DEF r
  <2>1. res.ok
    BY <1>2, <1>6
  <2>2. res.observations = <<AppleStore!observation(ask.request, "subscription", q.transaction, q.status, q.renewal, t)>>
          /\ ~ (q.status = 1 /\ q.transaction.expires = << >>)
    BY <2>1, AppleResult
  <2> HIDE DEF res
  <2>3. QED
    BY <1>4, <1>6, <2>2
<1>8. AppleStore!productKind(row.transaction.type) = "subscription"
  BY <1>4, <1>5, <1>6 DEF AppleStore!validateTransactionScope
<1>9. row.transaction \in Transactions(ask)
  BY <1>4 DEF Transactions
<1>10. Optional(row.renewal.grace) /\ (row.status = 4 => row.renewal.grace # row.transaction.expires)
  BY <1>4, AnswersAssumption DEF AppleSays
<1>11. Said(ask) = [transaction |-> row.transaction, status |-> row.status, renewal |-> row.renewal]
  BY Zenon DEF Said, AppleRow, row
<1> HIDE DEF o, r
<1>12. AppleSeen(ask, t, o)
  <2>1. ask.request.kind = "subscription"
    OBVIOUS
  <2>2. o = AppleStore!observation(ask.request, ask.request.kind, row.transaction, row.status, row.renewal, t)
    BY DEF o
  <2>3. QED
    BY <1>4, <1>7, <1>8, <1>9, <1>10, <1>11, <2>1, <2>2, Zenon DEF AppleSeen
<1>13. QED
  BY <1>7, <1>12 DEF r

\* A transaction of its own leads to one observation.
LEMMA AppleOnce ==
    ASSUME provider = "apple", NEW ask \in Asks["apple"], NEW request, request.application = ask.request.application,
           ask.request.kind # "subscription", NEW claimed, NEW t,
           AppleStore!validateTransactionScope(request, ask.request.kind, ask.server.transaction, claimed),
           AppleStore!result(request, ask.request.kind, ask.server.transaction, 0, << >>, t).ok
    PROVE  \E o : /\ AppleSeen(ask, t, o)
                  /\ AppleStore!result(request, ask.request.kind, ask.server.transaction, 0, << >>, t).observations = <<o>>
<1> DEFINE o == AppleStore!observation(ask.request, ask.request.kind, ask.server.transaction, 0, << >>, t)
<1>1. AppleStore!result(request, ask.request.kind, ask.server.transaction, 0, << >>, t).observations = <<o>>
  <2>1. ASSUME NEW kind, NEW tr, NEW none, NEW zero, none = << >>, zero = 0, kind = ask.request.kind, tr = ask.server.transaction
        PROVE  AppleStore!result(request, kind, tr, zero, none, t).observations
                 = <<AppleStore!observation(ask.request, kind, tr, zero, none, t)>>
    <3>1. AppleStore!result(request, kind, tr, zero, none, t).ok
      BY <2>1
    <3>2. QED
      BY <3>1, AppleResult
  <2>2. QED
    BY <2>1
<1>2. AppleStore!productKind(ask.server.transaction.type) = ask.request.kind
  BY DEF AppleStore!validateTransactionScope
<1>3. ask.server.transaction \in Transactions(ask)
  BY DEF Transactions
<1>4. Said(ask) = [transaction |-> ask.server.transaction, status |-> 0]
  BY DEF Said
<1>5. AppleSeen(ask, t, o)
  BY <1>2, <1>3, <1>4, Zenon DEF AppleSeen
<1> HIDE DEF o
<1>6. QED
  BY <1>1, <1>5

LEMMA AppleQuery ==
    ASSUME NEW server, AppleStore!query(server).ok
    PROVE  AppleStore!query(server).transaction = server.transaction
<1> DEFINE q == AppleStore!query(server)
           good == [ok |-> TRUE, transaction |-> server.transaction]
<1>1. PICK c : q = Guarded(c, good)
  BY AppleGuarded, Zenon DEF AppleStore!query
<1>2. q.ok
  OBVIOUS
<1> HIDE DEF q
<1>3. q = good
  <2> HIDE DEF good
  <2>1. QED
    BY <1>1, <1>2, Passes, Zenon
<1>4. QED
  BY <1>3 DEF q

\* A verification that succeeds reports one observation of the answer.
LEMMA AppleVerified ==
    ASSUME provider = "apple", NEW ask \in Asks["apple"], NEW t, AppleStore!Verify(ask.request, ask.server, t).ok
    PROVE  \E o : AppleSeen(ask, t, o) /\ AppleStore!Verify(ask.request, ask.server, t).observations = <<o>>
<1> DEFINE request == ask.request
           submitted == ask.request.transaction
           r == AppleStore!Verify(request, ask.server, t)
           q == AppleStore!query(ask.server)
           sub == AppleStore!subscriptionResult(request, submitted.original, submitted.account, ask.server.status, t)
           x1 == AppleStore!Must(AppleStore!validateTransactionScope(request, request.kind, q.transaction, request.claimed), "invalid_evidence")
           x2 == AppleStore!Must(AppleStore!compareTransactions(submitted, q.transaction), "invalid_evidence")
           c == <<x1, x2>>
           res == AppleStore!result(request, request.kind, q.transaction, 0, << >>, t)
           once == IF ~ q.ok THEN q ELSE AppleStore!Guarded(c, res)
           body == IF request.kind = "subscription" THEN sub ELSE once
<1>1. PICK d : r = Guarded(d, body)
  BY AppleGuarded, Zenon DEF AppleStore!Verify, AppleStore!invalid
<1>2. r.ok
  OBVIOUS
<1>3. r = body
  <2> HIDE DEF r, body
  <2>1. QED
    BY <1>1, <1>2, Passes, Zenon
<1>4. CASE request.kind = "subscription"
  <2> HIDE DEF r, once
  <2>1. r = sub
    BY <1>3, <1>4
  <2>2. sub.ok
    BY <1>2, <2>1
  <2>3. \E o : AppleSeen(ask, t, o) /\ sub.observations = <<o>>
    BY <1>4, <2>2, AppleSubscription
  <2> HIDE DEF sub
  <2>4. QED
    BY <2>1, <2>3 DEF r
<1>5. CASE request.kind # "subscription"
  <2>1. x1 = "" => AppleStore!validateTransactionScope(request, request.kind, q.transaction, request.claimed)
    BY DEF AppleStore!Must
  <2> HIDE DEF r, sub, x1, x2
  <2>2. r = once
    BY <1>3, <1>5
  <2>3. c[1] = x1 /\ 1 \in DOMAIN c
    OBVIOUS
  <2>4. q.ok /\ r = Guarded(c, res)
    <3> HIDE DEF c, res, q
    <3>1. QED
      BY <1>2, <2>2, AppleGuarded
  <2>5. r = res /\ Passed(c)
    <3> HIDE DEF c, res
    <3>1. QED
      BY <1>2, <2>4, Passes, Zenon
  <2>6. x1 = ""
    <3> HIDE DEF c
    <3>1. QED
      BY <2>3, <2>5 DEF Passed
  <2>7. q.transaction = ask.server.transaction
    BY <2>4, AppleQuery
  <2> HIDE DEF q
  <2>8. res.ok
    BY <1>2, <2>5
  <2>9. \E o : AppleSeen(ask, t, o) /\ res.observations = <<o>>
    BY <1>5, <2>1, <2>6, <2>7, <2>8, AppleOnce
  <2> HIDE DEF res
  <2>10. QED
    BY <2>5, <2>9 DEF r
<1>6. QED
  BY <1>4, <1>5

\* And so does a reconciliation.
LEMMA AppleReconciled ==
    ASSUME provider = "apple", NEW ask \in Asks["apple"], NEW request, NEW t,
           request.application = ask.request.application, request.kind = ask.request.kind,
           AppleStore!Reconcile(request, ask.server, t).ok
    PROVE  \E o : AppleSeen(ask, t, o) /\ AppleStore!Reconcile(request, ask.server, t).observations = <<o>>
<1> DEFINE r == AppleStore!Reconcile(request, ask.server, t)
           q == AppleStore!query(ask.server)
           sub == AppleStore!subscriptionResult(request, q.transaction.original, "", ask.server.status, t)
           res == AppleStore!result(request, request.kind, q.transaction, 0, << >>, t)
           x1 == AppleStore!Must(AppleStore!productKind(q.transaction.type) = request.kind, "invalid_evidence")
           x2 == AppleStore!Must(AppleStore!validateTransactionScope(request, request.kind, q.transaction, request.claimed), "invalid_evidence")
           c == <<x1, x2>>
           inner == IF request.kind = "subscription" THEN sub ELSE res
           body == IF ~ q.ok THEN q ELSE AppleStore!Guarded(c, inner)
<1>1. PICK d : r = Guarded(d, body)
  BY AppleGuarded, Zenon DEF AppleStore!Reconcile, AppleStore!invalid
<1>2. r.ok
  OBVIOUS
<1>3. r = body
  <2> HIDE DEF r, body
  <2>1. QED
    BY <1>1, <1>2, Passes, Zenon
<1>4. q.ok /\ r = Guarded(c, inner)
  <2> HIDE DEF r, q, c, inner
  <2>1. QED
    BY <1>2, <1>3, AppleGuarded
<1>5. r = inner /\ Passed(c)
  <2> HIDE DEF r, q, c, inner
  <2>1. QED
    BY <1>2, <1>4, Passes, Zenon
<1>6. x2 = ""
  <2> HIDE DEF x1, x2
  <2>1. c[2] = x2 /\ 2 \in DOMAIN c
    OBVIOUS
  <2> HIDE DEF c
  <2>2. QED
    BY <1>5, <2>1 DEF Passed
<1>7. q.transaction = ask.server.transaction
  BY <1>4, AppleQuery
<1>8. AppleStore!validateTransactionScope(request, request.kind, q.transaction, request.claimed)
  BY <1>6 DEF AppleStore!Must
<1> HIDE DEF q, c, x1, x2
<1>9. CASE request.kind = "subscription"
  <2>1. q.transaction.original = ask.request.transaction.original
    BY <1>7, AnswersAssumption DEF AppleSays
  <2> HIDE DEF r, res
  <2>2. r = sub
    BY <1>5, <1>9
  <2>3. sub.ok
    BY <1>2, <2>2
  <2>4. \E o : AppleSeen(ask, t, o) /\ sub.observations = <<o>>
    BY <1>9, <2>1, <2>3, AppleSubscription
  <2> HIDE DEF sub
  <2>5. QED
    BY <2>2, <2>4 DEF r
<1>10. CASE request.kind # "subscription"
  <2> HIDE DEF r, sub
  <2>1. r = res
    BY <1>5, <1>10
  <2>2. res.ok
    BY <1>2, <2>1
  <2>3. \E o : AppleSeen(ask, t, o) /\ res.observations = <<o>>
    BY <1>7, <1>8, <1>10, <2>2, AppleOnce
  <2> HIDE DEF res
  <2>4. QED
    BY <2>1, <2>3 DEF r
<1>11. QED
  BY <1>9, <1>10

--------------------------------------------------------------------------------
(* Huawei.                                                                   *)

HuaweiRenew(kind, p) == IF kind # "subscription" THEN "not_applicable" ELSE IF p.renew = 1 THEN "enabled" ELSE "disabled"

HuaweiEnd(p, grace) == IF grace # << >> THEN grace ELSE IF p.expires > 0 THEN <<p.expires>> ELSE << >>

HuaweiSnapshot(kind, p, access, grace) ==
    [product |-> p.product, kind |-> kind, state |-> access[1], provider |-> HuaweiStore!ToString(p.state),
     access |-> access[2], reason |-> access[3], family |-> FALSE,
     occurred |-> <<p.purchased>>, start |-> <<p.purchased>>, end |-> HuaweiEnd(p, grace),
     mode |-> IF kind = "subscription" THEN "auto" ELSE "none", renew |-> HuaweiRenew(kind, p),
     next |-> "", nextAt |-> << >>]

HuaweiReferences(p) ==
    HuaweiStore!References({<<"transaction", "order_id", p.order>>, <<"query", "purchase_token", p.token>>,
                            <<"query", "subscription_id", p.subscription>>,
                            <<"customer_binding", "developer_payload", p.payload>>})

HuaweiAccess(kind, p, t) == HuaweiStore!normalizeState(kind, p, t)
HuaweiGrace(kind, p, t) == HuaweiStore!graceEnd(kind, p, HuaweiAccess(kind, p, t)[2], t)

LEMMA HuaweiObserved ==
    ASSUME NEW application, NEW kind, NEW p, NEW t, NEW o, o = HuaweiStore!observation(application, kind, p, t)
    PROVE  /\ o.snapshot = HuaweiSnapshot(kind, p, HuaweiAccess(kind, p, t), HuaweiGrace(kind, p, t))
           /\ o.id = HuaweiStore!observationSnapshotIdentity(application, kind, p, HuaweiAccess(kind, p, t),
                                                              HuaweiRenew(kind, p), HuaweiGrace(kind, p, t))
           /\ o.prior = << >> /\ o.price = <<p.price * 10>> /\ o.at = 2 * t /\ o.refs = HuaweiReferences(p)
<1> DEFINE access == HuaweiAccess(kind, p, t)
           grace == HuaweiGrace(kind, p, t)
           s == HuaweiSnapshot(kind, p, access, grace)
           id == HuaweiStore!observationSnapshotIdentity(application, kind, p, access, HuaweiRenew(kind, p), grace)
           price == <<p.price * 10>>
           refs == HuaweiReferences(p)
<1>1. o = [id |-> id, prior |-> << >>, application |-> application.id, snapshot |-> s, price |-> price,
           at |-> HuaweiStore!Sighting(t), refs |-> refs]
  BY Zenon DEF HuaweiStore!observation, HuaweiAccess, HuaweiGrace, HuaweiSnapshot, HuaweiEnd, HuaweiRenew, HuaweiReferences
<1> HIDE DEF s, id, price, refs
<1>2. o.snapshot = s /\ o.id = id /\ o.prior = << >> /\ o.price = price /\ o.at = 2 * t /\ o.refs = refs
  BY <1>1 DEF HuaweiStore!Sighting
<1>3. QED
  BY <1>2 DEF s, id, price, refs

LEMMA HuaweiShows ==
    ASSUME NEW kind, NEW p, NEW access, NEW grace
    PROVE  LET s == HuaweiSnapshot(kind, p, access, grace)
           IN  s.product = p.product /\ s.access = access[2] /\ s.end = HuaweiEnd(p, grace)
<1> DEFINE product == p.product
           string == HuaweiStore!ToString(p.state)
           mode == IF kind = "subscription" THEN "auto" ELSE "none"
           at == <<p.purchased>>
           end == HuaweiEnd(p, grace)
           renew == HuaweiRenew(kind, p)
           s == HuaweiSnapshot(kind, p, access, grace)
<1>1. s = [product |-> product, kind |-> kind, state |-> access[1], provider |-> string,
           access |-> access[2], reason |-> access[3], family |-> FALSE,
           occurred |-> at, start |-> at, end |-> end, mode |-> mode, renew |-> renew, next |-> "", nextAt |-> << >>]
  BY Zenon DEF HuaweiSnapshot
<1> HIDE DEF s, product, string, mode, at, end, renew
<1>2. s.product = product /\ s.access = access[2] /\ s.end = end
  BY <1>1
<1>3. QED
  BY <1>2 DEF s, product, end

LEMMA HuaweiAnswersAre ==
    ASSUME NEW ask \in Asks["huawei"]
    PROVE  /\ DOMAIN ask.server.purchase = PurchaseDataFields
           /\ ask.server.purchase.expires \in Nat /\ ask.server.purchase.grace \in Nat /\ ask.server.purchase.cancel \in Nat
           /\ ask.server.purchase.grace = 0 \/ ask.server.purchase.grace > ask.server.purchase.expires
           /\ ask.request.kind \in {"subscription", "non_consumable"}
           /\ ask.request.kind # "subscription" => ask.server.purchase.expires = 0
BY AnswersAssumption DEF HuaweiSays

\* An identity stands for one snapshot.
LEMMA HuaweiDetermined ==
    ASSUME NEW a \in Asks["huawei"], NEW b \in Asks["huawei"], NEW t, NEW u, NEW o, NEW p,
           HuaweiSeen(a, t, o), HuaweiSeen(b, u, p), o.id = p.id
    PROVE  o.snapshot = p.snapshot /\ o.refs = p.refs /\ o.price = p.price
<1> DEFINE v == a.server.purchase
           w == b.server.purchase
           k == a.request.kind
           l == b.request.kind
           d == HuaweiAccess(k, v, t)
           e == HuaweiAccess(l, w, u)
           g == HuaweiGrace(k, v, t)
           h == HuaweiGrace(l, w, u)
           cleared(x) == [x EXCEPT !.subscription = "", !.signed = TRUE]
<1>1. /\ o.snapshot = HuaweiSnapshot(k, v, d, g) /\ o.refs = HuaweiReferences(v) /\ o.price = <<v.price * 10>>
      /\ o.id = HuaweiStore!observationSnapshotIdentity(a.request.application, k, v, d, HuaweiRenew(k, v), g)
  BY HuaweiObserved DEF HuaweiSeen
<1>2. /\ p.snapshot = HuaweiSnapshot(l, w, e, h) /\ p.refs = HuaweiReferences(w) /\ p.price = <<w.price * 10>>
      /\ p.id = HuaweiStore!observationSnapshotIdentity(b.request.application, l, w, e, HuaweiRenew(l, w), h)
  BY HuaweiObserved DEF HuaweiSeen
<1>3. DOMAIN v = PurchaseDataFields /\ DOMAIN w = PurchaseDataFields
  BY HuaweiAnswersAre
<1>4. v.token = w.token => v.subscription = w.subscription
  BY AnswersAssumption
<1> HIDE DEF v, w, k, l, d, e, g, h
<1>5. k = l /\ cleared(v) = cleared(w) /\ d = e /\ g = h
  <2>1. /\ o.id.kind = k /\ o.id.p = cleared(v) /\ o.id.access = d /\ o.id.graceEnd = g
    BY <1>1 DEF HuaweiStore!observationSnapshotIdentity
  <2>2. /\ p.id.kind = l /\ p.id.p = cleared(w) /\ p.id.access = e /\ p.id.graceEnd = h
    BY <1>2 DEF HuaweiStore!observationSnapshotIdentity
  <2> HIDE DEF cleared
  <2>3. QED
    BY <2>1, <2>2
<1>6. \A x \in PurchaseDataFields \ {"subscription", "signed"} : v[x] = w[x]
  <2>1. \A x \in PurchaseDataFields \ {"subscription", "signed"} : cleared(v)[x] = v[x] /\ cleared(w)[x] = w[x]
    BY <1>3
  <2>2. QED
    BY <1>5, <2>1
<1>7. /\ v.product = w.product /\ v.token = w.token /\ v.order = w.order /\ v.state = w.state
      /\ v.purchased = w.purchased /\ v.expires = w.expires /\ v.renew = w.renew
      /\ v.payload = w.payload /\ v.price = w.price
  BY <1>6 DEF PurchaseDataFields
<1>8. HuaweiReferences(v) = HuaweiReferences(w)
  BY <1>4, <1>7, Zenon DEF HuaweiReferences
<1>9. HuaweiSnapshot(k, v, d, g) = HuaweiSnapshot(l, w, e, h)
  BY <1>5, <1>7, Zenon DEF HuaweiSnapshot, HuaweiEnd, HuaweiRenew
<1>10. QED
  BY <1>1, <1>2, <1>7, <1>8, <1>9

\* What is read of an observation later, the answer grants then, and what it
\* grants right away is read.
LEMMA HuaweiServes ==
    ASSUME provider = "huawei", NEW ask \in Asks["huawei"], NEW t \in Nat, NEW o, HuaweiSeen(ask, t, o)
    PROVE  /\ \A u \in Nat : t <= u /\ AccessAt(o.snapshot.access, o.snapshot.end, u) = "allowed" =>
                 HuaweiStore!StoreGrants(Said(ask), o.snapshot.product, u)
           /\ HuaweiStore!StoreGrants(Said(ask), o.snapshot.product, t) =>
                 AccessAt(o.snapshot.access, o.snapshot.end, t) = "allowed"
<1> DEFINE kind == ask.request.kind
           p == ask.server.purchase
           d == HuaweiAccess(kind, p, t)
           g == HuaweiGrace(kind, p, t)
<1>1. o.snapshot = HuaweiSnapshot(kind, p, d, g)
  BY HuaweiObserved DEF HuaweiSeen
<1>2. Said(ask) = [kind |-> kind, purchase |-> p]
  BY DEF Said
<1>3. /\ p.expires \in Nat /\ p.grace \in Nat /\ p.cancel \in Nat
      /\ p.grace = 0 \/ p.grace > p.expires
      /\ kind \in {"subscription", "non_consumable"} /\ (kind # "subscription" => p.expires = 0)
  BY HuaweiAnswersAre
<1>4. o.snapshot.product = p.product /\ o.snapshot.access = d[2] /\ o.snapshot.end = HuaweiEnd(p, g)
  <2> HIDE DEF d, g, p, kind
  <2>1. QED
    BY <1>1, HuaweiShows
<1> HIDE DEF kind, p
<1> DEFINE live(u) == (p.retry = 1 /\ p.grace > u) \/ (p.valid /\ p.expires > u)
           grants(u) == IF kind = "non_consumable" THEN p.state = 0 ELSE p.state \in {0, 2} /\ p.cancel <= 0 /\ live(u)
<1>5. \A u : HuaweiStore!StoreGrants(Said(ask), o.snapshot.product, u) <=> grants(u)
  BY <1>2, <1>4 DEF HuaweiStore!StoreGrants
<1>6. CASE kind = "non_consumable"
  <2>1. d[2] = "allowed" <=> p.state = 0
    BY <1>6 DEF HuaweiAccess, HuaweiStore!normalizeState
  <2>2. g = << >>
    BY <1>6 DEF HuaweiGrace, HuaweiStore!graceEnd
  <2>3. HuaweiEnd(p, g) = << >>
    BY <1>3, <1>6, <2>2 DEF HuaweiEnd
  <2> HIDE DEF d, g
  <2>4. QED
    BY <1>4, <1>5, <1>6, <2>1, <2>3 DEF AccessAt
<1>7. CASE kind = "subscription"
  <2>1. d[2] = "allowed" <=> p.state \in {0, 2} /\ p.cancel <= 0 /\ live(t)
    BY <1>3, <1>7 DEF HuaweiAccess, HuaweiStore!normalizeState, HuaweiStore!InGrace, HuaweiStore!Running
  <2>2. CASE d[2] # "allowed"
    <3> HIDE DEF d, g
    <3>1. QED
      BY <1>4, <1>5, <1>7, <2>1, <2>2 DEF AccessAt
  <2>3. CASE d[2] = "allowed"
    <3>1. g = IF p.retry = 1 /\ p.grace > t THEN <<p.grace>> ELSE << >>
      BY <1>3, <1>7, <2>3 DEF HuaweiGrace, HuaweiStore!graceEnd, HuaweiStore!InGrace
    <3>2. CASE p.retry = 1 /\ p.grace > t
      <4>1. HuaweiEnd(p, g) = <<p.grace>>
        BY <3>1, <3>2 DEF HuaweiEnd
      <4>2. \A u \in Nat : AccessAt(d[2], HuaweiEnd(p, g), u) = "allowed" <=> p.grace > u
        BY <2>3, <4>1 DEF AccessAt, After
      <4> HIDE DEF d, g
      <4>3. QED
        BY <1>4, <1>5, <1>7, <2>1, <2>3, <3>2, <4>2
    <3>3. CASE ~ (p.retry = 1 /\ p.grace > t)
      <4>1. p.valid /\ p.expires > t
        BY <2>1, <2>3, <3>3
      <4>2. HuaweiEnd(p, g) = <<p.expires>>
        BY <1>3, <3>1, <3>3, <4>1 DEF HuaweiEnd
      <4>3. \A u \in Nat : AccessAt(d[2], HuaweiEnd(p, g), u) = "allowed" <=> p.expires > u
        BY <2>3, <4>2 DEF AccessAt, After
      <4> HIDE DEF d, g
      <4>4. QED
        BY <1>4, <1>5, <1>7, <2>1, <2>3, <4>1, <4>3
    <3>4. QED
      BY <3>2, <3>3
  <2>4. QED
    BY <2>2, <2>3
<1>8. QED
  BY <1>3, <1>6, <1>7

LEMMA HuaweiResult ==
    ASSUME NEW application, NEW kind, NEW p, NEW t, HuaweiStore!result(application, kind, p, t).ok
    PROVE  HuaweiStore!result(application, kind, p, t).observations = <<HuaweiStore!observation(application, kind, p, t)>>
<1> DEFINE r == HuaweiStore!result(application, kind, p, t)
           seen == HuaweiStore!observation(application, kind, p, t)
           good == [ok |-> TRUE, observations |-> <<seen>>, named |-> {}, actions |-> {}]
<1>1. PICK c : r = Guarded(c, good)
  BY HuaweiGuarded, Zenon DEF HuaweiStore!result
<1>2. r.ok
  OBVIOUS
<1> HIDE DEF r, seen
<1>3. r = good
  <2> HIDE DEF good
  <2>1. QED
    BY <1>1, <1>2, Passes, Zenon
<1>4. QED
  BY <1>3 DEF r, seen

LEMMA HuaweiQuery ==
    ASSUME NEW server, HuaweiStore!query(server).ok
    PROVE  HuaweiStore!query(server).purchase = server.purchase
<1> DEFINE q == HuaweiStore!query(server)
           good == [ok |-> TRUE, purchase |-> server.purchase]
<1>1. PICK c : q = Guarded(c, good)
  BY HuaweiGuarded, Zenon DEF HuaweiStore!query
<1>2. q.ok
  OBVIOUS
<1> HIDE DEF q
<1>3. q = good
  <2> HIDE DEF good
  <2>1. QED
    BY <1>1, <1>2, Passes, Zenon
<1>4. QED
  BY <1>3 DEF q

\* A verification or a reconciliation that succeeds reports the answer.
LEMMA HuaweiAnswered ==
    ASSUME NEW ask \in Asks["huawei"], NEW request, NEW t, NEW r,
           request.application = ask.request.application, request.kind = ask.request.kind,
           r = HuaweiStore!Verify(request, ask.server, t) \/ r = HuaweiStore!Reconcile(request, ask.server, t), r.ok
    PROVE  \E o : HuaweiSeen(ask, t, o) /\ r.observations = <<o>>
<1> DEFINE q == HuaweiStore!query(ask.server)
           res == HuaweiStore!result(request.application, request.kind, q.purchase, t)
<1>1. \E c, d : r = HuaweiStore!Guarded(c, IF ~ q.ok THEN q ELSE HuaweiStore!Guarded(d, res))
  <2>1. CASE r = HuaweiStore!Verify(request, ask.server, t)
    BY <2>1, Zenon DEF HuaweiStore!Verify
  <2>2. CASE r = HuaweiStore!Reconcile(request, ask.server, t)
    BY <2>2, Zenon DEF HuaweiStore!Reconcile
  <2>3. QED
    BY <2>1, <2>2
<1>2. PICK c, d : r = HuaweiStore!Guarded(c, IF ~ q.ok THEN q ELSE HuaweiStore!Guarded(d, res))
  BY <1>1
<1>3. r = IF ~ q.ok THEN q ELSE Guarded(d, res)
  <2> DEFINE body == IF ~ q.ok THEN q ELSE Guarded(d, res)
  <2>1. r = Guarded(c, body)
    BY <1>2, HuaweiGuarded, Zenon
  <2> HIDE DEF body
  <2>2. r = body
    BY <2>1, Passes, Zenon
  <2>3. QED
    BY <2>2 DEF body
<1>4. q.ok /\ r = Guarded(d, res)
  <2> HIDE DEF q, res
  <2>1. QED
    BY <1>3
<1>5. q.purchase = ask.server.purchase
  BY <1>4, HuaweiQuery
<1>6. r = res
  <2> HIDE DEF q, res
  <2>1. QED
    BY <1>4, Passes, Zenon
<1> HIDE DEF q
<1> DEFINE o == HuaweiStore!observation(request.application, request.kind, q.purchase, t)
<1>7. r.observations = <<o>>
  <2>1. res.ok
    BY <1>6
  <2>2. res.observations = <<o>>
    BY <2>1, HuaweiResult
  <2> HIDE DEF o, res
  <2>3. QED
    BY <1>6, <2>2
<1>8. HuaweiSeen(ask, t, o)
  BY <1>5 DEF HuaweiSeen
<1> HIDE DEF o
<1>9. QED
  BY <1>7, <1>8

--------------------------------------------------------------------------------
(* Google Play.                                                              *)

\* What the selection of items means: the current item is the only one of its
\* product, and the item it replaced has ended.
Selection(items, counted, pending, replaced, t) ==
    /\ counted \in Range(items)
    /\ \A i \in Range(items) : i.product = counted.product => i = counted
    /\ pending # << >> => pending[1] \in Range(items)
    /\ replaced # << >> =>
         /\ Len(items) = 2 /\ replaced[1].product # counted.product
         /\ \A i \in Range(items) : i.product = replaced[1].product => ~ After(i.expiry, t)

LEMMA GoogleSelects ==
    ASSUME NEW items, items \in Seq(Range(items)), NEW t, GoogleStore!selectSubscriptionItems(items, t) # << >>
    PROVE  \E counted, pending, replaced :
             /\ GoogleStore!selectSubscriptionItems(items, t)
                  = <<[current |-> counted, pending |-> pending, replaced |-> replaced]>>
             /\ Selection(items, counted, pending, replaced, t)
             /\ replaced = << >> \/ replaced = <<replaced[1]>>
<1> DEFINE one(counted) == <<[current |-> counted, pending |-> << >>, replaced |-> << >>]>>
           deferring == {i \in DOMAIN items : items[i].deferred # << >>}
           counted == IF 1 \in deferring THEN items[1] ELSE items[2]
           next == IF 1 \in deferring THEN items[2] ELSE items[1]
           later == GoogleStore!Value(items[1].expiry) > GoogleStore!Value(items[2].expiry)
           old == IF later THEN items[2] ELSE items[1]
           new == IF later THEN items[1] ELSE items[2]
           deferred == <<[current |-> counted, pending |-> <<next>>, replaced |-> << >>]>>
           replaced == <<[current |-> new, pending |-> << >>, replaced |-> <<old>>]>>
           refused == \/ next.product \in {"", counted.product} \/ counted.deferred # <<next.product>>
                      \/ next.deferred # << >> \/ counted.expiry = << >> \/ next.expiry # << >>
           mixed == \/ old.product \in {"", new.product} \/ old.expiry = << >>
                    \/ GoogleStore!Value(old.expiry) >= GoogleStore!Value(new.expiry) \/ GoogleStore!After(old.expiry, t)
                    \/ "auto" \in old.plans /\ old.auto
                    \/ new.replacement # << >> /\ new.replacement # <<old.product>>
           sel == GoogleStore!selectSubscriptionItems(items, t)
<1>1. sel = CASE Len(items) = 1 -> one(items[1])
              [] Len(items) = 2 /\ deferring # {} -> IF refused THEN << >> ELSE deferred
              [] Len(items) = 2 /\ deferring = {} -> IF mixed THEN << >> ELSE replaced
              [] OTHER -> << >>
  BY Zenon DEF GoogleStore!selectSubscriptionItems
<1>2. Len(items) \in Nat /\ DOMAIN items = 1 .. Len(items)
  OBVIOUS
<1>3. refused \/ next.product # counted.product
  OBVIOUS
<1>4. mixed \/ (old.product # new.product /\ ~ After(old.expiry, t))
  BY DEF After, GoogleStore!After
<1> HIDE DEF refused, mixed
<1>5. CASE Len(items) = 1
  <2>1. sel = one(items[1])
    BY <1>1, <1>5
  <2>2. Range(items) = {items[1]}
    BY <1>2, <1>5 DEF Range
  <2>3. Selection(items, items[1], << >>, << >>, t)
    BY <2>2 DEF Selection
  <2>4. QED
    BY <2>1, <2>3
<1>6. CASE Len(items) = 2 /\ deferring # {}
  <2> HIDE DEF deferring
  <2>1. sel = IF refused THEN << >> ELSE deferred
    BY <1>1, <1>6
  <2>2. ~ refused
    BY <2>1
  <2>3. Range(items) = {items[1], items[2]}
    BY <1>2, <1>6 DEF Range
  <2>4. Range(items) = {counted, next}
    BY <2>3
  <2>5. <<next>>[1] = next
    <3> HIDE DEF next
    <3>1. QED
      OBVIOUS
  <2>6. Selection(items, counted, <<next>>, << >>, t)
    <3> HIDE DEF counted, next
    <3>1. QED
      BY <1>3, <2>2, <2>4, <2>5 DEF Selection
  <2> HIDE DEF counted, next
  <2>7. QED
    BY <2>1, <2>2, <2>6
<1>7. CASE Len(items) = 2 /\ deferring = {}
  <2> HIDE DEF deferring
  <2>1. sel = IF mixed THEN << >> ELSE replaced
    BY <1>1, <1>7
  <2>2. ~ mixed
    BY <2>1
  <2>3. Range(items) = {items[1], items[2]}
    BY <1>2, <1>7 DEF Range
  <2>4. Range(items) = {old, new}
    <3> HIDE DEF later
    <3>1. QED
      BY <2>3
  <2> HIDE DEF old, new
  <2>5. Selection(items, new, << >>, <<old>>, t)
    <3>1. <<old>>[1] = old
      OBVIOUS
    <3>2. QED
      BY <1>4, <1>7, <2>2, <2>4, <3>1 DEF Selection
  <2>6. <<old>> = <<(<<old>>)[1]>>
    OBVIOUS
  <2>7. QED
    BY <2>1, <2>2, <2>5, <2>6
<1>8. CASE Len(items) \notin {1, 2}
  BY <1>1, <1>8
<1>9. QED
  BY <1>5, <1>6, <1>7, <1>8

\* A purchase that is no subscription, as productObservations writes it.
GoogleOnce(application, token, purchase, item, at) ==
    LET access == GoogleStore!normalizeProductState(purchase.state)
    IN  GoogleStore!Observation(
          application, GoogleStore!productObservationIdentity(application, token, purchase, item, access),
          GoogleStore!Snapshot(item.product, "non_consumable", purchase.state, access, purchase.completed,
                               IF access[1] = "pending" THEN << >> ELSE purchase.completed, << >>,
                               GoogleStore!Renewal("none", "not_applicable")),
          at, GoogleStore!googleReferences(token, purchase.order, "", purchase.account))

\* Google's observation of the item that counts now, and of the item it replaced.
GoogleCurrent(ask, t, o) ==
    LET p == ask.server.purchase
    IN  IF ask.request.kind = "subscription"
        THEN \E token, renewal : \E item \in Range(p.items) :
               /\ o = GoogleStore!currentObservation(ask.request.application, token, p, item, renewal, 2 * t)
               /\ renewal.nextAt = << >> /\ GoogleStore!ObservationValid(o)
               /\ \A i \in Range(p.items) : i.product = item.product => i = item
        ELSE \E token : o = GoogleOnce(ask.request.application, token, p, p.items[1], 2 * t)

GoogleEnded(ask, t, o) ==
    /\ ask.request.kind = "subscription"
    /\ \E token, item :
         /\ o = GoogleStore!replacedItemObservation(ask.request.application, token, ask.server.purchase, item, 2 * t)
         /\ \A i \in Range(ask.server.purchase.items) : i.product = item.product => ~ After(i.expiry, t)

LEMMA GoogleObserved ==
    ASSUME NEW application, NEW id, NEW s, NEW at, NEW refs, NEW o, o = GoogleStore!Observation(application, id, s, at, refs)
    PROVE  o.id = id /\ o.prior = << >> /\ o.snapshot = s /\ o.price = << >> /\ o.at = at /\ o.refs = refs
BY DEF GoogleStore!Observation

\* The parts of an item's snapshot.
LEMMA GoogleShows ==
    ASSUME NEW product, NEW kind, NEW state, NEW access, NEW occurred, NEW start, NEW end, NEW renewal
    PROVE  LET s == GoogleStore!Snapshot(product, kind, state, access, occurred, start, end, renewal)
           IN  s.product = product /\ s.kind = kind /\ s.access = access[2] /\ s.end = end
BY DEF GoogleStore!Snapshot

GoogleCleared(p) == GoogleStore!normalizeSubscriptionState(p.state)[1] \in {"pending", "revoked"}
GoogleStart(p) == IF GoogleCleared(p) THEN << >> ELSE p.start
GoogleEnd(p, item) == IF GoogleCleared(p) THEN << >> ELSE item.expiry
GoogleOrder(p, item) == IF item.order = "" THEN p.order ELSE item.order
GoogleOnceStart(p) == IF GoogleStore!normalizeProductState(p.state)[1] = "pending" THEN << >> ELSE p.completed

LEMMA GoogleCurrentIs ==
    ASSUME NEW application, NEW token, NEW p, NEW item, NEW renewal, NEW at, NEW o,
           o = GoogleStore!currentObservation(application, token, p, item, renewal, at)
    PROVE  LET access == GoogleStore!normalizeSubscriptionState(p.state)
           IN  /\ o.id = GoogleStore!subscriptionObservationIdentity(application, token, p, item, access, renewal)
               /\ o.snapshot = GoogleStore!Snapshot(item.product, "subscription", p.state, access, GoogleStart(p), GoogleStart(p),
                                                    GoogleEnd(p, item), renewal)
               /\ o.refs = GoogleStore!googleReferences(token, GoogleOrder(p, item), p.linked, p.account)
               /\ o.prior = << >> /\ o.price = << >> /\ o.at = at
<1> DEFINE access == GoogleStore!normalizeSubscriptionState(p.state)
           id == GoogleStore!subscriptionObservationIdentity(application, token, p, item, access, renewal)
           s == GoogleStore!Snapshot(item.product, "subscription", p.state, access, GoogleStart(p), GoogleStart(p),
                                     GoogleEnd(p, item), renewal)
           refs == GoogleStore!googleReferences(token, GoogleOrder(p, item), p.linked, p.account)
<1>1. o = GoogleStore!Observation(application, id, s, at, refs)
  BY Zenon DEF GoogleStore!currentObservation, GoogleCleared, GoogleStart, GoogleEnd, GoogleOrder
<1> HIDE DEF id, s, refs
<1>2. o.id = id /\ o.prior = << >> /\ o.snapshot = s /\ o.price = << >> /\ o.at = at /\ o.refs = refs
  BY <1>1, GoogleObserved
<1>3. QED
  BY <1>2, Zenon DEF id, s, refs

GoogleEndedEnd(p, item) ==
    IF p.start # << >> /\ GoogleStore!After(item.expiry, p.start[1]) THEN item.expiry ELSE << >>

LEMMA GoogleEndedIs ==
    ASSUME NEW application, NEW token, NEW p, NEW item, NEW at, NEW o,
           o = GoogleStore!replacedItemObservation(application, token, p, item, at)
    PROVE  LET renewal == GoogleStore!subscriptionRenewal(item)
           IN  /\ o.id = GoogleStore!replacedItemObservationIdentity(application, token, p, item, renewal)
               /\ o.snapshot = GoogleStore!Snapshot(item.product, "subscription", "EXPIRED", GoogleStore!normalizeSubscriptionState("EXPIRED"),
                                                    p.start, p.start, GoogleEndedEnd(p, item), renewal)
               /\ o.refs = GoogleStore!googleReferences(token, item.order, p.linked, p.account)
               /\ o.prior = << >> /\ o.price = << >> /\ o.at = at - 1
<1> DEFINE renewal == GoogleStore!subscriptionRenewal(item)
           id == GoogleStore!replacedItemObservationIdentity(application, token, p, item, renewal)
           s == GoogleStore!Snapshot(item.product, "subscription", "EXPIRED", GoogleStore!normalizeSubscriptionState("EXPIRED"),
                                     p.start, p.start, GoogleEndedEnd(p, item), renewal)
           refs == GoogleStore!googleReferences(token, item.order, p.linked, p.account)
           before == at - 1
<1>1. o = GoogleStore!Observation(application, id, s, before, refs)
  BY Zenon DEF GoogleStore!replacedItemObservation, GoogleEndedEnd
<1> HIDE DEF id, s, refs, before
<1>2. o.id = id /\ o.prior = << >> /\ o.snapshot = s /\ o.price = << >> /\ o.at = before /\ o.refs = refs
  BY <1>1, GoogleObserved
<1>3. QED
  BY <1>2, Zenon DEF id, s, refs, before

GoogleOnceReferences(token, p) == GoogleStore!googleReferences(token, p.order, "", p.account)
GoogleOnceSnapshot(p, item) ==
    GoogleStore!Snapshot(item.product, "non_consumable", p.state, GoogleStore!normalizeProductState(p.state), p.completed,
                         GoogleOnceStart(p), << >>, GoogleStore!Renewal("none", "not_applicable"))

LEMMA GoogleOnceIs ==
    ASSUME NEW application, NEW token, NEW p, NEW item, NEW at, NEW o,
           o = GoogleOnce(application, token, p, item, at)
    PROVE  LET access == GoogleStore!normalizeProductState(p.state)
           IN  /\ o.id = GoogleStore!productObservationIdentity(application, token, p, item, access)
               /\ o.snapshot = GoogleOnceSnapshot(p, item)
               /\ o.refs = GoogleOnceReferences(token, p)
               /\ o.prior = << >> /\ o.price = << >> /\ o.at = at
<1> DEFINE access == GoogleStore!normalizeProductState(p.state)
           id == GoogleStore!productObservationIdentity(application, token, p, item, access)
           s == GoogleOnceSnapshot(p, item)
           refs == GoogleOnceReferences(token, p)
<1>1. o = GoogleStore!Observation(application, id, s, at, refs)
  BY Zenon DEF GoogleOnce, GoogleOnceSnapshot, GoogleOnceReferences, GoogleOnceStart
<1> HIDE DEF id, s, refs
<1>2. o.id = id /\ o.prior = << >> /\ o.snapshot = s /\ o.price = << >> /\ o.at = at /\ o.refs = refs
  BY <1>1, GoogleObserved
<1>3. QED
  BY <1>2, Zenon DEF id, s, refs

\* Every observation of an answer is a current or an ended one.
GoogleSeen(ask, t, o) == GoogleCurrent(ask, t, o) \/ GoogleEnded(ask, t, o)

\* The shapes of an identity.
CurrentIdentity ==
    {"application", "token", "linked", "product", "order", "itemOrder", "account", "start", "expiry", "state", "access",
     "mode", "renew", "next"}
EndedIdentity == {"replaced", "application", "token", "linked", "product", "order", "account", "start", "expiry", "renewal"}
OnceIdentity == {"application", "token", "product", "order", "account", "completed", "state", "access"}

\* An identity stands for one snapshot of an item that counts,
LEMMA GoogleCurrentDetermined ==
    ASSUME NEW a, NEW b, NEW token, NEW token2, NEW v, NEW w, NEW item, NEW item2, NEW renewal, NEW renewal2, NEW at, NEW at2,
           NEW o, o = GoogleStore!currentObservation(a, token, v, item, renewal, at), renewal.nextAt = << >>,
           NEW p, p = GoogleStore!currentObservation(b, token2, w, item2, renewal2, at2), renewal2.nextAt = << >>,
           o.id = p.id
    PROVE  o.snapshot = p.snapshot /\ o.refs = p.refs
<1> DEFINE d == GoogleStore!normalizeSubscriptionState(v.state)
           e == GoogleStore!normalizeSubscriptionState(w.state)
           ido == GoogleStore!subscriptionObservationIdentity(a, token, v, item, d, renewal)
           idp == GoogleStore!subscriptionObservationIdentity(b, token2, w, item2, e, renewal2)
<1>1. o.id = ido /\ p.id = idp
  BY GoogleCurrentIs
<1>2. ido = idp
  BY <1>1
<1>3. /\ token = token2 /\ v.linked = w.linked /\ item.product = item2.product /\ v.order = w.order
      /\ item.order = item2.order /\ v.account = w.account /\ v.start = w.start /\ item.expiry = item2.expiry
      /\ v.state = w.state /\ renewal.mode = renewal2.mode /\ renewal.renew = renewal2.renew /\ renewal.next = renewal2.next
  <2> HIDE DEF d, e
  <2>1. QED
    BY <1>2 DEF GoogleStore!subscriptionObservationIdentity
<1>4. d = e /\ GoogleCleared(v) = GoogleCleared(w)
  BY <1>3, Zenon DEF GoogleCleared
<1> HIDE DEF d, e
<1>5. o.snapshot = p.snapshot
  <2> DEFINE s(x, state, access, start, end, r) == GoogleStore!Snapshot(x, "subscription", state, access, start, start, end, r)
  <2>1. o.snapshot = s(item.product, v.state, d, GoogleStart(v), GoogleEnd(v, item), renewal)
    BY GoogleCurrentIs DEF d
  <2>2. p.snapshot = s(item2.product, w.state, e, GoogleStart(w), GoogleEnd(w, item2), renewal2)
    BY GoogleCurrentIs DEF e
  <2>3. GoogleStart(v) = GoogleStart(w) /\ GoogleEnd(v, item) = GoogleEnd(w, item2)
    BY <1>3, <1>4, Zenon DEF GoogleStart, GoogleEnd
  <2>4. \A x, state, access, start, end : s(x, state, access, start, end, renewal) = s(x, state, access, start, end, renewal2)
    BY <1>3, Zenon DEF GoogleStore!Snapshot
  <2> HIDE DEF s
  <2>5. QED
    BY <1>3, <1>4, <2>1, <2>2, <2>3, <2>4
<1>6. o.refs = p.refs
  <2>1. o.refs = GoogleStore!googleReferences(token, GoogleOrder(v, item), v.linked, v.account)
    BY GoogleCurrentIs
  <2>2. p.refs = GoogleStore!googleReferences(token2, GoogleOrder(w, item2), w.linked, w.account)
    BY GoogleCurrentIs
  <2>3. GoogleOrder(v, item) = GoogleOrder(w, item2)
    BY <1>3, Zenon DEF GoogleOrder
  <2>4. QED
    BY <1>3, <2>1, <2>2, <2>3, Zenon
<1>7. QED
  BY <1>5, <1>6

\* of one that ended,
LEMMA GoogleEndedDetermined ==
    ASSUME NEW a, NEW b, NEW token, NEW token2, NEW v, NEW w, NEW item, NEW item2, NEW at, NEW at2,
           NEW o, o = GoogleStore!replacedItemObservation(a, token, v, item, at),
           NEW p, p = GoogleStore!replacedItemObservation(b, token2, w, item2, at2), o.id = p.id
    PROVE  o.snapshot = p.snapshot /\ o.refs = p.refs
<1> DEFINE r == GoogleStore!subscriptionRenewal(item)
           s == GoogleStore!subscriptionRenewal(item2)
<1>1. o.id = GoogleStore!replacedItemObservationIdentity(a, token, v, item, r)
  BY GoogleEndedIs
<1>2. p.id = GoogleStore!replacedItemObservationIdentity(b, token2, w, item2, s)
  BY GoogleEndedIs
<1>3. /\ token = token2 /\ v.linked = w.linked /\ item.product = item2.product /\ item.order = item2.order
      /\ v.account = w.account /\ v.start = w.start /\ item.expiry = item2.expiry /\ r = s
  <2> HIDE DEF r, s
  <2>1. GoogleStore!replacedItemObservationIdentity(a, token, v, item, r) = GoogleStore!replacedItemObservationIdentity(b, token2, w, item2, s)
    BY <1>1, <1>2
  <2>2. QED
    BY <2>1 DEF GoogleStore!replacedItemObservationIdentity
<1>4. GoogleEndedEnd(v, item) = GoogleEndedEnd(w, item2)
  BY <1>3, Zenon DEF GoogleEndedEnd
<1> DEFINE expired == GoogleStore!normalizeSubscriptionState("EXPIRED")
<1>5. o.snapshot = GoogleStore!Snapshot(item.product, "subscription", "EXPIRED", expired, v.start, v.start, GoogleEndedEnd(v, item), r)
  BY GoogleEndedIs
<1>6. p.snapshot = GoogleStore!Snapshot(item2.product, "subscription", "EXPIRED", expired, w.start, w.start, GoogleEndedEnd(w, item2), s)
  BY GoogleEndedIs
<1>7. /\ o.refs = GoogleStore!googleReferences(token, item.order, v.linked, v.account)
      /\ p.refs = GoogleStore!googleReferences(token2, item2.order, w.linked, w.account)
  BY GoogleEndedIs
<1> HIDE DEF r, s, expired
<1>8. QED
  BY <1>3, <1>4, <1>5, <1>6, <1>7, Zenon

\* and of a purchase that is no subscription.
LEMMA GoogleOnceDetermined ==
    ASSUME NEW a, NEW b, NEW token, NEW token2, NEW v, NEW w, NEW item, NEW item2, NEW at, NEW at2,
           NEW o, o = GoogleOnce(a, token, v, item, at), NEW p, p = GoogleOnce(b, token2, w, item2, at2), o.id = p.id
    PROVE  o.snapshot = p.snapshot /\ o.refs = p.refs
<1> DEFINE d == GoogleStore!normalizeProductState(v.state)
           e == GoogleStore!normalizeProductState(w.state)
<1>1. o.id = GoogleStore!productObservationIdentity(a, token, v, item, d)
  BY GoogleOnceIs
<1>2. p.id = GoogleStore!productObservationIdentity(b, token2, w, item2, e)
  BY GoogleOnceIs
<1>3. /\ token = token2 /\ item.product = item2.product /\ v.order = w.order /\ v.account = w.account
      /\ v.completed = w.completed /\ v.state = w.state /\ d = e
  <2> HIDE DEF d, e
  <2>1. GoogleStore!productObservationIdentity(a, token, v, item, d) = GoogleStore!productObservationIdentity(b, token2, w, item2, e)
    BY <1>1, <1>2
  <2>2. QED
    BY <2>1 DEF GoogleStore!productObservationIdentity
<1>4. o.snapshot = GoogleOnceSnapshot(v, item) /\ p.snapshot = GoogleOnceSnapshot(w, item2)
  BY GoogleOnceIs
<1>5. /\ o.refs = GoogleOnceReferences(token, v)
      /\ p.refs = GoogleOnceReferences(token2, w)
  BY GoogleOnceIs
<1>6. GoogleOnceSnapshot(v, item) = GoogleOnceSnapshot(w, item2)
  BY <1>3, Zenon DEF GoogleOnceSnapshot, GoogleOnceStart
<1>7. GoogleOnceReferences(token, v) = GoogleOnceReferences(token2, w)
  BY <1>3, Zenon DEF GoogleOnceReferences
<1>8. QED
  BY <1>4, <1>5, <1>6, <1>7

\* The three kinds of observation.
IsCurrent(o) == \E application, token, p, item, renewal, at :
    o = GoogleStore!currentObservation(application, token, p, item, renewal, at) /\ renewal.nextAt = << >>
IsEnded(o) == \E application, token, p, item, at : o = GoogleStore!replacedItemObservation(application, token, p, item, at)
IsOnce(o) == \E application, token, p, item, at : o = GoogleOnce(application, token, p, item, at)

LEMMA GoogleKinds ==
    ASSUME NEW ask, NEW t, NEW o, GoogleSeen(ask, t, o)
    PROVE  IsCurrent(o) \/ IsEnded(o) \/ IsOnce(o)
<1>1. CASE GoogleEnded(ask, t, o)
  <2>1. IsEnded(o)
    BY <1>1, Zenon DEF GoogleEnded, IsEnded
  <2>2. QED
    BY <2>1
<1>2. CASE GoogleCurrent(ask, t, o) /\ ask.request.kind = "subscription"
  <2>1. IsCurrent(o)
    BY <1>2, Zenon DEF GoogleCurrent, IsCurrent
  <2>2. QED
    BY <2>1
<1>3. CASE GoogleCurrent(ask, t, o) /\ ask.request.kind # "subscription"
  <2>1. IsOnce(o)
    BY <1>3, Zenon DEF GoogleCurrent, IsOnce
  <2>2. QED
    BY <2>1
<1>4. QED
  BY <1>1, <1>2, <1>3 DEF GoogleSeen

LEMMA GoogleShapes ==
    ASSUME NEW o
    PROVE  /\ IsCurrent(o) => DOMAIN o.id = CurrentIdentity
           /\ IsEnded(o) => DOMAIN o.id = EndedIdentity
           /\ IsOnce(o) => DOMAIN o.id = OnceIdentity
           /\ IsCurrent(o) \/ IsEnded(o) \/ IsOnce(o) => o.price = << >> /\ o.prior = << >>
<1>1. ASSUME IsCurrent(o) PROVE DOMAIN o.id = CurrentIdentity /\ o.price = << >> /\ o.prior = << >>
  <2>1. PICK application, token, p, item, renewal, at :
          o = GoogleStore!currentObservation(application, token, p, item, renewal, at)
    BY <1>1, Zenon DEF IsCurrent
  <2> DEFINE access == GoogleStore!normalizeSubscriptionState(p.state)
  <2>2. /\ o.id = GoogleStore!subscriptionObservationIdentity(application, token, p, item, access, renewal)
        /\ o.price = << >> /\ o.prior = << >>
    BY <2>1, GoogleCurrentIs
  <2> HIDE DEF access
  <2>3. DOMAIN GoogleStore!subscriptionObservationIdentity(application, token, p, item, access, renewal) = CurrentIdentity
    BY DEF GoogleStore!subscriptionObservationIdentity, CurrentIdentity
  <2>4. QED
    BY <2>2, <2>3
<1>2. ASSUME IsEnded(o) PROVE DOMAIN o.id = EndedIdentity /\ o.price = << >> /\ o.prior = << >>
  <2>1. PICK application, token, p, item, at : o = GoogleStore!replacedItemObservation(application, token, p, item, at)
    BY <1>2, Zenon DEF IsEnded
  <2> DEFINE renewal == GoogleStore!subscriptionRenewal(item)
  <2>2. /\ o.id = GoogleStore!replacedItemObservationIdentity(application, token, p, item, renewal)
        /\ o.price = << >> /\ o.prior = << >>
    BY <2>1, GoogleEndedIs
  <2> HIDE DEF renewal
  <2>3. DOMAIN GoogleStore!replacedItemObservationIdentity(application, token, p, item, renewal) = EndedIdentity
    BY DEF GoogleStore!replacedItemObservationIdentity, EndedIdentity
  <2>4. QED
    BY <2>2, <2>3
<1>3. ASSUME IsOnce(o) PROVE DOMAIN o.id = OnceIdentity /\ o.price = << >> /\ o.prior = << >>
  <2>1. PICK application, token, p, item, at : o = GoogleOnce(application, token, p, item, at)
    BY <1>3, Zenon DEF IsOnce
  <2> DEFINE access == GoogleStore!normalizeProductState(p.state)
  <2>2. /\ o.id = GoogleStore!productObservationIdentity(application, token, p, item, access)
        /\ o.price = << >> /\ o.prior = << >>
    BY <2>1, GoogleOnceIs
  <2> HIDE DEF access
  <2>3. DOMAIN GoogleStore!productObservationIdentity(application, token, p, item, access) = OnceIdentity
    BY DEF GoogleStore!productObservationIdentity, OnceIdentity
  <2>4. QED
    BY <2>2, <2>3
<1>4. QED
  BY <1>1, <1>2, <1>3

\* An identity stands for one snapshot.
LEMMA GoogleDetermined ==
    ASSUME NEW a, NEW b, NEW t, NEW u, NEW o, NEW p, GoogleSeen(a, t, o), GoogleSeen(b, u, p), o.id = p.id
    PROVE  o.snapshot = p.snapshot /\ o.refs = p.refs /\ o.price = << >> /\ p.price = << >>
<1>1. (IsCurrent(o) \/ IsEnded(o) \/ IsOnce(o)) /\ (IsCurrent(p) \/ IsEnded(p) \/ IsOnce(p))
  BY GoogleKinds
<1>2. o.price = << >> /\ p.price = << >>
  BY <1>1, GoogleShapes
<1>3. /\ "itemOrder" \in CurrentIdentity /\ "itemOrder" \notin EndedIdentity /\ "itemOrder" \notin OnceIdentity
      /\ "replaced" \in EndedIdentity /\ "replaced" \notin OnceIdentity
  BY DEF CurrentIdentity, EndedIdentity, OnceIdentity
<1>4. (IsCurrent(o) /\ IsCurrent(p)) \/ (IsEnded(o) /\ IsEnded(p)) \/ (IsOnce(o) /\ IsOnce(p))
  <2>1. /\ IsCurrent(o) => DOMAIN o.id = CurrentIdentity
        /\ IsEnded(o) => DOMAIN o.id = EndedIdentity
        /\ IsOnce(o) => DOMAIN o.id = OnceIdentity
    BY GoogleShapes
  <2>2. /\ IsCurrent(p) => DOMAIN o.id = CurrentIdentity
        /\ IsEnded(p) => DOMAIN o.id = EndedIdentity
        /\ IsOnce(p) => DOMAIN o.id = OnceIdentity
    BY GoogleShapes
  <2>3. QED
    BY <1>1, <1>3, <2>1, <2>2, Zenon
<1>5. CASE IsCurrent(o) /\ IsCurrent(p)
  <2>1. PICK x, token, v, item, renewal, at :
          o = GoogleStore!currentObservation(x, token, v, item, renewal, at) /\ renewal.nextAt = << >>
    BY <1>5, Zenon DEF IsCurrent
  <2>2. PICK y, token2, w, item2, renewal2, at2 :
          p = GoogleStore!currentObservation(y, token2, w, item2, renewal2, at2) /\ renewal2.nextAt = << >>
    BY <1>5, Zenon DEF IsCurrent
  <2>3. QED
    BY <1>2, <2>1, <2>2, GoogleCurrentDetermined
<1>6. CASE IsEnded(o) /\ IsEnded(p)
  <2>1. PICK x, token, v, item, at : o = GoogleStore!replacedItemObservation(x, token, v, item, at)
    BY <1>6, Zenon DEF IsEnded
  <2>2. PICK y, token2, w, item2, at2 : p = GoogleStore!replacedItemObservation(y, token2, w, item2, at2)
    BY <1>6, Zenon DEF IsEnded
  <2>3. QED
    BY <1>2, <2>1, <2>2, GoogleEndedDetermined
<1>7. CASE IsOnce(o) /\ IsOnce(p)
  <2>1. PICK x, token, v, item, at : o = GoogleOnce(x, token, v, item, at)
    BY <1>7, Zenon DEF IsOnce
  <2>2. PICK y, token2, w, item2, at2 : p = GoogleOnce(y, token2, w, item2, at2)
    BY <1>7, Zenon DEF IsOnce
  <2>3. QED
    BY <1>2, <2>1, <2>2, GoogleOnceDetermined
<1>8. QED
  BY <1>4, <1>5, <1>6, <1>7

LEMMA GoogleRange == \A f : GoogleStore!Range(f) = Range(f)
BY DEF GoogleStore!Range, Range

LEMMA GoogleAfter == \A e, u : GoogleStore!After(e, u) = After(e, u)
BY DEF GoogleStore!After, After

\* What is read of an observation later, the answer grants then, and what it
\* grants right away is read.
LEMMA GoogleServes ==
    ASSUME provider = "google", NEW ask \in Asks["google"], NEW t \in Nat, NEW o, GoogleCurrent(ask, t, o)
    PROVE  /\ \A u \in Nat : t <= u /\ AccessAt(o.snapshot.access, o.snapshot.end, u) = "allowed" =>
                 GoogleStore!StoreGrants(Said(ask), o.snapshot.product, u)
           /\ GoogleStore!StoreGrants(Said(ask), o.snapshot.product, t) =>
                 AccessAt(o.snapshot.access, o.snapshot.end, t) = "allowed"
<1> DEFINE p == ask.server.purchase
<1>1. Said(ask) = [kind |-> ask.request.kind, purchase |-> p]
  BY DEF Said
<1>2. ask.request.kind \in {"subscription", "non_consumable"}
  BY AnswersAssumption
<1>3. CASE ask.request.kind = "non_consumable"
  <2>1. PICK token : o = GoogleOnce(ask.request.application, token, p, p.items[1], 2 * t)
    BY <1>3, Zenon DEF GoogleCurrent
  <2>2. PICK item : item = p.items[1]
    OBVIOUS
  <2>3. o.snapshot = GoogleOnceSnapshot(p, item)
    <3>1. PICK at : at = 2 * t
      OBVIOUS
    <3>2. o = GoogleOnce(ask.request.application, token, p, item, at)
      BY <2>1, <2>2, <3>1
    <3>3. QED
      BY <3>2, GoogleOnceIs
  <2>4. /\ o.snapshot.product = item.product /\ o.snapshot.end = << >>
        /\ o.snapshot.access = GoogleStore!normalizeProductState(p.state)[2]
    BY <2>3, GoogleShows DEF GoogleOnceSnapshot
  <2>5. o.snapshot.access = "allowed" <=> p.state = "PURCHASED"
    BY <2>4 DEF GoogleStore!normalizeProductState
  <2>6. \A u : GoogleStore!StoreGrants(Said(ask), o.snapshot.product, u) <=> p.state = "PURCHASED"
    BY <1>1, <1>3, <2>2, <2>4 DEF GoogleStore!StoreGrants
  <2>7. QED
    BY <2>4, <2>5, <2>6 DEF AccessAt
<1>4. CASE ask.request.kind = "subscription"
  <2>1. PICK token, renewal : \E item \in Range(p.items) :
          /\ o = GoogleStore!currentObservation(ask.request.application, token, p, item, renewal, 2 * t)
          /\ renewal.nextAt = << >> /\ GoogleStore!ObservationValid(o)
          /\ \A i \in Range(p.items) : i.product = item.product => i = item
    BY <1>4, Zenon DEF GoogleCurrent
  <2>2. PICK item \in Range(p.items) :
          /\ o = GoogleStore!currentObservation(ask.request.application, token, p, item, renewal, 2 * t)
          /\ GoogleStore!ObservationValid(o)
          /\ \A i \in Range(p.items) : i.product = item.product => i = item
    BY <2>1
  <2> DEFINE access == GoogleStore!normalizeSubscriptionState(p.state)
  <2>3. o.snapshot = GoogleStore!Snapshot(item.product, "subscription", p.state, access, GoogleStart(p), GoogleStart(p),
                                          GoogleEnd(p, item), renewal)
    <3>1. PICK at : at = 2 * t
      OBVIOUS
    <3>2. o = GoogleStore!currentObservation(ask.request.application, token, p, item, renewal, at)
      BY <2>2, <3>1
    <3>3. QED
      BY <3>2, GoogleCurrentIs
  <2>4. /\ o.snapshot.product = item.product /\ o.snapshot.kind = "subscription"
        /\ o.snapshot.access = access[2] /\ o.snapshot.end = GoogleEnd(p, item)
    BY <2>3, GoogleShows
  <2>5. /\ access[2] = "allowed" <=> p.state \in {"ACTIVE", "IN_GRACE_PERIOD", "CANCELED"}
        /\ access[2] = "allowed" => ~ GoogleCleared(p)
    BY DEF GoogleStore!normalizeSubscriptionState, GoogleCleared
  <2>6. access[2] = "allowed" => o.snapshot.end = item.expiry /\ o.snapshot.end # << >>
    BY <2>2, <2>4, <2>5 DEF GoogleStore!ObservationValid, GoogleEnd
  <2>7. \A u : GoogleStore!StoreGrants(Said(ask), o.snapshot.product, u) <=>
                 p.state \in {"ACTIVE", "IN_GRACE_PERIOD", "CANCELED"} /\ After(item.expiry, u)
    <3>1. \A u : (\E i \in GoogleStore!Range(p.items) : i.product = item.product /\ GoogleStore!After(i.expiry, u)) <=> After(item.expiry, u)
      BY <2>2, GoogleRange, GoogleAfter, Zenon
    <3>2. Said(ask).kind = "subscription" /\ Said(ask).purchase = p
      BY <1>1, <1>4
    <3>3. QED
      BY <2>4, <3>1, <3>2 DEF GoogleStore!StoreGrants
  <2> HIDE DEF access
  <2>8. QED
    BY <2>4, <2>5, <2>6, <2>7 DEF AccessAt
<1>5. QED
  BY <1>2, <1>3, <1>4

\* A replaced item is denied, as the answer does.
LEMMA GoogleEnds ==
    ASSUME provider = "google", NEW ask \in Asks["google"], NEW t \in Nat, NEW o, GoogleEnded(ask, t, o)
    PROVE  o.snapshot.access = "denied" /\ ~ GoogleStore!StoreGrants(Said(ask), o.snapshot.product, t) /\ o.at = 2 * t - 1
<1> DEFINE p == ask.server.purchase
<1>1. PICK token, item :
         /\ o = GoogleStore!replacedItemObservation(ask.request.application, token, p, item, 2 * t)
         /\ \A i \in Range(p.items) : i.product = item.product => ~ After(i.expiry, t)
  BY Zenon DEF GoogleEnded
<1> DEFINE access == GoogleStore!normalizeSubscriptionState("EXPIRED")
           renewal == GoogleStore!subscriptionRenewal(item)
<1>2. /\ o.snapshot = GoogleStore!Snapshot(item.product, "subscription", "EXPIRED", access, p.start, p.start, GoogleEndedEnd(p, item), renewal)
      /\ o.at = 2 * t - 1
  <2>1. PICK at : at = 2 * t
    OBVIOUS
  <2>2. o = GoogleStore!replacedItemObservation(ask.request.application, token, p, item, at)
    BY <1>1, <2>1
  <2>3. /\ o.snapshot = GoogleStore!Snapshot(item.product, "subscription", "EXPIRED", access, p.start, p.start, GoogleEndedEnd(p, item), renewal)
        /\ o.at = at - 1
    BY <2>2, GoogleEndedIs
  <2>4. QED
    BY <2>1, <2>3
<1>3. o.snapshot.product = item.product /\ o.snapshot.access = access[2]
  BY <1>2, GoogleShows
<1>4. access[2] = "denied"
  BY DEF GoogleStore!normalizeSubscriptionState
<1>5. Said(ask).kind = "subscription" /\ Said(ask).purchase = p
  BY DEF Said, GoogleEnded
<1>6. ~ \E i \in GoogleStore!Range(p.items) : i.product = item.product /\ GoogleStore!After(i.expiry, t)
  BY <1>1, GoogleRange, GoogleAfter, Zenon
<1> HIDE DEF access, renewal
<1>7. QED
  BY <1>2, <1>3, <1>4, <1>5, <1>6 DEF GoogleStore!StoreGrants

\* What a successful answer reports: the current item, and at most one that ended.
Reports(ask, t, o, observations) ==
    \/ observations = <<o>>
    \/ \E e : GoogleEnded(ask, t, e) /\ e.snapshot.product # o.snapshot.product /\ observations = <<o, e>>

LEMMA Joined == \A x, y : <<x>> \o << >> = <<x>> /\ <<x>> \o <<y>> = <<x, y>>
<1> TAKE x, y
<1>1. <<x>> \in Seq({x, y}) /\ <<y>> \in Seq({x, y}) /\ << >> \in Seq({x, y})
  OBVIOUS
<1>2. <<x>> \o << >> = <<x>>
  BY <1>1, ConcatEmptySeq
<1>3. <<x>> \o <<y>> = Append(<<x>>, y)
  BY <1>1, AppendIsConcat
<1>4. Append(<<x>>, y) = <<x, y>>
  <2> DEFINE s == Append(<<x>>, y)
             r == <<x, y>>
  <2>1. Len(<<x>>) = 1 /\ <<x>>[1] = x
    OBVIOUS
  <2>2. s \in Seq({x, y}) /\ Len(s) = 2 /\ s[1] = x /\ s[2] = y
    BY <1>1, <2>1, AppendProperties
  <2>3. r \in Seq({x, y}) /\ Len(r) = 2 /\ r[1] = x /\ r[2] = y
    OBVIOUS
  <2> HIDE DEF s, r
  <2>4. \A i \in 1 .. 2 : s[i] = r[i]
    BY <2>2, <2>3
  <2>5. s = r
    BY <2>2, <2>3, <2>4, SeqEqual
  <2>6. QED
    BY <2>5 DEF s, r
<1>5. QED
  BY <1>2, <1>3, <1>4, Zenon

IsSubscription(ask) == ask.request.kind = "subscription"

\* The answer about a subscription, where an answer with one item reports that item,
SubscriptionSeen(ask, t, observations) ==
    \E o : /\ GoogleCurrent(ask, t, o) /\ Reports(ask, t, o, observations)
           /\ Len(ask.server.purchase.items) = 1 =>
                observations = <<o>> /\ o.snapshot.product = ask.server.purchase.items[1].product

\* the product that such an answer says it replaced,
ReplacementSeen(ask, t, replaced) ==
    /\ Len(ask.server.purchase.items) = 1
    /\ \E e : /\ GoogleEnded(ask, t, e) /\ replaced = <<e>>
              /\ e.snapshot.product # ask.server.purchase.items[1].product

ProductSeen(ask, t, observations) == \E o : GoogleCurrent(ask, t, o) /\ observations = <<o>>

\* and both together.
QuerySeen(ask, t, observations, replaced) ==
    \E o : /\ GoogleCurrent(ask, t, o) /\ Reports(ask, t, o, observations)
           /\ replaced # << >> =>
                \E e : /\ GoogleEnded(ask, t, e) /\ replaced = <<e>> /\ observations = <<o>>
                       /\ e.snapshot.product # o.snapshot.product

LEMMA GoogleRenews ==
    ASSUME NEW item, item.plans \subseteq {"auto", "prepaid"}
    PROVE  GoogleStore!subscriptionRenewal(item).nextAt = << >> /\ GoogleStore!replacementRenewal(item).nextAt = << >>
<1> DEFINE r == GoogleStore!subscriptionRenewal(item)
<1>1. \E mode, renew : r = GoogleStore!Renewal(mode, renew)
  <2>1. CASE "auto" \in item.plans
    <3>1. r = GoogleStore!Renewal("auto", IF item.auto THEN "enabled" ELSE "disabled")
      BY <2>1 DEF GoogleStore!subscriptionRenewal
    <3>2. QED
      BY <3>1, Zenon
  <2>2. CASE "auto" \notin item.plans /\ "prepaid" \in item.plans
    <3>1. item.plans = {"prepaid"}
      BY <2>2
    <3>2. r = GoogleStore!Renewal("prepaid", "not_applicable")
      BY <3>1 DEF GoogleStore!subscriptionRenewal
    <3>3. QED
      BY <3>2, Zenon
  <2>3. CASE "auto" \notin item.plans /\ "prepaid" \notin item.plans
    <3>1. item.plans = {}
      BY <2>3
    <3>2. r = GoogleStore!Renewal("unknown", "unknown")
      BY <3>1 DEF GoogleStore!subscriptionRenewal
    <3>3. QED
      BY <3>2, Zenon
  <2>4. QED
    BY <2>1, <2>2, <2>3
<1>2. PICK mode, renew : r = GoogleStore!Renewal(mode, renew)
  BY <1>1
<1>3. r.nextAt = << >> /\ DOMAIN r = {"mode", "renew", "next", "nextAt"}
  <2> HIDE DEF r
  <2>1. QED
    BY <1>2 DEF GoogleStore!Renewal
<1>4. \E x : GoogleStore!replacementRenewal(item) = [r EXCEPT !.next = x]
  BY Zenon DEF GoogleStore!replacementRenewal
<1> HIDE DEF r
<1>5. PICK x : GoogleStore!replacementRenewal(item) = [r EXCEPT !.next = x]
  BY <1>4
<1>6. [r EXCEPT !.next = x].nextAt = r.nextAt
  BY <1>3
<1>7. QED
  BY <1>3, <1>5, <1>6 DEF r

\* A subscription purchase with what it says about its items,
LEMMA GoogleSubscription ==
    ASSUME NEW ask \in Asks["google"], IsSubscription(ask), NEW token, NEW t, NEW at, at = 2 * t, NEW seen,
           seen = GoogleStore!subscriptionObservations(ask.request.application, token, ask.server.purchase, t, at), seen.ok
    PROVE  SubscriptionSeen(ask, t, seen.observations)
<1> USE DEF IsSubscription, SubscriptionSeen
<1> DEFINE app == ask.request.application
           p == ask.server.purchase
           sel == GoogleStore!selectSubscriptionItems(p.items, t)
           observations == GoogleStore!itemObservations(app, token, p, sel[1], at)
           x1 == GoogleStore!Must(GoogleStore!validateEnvironment(app, p.test), "invalid_evidence")
           x2 == GoogleStore!Must(sel[1].current.product # "" /\ p.account # "", "invalid_evidence")
           x3 == GoogleStore!Must(\A i \in {sel[1].current} \cup GoogleStore!Range(sel[1].pending) \cup GoogleStore!Range(sel[1].replaced) :
                                    GoogleStore!OnePlan(i), "invalid_evidence")
           x4 == GoogleStore!Must(\A o \in GoogleStore!Range(observations) : GoogleStore!ObservationValid(o), "invalid_evidence")
           c == <<x1, x2, x3, x4>>
           good == [ok |-> TRUE, observations |-> observations]
<1>1. seen = IF sel = << >> THEN GoogleStore!Failure("invalid_evidence") ELSE GoogleStore!Guarded(c, good)
  BY Zenon DEF GoogleStore!subscriptionObservations, GoogleStore!invalid
<1>2. sel # << >>
  <2>1. ~ GoogleStore!Failure("invalid_evidence").ok
    BY DEF GoogleStore!Failure
  <2> HIDE DEF sel, c, good
  <2>2. QED
    BY <1>1, <2>1
<1>3. x4 = "" => \A o \in GoogleStore!Range(observations) : GoogleStore!ObservationValid(o)
  <2> HIDE DEF observations
  <2>1. QED
    BY DEF GoogleStore!Must
<1>4. seen = good /\ Passed(c)
  <2> HIDE DEF sel, c, good
  <2>1. seen = Guarded(c, good)
    BY <1>1, <1>2, GoogleGuarded
  <2>2. seen.ok
    OBVIOUS
  <2>3. QED
    BY <2>1, <2>2, Passes, Zenon
<1>5. x4 = ""
  <2> HIDE DEF x1, x2, x3, x4
  <2>1. c[4] = x4 /\ 4 \in DOMAIN c
    OBVIOUS
  <2> HIDE DEF c
  <2>2. QED
    BY <1>4, <2>1 DEF Passed
<1>6. seen.observations = observations
  <2> HIDE DEF observations
  <2>1. good.observations = observations
    OBVIOUS
  <2> HIDE DEF c, good
  <2>2. QED
    BY <1>4, <2>1
<1>7. p.items \in Seq(Range(p.items)) /\ \A i \in Range(p.items) : i.plans \subseteq {"auto", "prepaid"}
  BY AnswersAssumption DEF GoogleSays
<1>8. PICK counted, pending, replaced :
        /\ sel = <<[current |-> counted, pending |-> pending, replaced |-> replaced]>>
        /\ Selection(p.items, counted, pending, replaced, t)
        /\ replaced = << >> \/ replaced = <<replaced[1]>>
  <2>1. PICK items : items = p.items
    OBVIOUS
  <2>2. QED
    BY <1>2, <1>7, <2>1, GoogleSelects
<1>9. sel[1].current = counted /\ sel[1].pending = pending /\ sel[1].replaced = replaced
  <2> HIDE DEF sel
  <2>1. QED
    BY <1>8
<1> DEFINE renewal == IF pending = << >> THEN GoogleStore!subscriptionRenewal(counted) ELSE GoogleStore!replacementRenewal(pending[1])
           o == GoogleStore!currentObservation(app, token, p, counted, renewal, at)
           e == GoogleStore!replacedItemObservation(app, token, p, replaced[1], at)
<1>10. observations = <<o>> \o IF replaced = << >> THEN << >> ELSE <<e>>
  <2> HIDE DEF sel
  <2>1. QED
    BY <1>9, Zenon DEF GoogleStore!itemObservations
<1>11. observations = IF replaced = << >> THEN <<o>> ELSE <<o, e>>
  <2> HIDE DEF observations, o, e
  <2>1. <<o>> \o << >> = <<o>> /\ <<o>> \o <<e>> = <<o, e>>
    BY Joined, Zenon
  <2>2. CASE replaced = << >>
    BY <1>10, <2>1, <2>2
  <2>3. CASE replaced # << >>
    BY <1>10, <2>1, <2>3
  <2>4. QED
    BY <2>2, <2>3
<1>12. renewal.nextAt = << >>
  BY <1>7, <1>8, GoogleRenews DEF Selection
<1>13. GoogleStore!ObservationValid(o)
  <2> HIDE DEF observations, o, e
  <2>1. o \in GoogleStore!Range(observations)
    BY <1>11 DEF GoogleStore!Range
  <2>2. QED
    BY <1>3, <1>5, <2>1
<1>14. GoogleCurrent(ask, t, o)
  <2>1. counted \in Range(p.items) /\ \A i \in Range(p.items) : i.product = counted.product => i = counted
    BY <1>8 DEF Selection
  <2> HIDE DEF renewal
  <2>2. o = GoogleStore!currentObservation(app, token, p, counted, renewal, 2 * t)
    OBVIOUS
  <2> HIDE DEF o
  <2>3. QED
    BY <1>12, <1>13, <2>1, <2>2, Zenon DEF GoogleCurrent
<1>15. o.snapshot.product = counted.product
  <2> HIDE DEF renewal
  <2> DEFINE access == GoogleStore!normalizeSubscriptionState(p.state)
  <2>1. o.snapshot = GoogleStore!Snapshot(counted.product, "subscription", p.state, access, GoogleStart(p), GoogleStart(p),
                                          GoogleEnd(p, counted), renewal)
    BY GoogleCurrentIs
  <2> HIDE DEF o, access
  <2>2. QED
    BY <2>1, GoogleShows
<1>16. CASE replaced = << >>
  <2>1. seen.observations = <<o>>
    <3> HIDE DEF observations, o, e
    <3>1. QED
      BY <1>6, <1>11, <1>16
  <2>2. Reports(ask, t, o, seen.observations)
    BY <2>1 DEF Reports
  <2>3. Len(p.items) = 1 => o.snapshot.product = p.items[1].product
    <3>1. Len(p.items) = 1 => Range(p.items) = {p.items[1]}
      BY <1>7 DEF Range
    <3> HIDE DEF o
    <3>2. QED
      BY <1>8, <1>15, <3>1 DEF Selection
  <2> HIDE DEF o
  <2>4. QED
    BY <1>14, <2>1, <2>2, <2>3
<1>17. CASE replaced # << >>
  <2>1. seen.observations = <<o, e>>
    <3> HIDE DEF observations, o, e
    <3>1. QED
      BY <1>6, <1>11, <1>17
  <2>2. /\ Len(p.items) = 2 /\ replaced[1].product # counted.product
        /\ \A i \in Range(p.items) : i.product = replaced[1].product => ~ After(i.expiry, t)
    BY <1>8, <1>17 DEF Selection
  <2>3. e = GoogleStore!replacedItemObservation(app, token, p, replaced[1], 2 * t)
    OBVIOUS
  <2>4. e.snapshot.product = replaced[1].product
    <3>1. PICK item : item = replaced[1]
      OBVIOUS
    <3> DEFINE access == GoogleStore!normalizeSubscriptionState("EXPIRED")
               r == GoogleStore!subscriptionRenewal(item)
    <3>2. e = GoogleStore!replacedItemObservation(app, token, p, item, at)
      BY <3>1
    <3> HIDE DEF e
    <3>3. e.snapshot = GoogleStore!Snapshot(item.product, "subscription", "EXPIRED", access, p.start, p.start, GoogleEndedEnd(p, item), r)
      BY <3>2, GoogleEndedIs
    <3> HIDE DEF access, r
    <3>4. QED
      BY <3>1, <3>3, GoogleShows
  <2> HIDE DEF o, e
  <2>5. GoogleEnded(ask, t, e)
    BY <2>2, <2>3, Zenon DEF GoogleEnded
  <2>6. Reports(ask, t, o, seen.observations)
    BY <1>15, <2>1, <2>2, <2>4, <2>5 DEF Reports
  <2>7. QED
    BY <1>14, <2>2, <2>6
<1>18. QED
  BY <1>16, <1>17

\* and with the product it says it replaced.
LEMMA GoogleReplacement ==
    ASSUME NEW ask \in Asks["google"], IsSubscription(ask), NEW token, NEW t, NEW at, at = 2 * t, NEW replaced,
           replaced = GoogleStore!itemReplacementObservation(ask.request.application, token, ask.server.purchase, at),
           replaced # << >>
    PROVE  ReplacementSeen(ask, t, replaced)
<1> USE DEF IsSubscription, ReplacementSeen
<1> DEFINE app == ask.request.application
           p == ask.server.purchase
           item == p.items[1]
           old == [product |-> item.replacement[1], order |-> "", expiry |-> << >>, plans |-> {}, auto |-> FALSE,
                   deferred |-> << >>, replacement |-> << >>]
           e == GoogleStore!replacedItemObservation(app, token, p, old, at)
           nothing == Len(p.items) # 1 \/ item.replacement \in {<< >>, <<"">>, <<item.product>>}
<1>1. replaced = IF nothing THEN << >> ELSE <<e>>
  BY Zenon DEF GoogleStore!itemReplacementObservation
<1>2. ~ nothing /\ replaced = <<e>>
  <2> HIDE DEF e, nothing
  <2>1. QED
    BY <1>1
<1>3. Len(p.items) = 1 /\ item.replacement \notin {<< >>, <<item.product>>}
  BY <1>2
<1>4. p.items \in Seq(Range(p.items))
  BY AnswersAssumption DEF GoogleSays
<1>5. Range(p.items) = {item}
  BY <1>3, <1>4 DEF Range
<1>6. item.replacement = <<item.replacement[1]>>
  BY <1>3, <1>5, AnswersAssumption DEF GoogleSays
<1>7. old.product = item.replacement[1]
  OBVIOUS
<1>8. old.product # item.product
  <2> HIDE DEF old, item
  <2>1. QED
    BY <1>3, <1>6, <1>7
<1> HIDE DEF old, item
<1>9. \A i \in Range(p.items) : i.product = old.product => ~ After(i.expiry, t)
  BY <1>5, <1>8
<1>10. GoogleEnded(ask, t, e)
  <2>1. e = GoogleStore!replacedItemObservation(app, token, p, old, 2 * t)
    OBVIOUS
  <2> HIDE DEF e
  <2>2. QED
    BY <1>9, <2>1, Zenon DEF GoogleEnded
<1>11. e.snapshot.product = old.product
  <2> DEFINE access == GoogleStore!normalizeSubscriptionState("EXPIRED")
             r == GoogleStore!subscriptionRenewal(old)
  <2>1. e.snapshot = GoogleStore!Snapshot(old.product, "subscription", "EXPIRED", access, p.start, p.start, GoogleEndedEnd(p, old), r)
    BY GoogleEndedIs
  <2> HIDE DEF access, r, e
  <2>2. QED
    BY <2>1, GoogleShows
<1> HIDE DEF e
<1>12. e.snapshot.product # item.product
  BY <1>8, <1>11
<1>13. QED
  BY <1>2, <1>3, <1>10, <1>12 DEF item

LEMMA GoogleProduct ==
    ASSUME NEW ask \in Asks["google"], ~ IsSubscription(ask), NEW token, NEW t, NEW at, at = 2 * t, NEW seen,
           seen = GoogleStore!productObservations(ask.request.application, token, ask.server.purchase, at), seen.ok
    PROVE  ProductSeen(ask, t, seen.observations)
<1> USE DEF IsSubscription, ProductSeen
<1> DEFINE app == ask.request.application
           p == ask.server.purchase
           o == GoogleOnce(app, token, p, p.items[1], at)
           good == [ok |-> TRUE, observations |-> <<o>>]
           failed == GoogleStore!Failure("invalid_evidence")
<1>1. \E c : seen = IF Len(p.items) # 1 THEN failed ELSE GoogleStore!Guarded(c, good)
  BY Zenon DEF GoogleStore!productObservations, GoogleStore!invalid, GoogleOnce
<1>2. PICK c : seen = IF Len(p.items) # 1 THEN failed ELSE GoogleStore!Guarded(c, good)
  BY <1>1
<1>3. ~ failed.ok
  BY DEF GoogleStore!Failure
<1>4. seen = Guarded(c, good)
  <2> HIDE DEF failed, good
  <2>1. seen.ok
    OBVIOUS
  <2>2. QED
    BY <1>2, <1>3, <2>1, GoogleGuarded
<1>5. seen = good
  <2> HIDE DEF good
  <2>1. seen.ok
    OBVIOUS
  <2>2. QED
    BY <1>4, <2>1, Passes, Zenon
<1>6. seen.observations = <<o>>
  <2> HIDE DEF o
  <2>1. QED
    BY <1>5
<1>7. o = GoogleOnce(app, token, p, p.items[1], 2 * t)
  OBVIOUS
<1> HIDE DEF o
<1>8. GoogleCurrent(ask, t, o)
  BY <1>7, Zenon DEF GoogleCurrent
<1>9. QED
  BY <1>6, <1>8

\* What was seen passes on.
LEMMA GoogleQueryResult ==
    ASSUME NEW p, NEW kind, NEW seen, NEW replaced, NEW q, q = GoogleStore!queryResult(p, kind, seen, replaced), q.ok
    PROVE  seen.ok /\ q.observations = seen.observations /\ q.replaced = replaced
<1> DEFINE actions == GoogleStore!acknowledgementActions(seen.observations[1], p)
           products == IF kind = "subscription" THEN GoogleStore!subscriptionProducts(p) ELSE {}
           good == [ok |-> TRUE, observations |-> seen.observations, replaced |-> replaced, actions |-> actions,
                    products |-> products]
<1>1. \E c : q = IF ~ seen.ok THEN seen ELSE GoogleStore!Guarded(c, good)
  BY Zenon DEF GoogleStore!queryResult
<1>2. PICK c : q = IF ~ seen.ok THEN seen ELSE GoogleStore!Guarded(c, good)
  BY <1>1
<1>3. seen.ok /\ q = Guarded(c, good)
  <2> HIDE DEF good
  <2>1. q.ok
    OBVIOUS
  <2>2. QED
    BY <1>2, <2>1, GoogleGuarded
<1>4. q = good
  <2> HIDE DEF good
  <2>1. q.ok
    OBVIOUS
  <2>2. QED
    BY <1>3, <2>1, Passes, Zenon
<1>5. good.observations = seen.observations /\ good.replaced = replaced
  <2> HIDE DEF actions, products
  <2>1. QED
    OBVIOUS
<1> HIDE DEF good
<1>6. QED
  BY <1>3, <1>4, <1>5

LEMMA GoogleQueried ==
    ASSUME NEW ask \in Asks["google"], NEW token, NEW t, NEW q,
           q = GoogleStore!query(ask.request.application, token, ask.request.kind, ask.server, t), q.ok
    PROVE  QuerySeen(ask, t, q.observations, q.replaced)
<1> DEFINE app == ask.request.application
           p == ask.server.purchase
           kind == ask.request.kind
           at == GoogleStore!Sighting(t)
           subscriptions == GoogleStore!subscriptionObservations(app, token, p, t, at)
           replaced == GoogleStore!itemReplacementObservation(app, token, p, at)
           products == GoogleStore!productObservations(app, token, p, at)
           asSubscription == GoogleStore!queryResult(p, kind, subscriptions, replaced)
           asProduct == GoogleStore!queryResult(p, kind, products, << >>)
           body == IF kind = "subscription" THEN asSubscription ELSE asProduct
<1>1. \E c : q = GoogleStore!Guarded(c, body)
  BY Zenon DEF GoogleStore!query
<1>2. q = body
  <2> HIDE DEF body
  <2>1. PICK c : q = GoogleStore!Guarded(c, body)
    BY <1>1
  <2>2. q = Guarded(c, body)
    BY <2>1, GoogleGuarded
  <2>3. q.ok
    OBVIOUS
  <2>4. QED
    BY <2>2, <2>3, Passes, Zenon
<1>3. at = 2 * t
  BY DEF GoogleStore!Sighting
<1> HIDE DEF at
<1>4. CASE kind = "subscription"
  <2>1. q = asSubscription
    BY <1>2, <1>4
  <2>2. PICK seen : seen = subscriptions
    OBVIOUS
  <2>3. PICK old : old = replaced
    OBVIOUS
  <2>4. seen.ok /\ q.observations = seen.observations /\ q.replaced = old
    <3>1. q = GoogleStore!queryResult(p, kind, seen, old)
      BY <2>1, <2>2, <2>3
    <3>2. q.ok
      OBVIOUS
    <3>3. QED
      BY <3>1, <3>2, GoogleQueryResult
  <2>5. PICK o : /\ GoogleCurrent(ask, t, o) /\ Reports(ask, t, o, seen.observations)
                 /\ Len(p.items) = 1 => seen.observations = <<o>> /\ o.snapshot.product = p.items[1].product
    <3>1. IsSubscription(ask)
      BY <1>4 DEF IsSubscription
    <3>2. SubscriptionSeen(ask, t, seen.observations)
      BY <1>3, <2>2, <2>4, <3>1, GoogleSubscription
    <3>3. QED
      BY <3>2, Zenon DEF SubscriptionSeen
  <2>6. CASE old = << >>
    BY <2>4, <2>5, <2>6 DEF QuerySeen
  <2>7. CASE old # << >>
    <3>1. /\ Len(p.items) = 1
          /\ \E e : GoogleEnded(ask, t, e) /\ old = <<e>> /\ e.snapshot.product # p.items[1].product
      <4>1. IsSubscription(ask)
        BY <1>4 DEF IsSubscription
      <4>2. ReplacementSeen(ask, t, old)
        BY <1>3, <2>3, <2>7, <4>1, GoogleReplacement
      <4>3. QED
        BY <4>2, Zenon DEF ReplacementSeen
    <3>2. PICK e : GoogleEnded(ask, t, e) /\ old = <<e>> /\ e.snapshot.product # p.items[1].product
      BY <3>1
    <3>3. seen.observations = <<o>> /\ o.snapshot.product = p.items[1].product
      BY <2>5, <3>1
    <3>4. e.snapshot.product # o.snapshot.product /\ q.replaced = <<e>> /\ q.observations = <<o>>
      BY <2>4, <3>2, <3>3
    <3>5. GoogleCurrent(ask, t, o) /\ Reports(ask, t, o, q.observations)
      BY <2>4, <2>5
    <3>6. QED
      BY <3>2, <3>4, <3>5 DEF QuerySeen
  <2>8. QED
    BY <2>6, <2>7
<1>5. CASE kind # "subscription"
  <2>1. q = asProduct
    BY <1>2, <1>5
  <2>2. PICK seen : seen = products
    OBVIOUS
  <2>3. PICK old : old = << >>
    OBVIOUS
  <2>4. seen.ok /\ q.observations = seen.observations /\ q.replaced = old
    <3>1. q = GoogleStore!queryResult(p, kind, seen, old)
      BY <2>1, <2>2, <2>3
    <3>2. q.ok
      OBVIOUS
    <3>3. QED
      BY <3>1, <3>2, GoogleQueryResult
  <2>5. PICK o : GoogleCurrent(ask, t, o) /\ seen.observations = <<o>>
    <3>1. ~ IsSubscription(ask)
      BY <1>5 DEF IsSubscription
    <3>2. ProductSeen(ask, t, seen.observations)
      BY <1>3, <2>2, <2>4, <3>1, GoogleProduct
    <3>3. QED
      BY <3>2, Zenon DEF ProductSeen
  <2>6. Reports(ask, t, o, q.observations)
    BY <2>4, <2>5 DEF Reports
  <2>7. QED
    BY <2>3, <2>4, <2>5, <2>6 DEF QuerySeen
<1>6. QED
  BY <1>4, <1>5

\* A verification or a reconciliation that succeeds reports the answer.
LEMMA GoogleAnswered ==
    ASSUME NEW ask \in Asks["google"], NEW request, NEW t, NEW r,
           request.application = ask.request.application, request.kind = ask.request.kind,
           r = GoogleStore!Verify(request, ask.server, t) \/ r = GoogleStore!Reconcile(request, ask.server, t), r.ok
    PROVE  \E o : GoogleCurrent(ask, t, o) /\ Reports(ask, t, o, r.observations)
<1> DEFINE q == GoogleStore!query(request.application, request.token, request.kind, ask.server, t)
           res == GoogleStore!verificationResult(q, request.claimed)
<1>1. \E c, d : r = GoogleStore!Guarded(c, IF ~ q.ok THEN q ELSE GoogleStore!Guarded(d, res))
  <2>1. CASE r = GoogleStore!Verify(request, ask.server, t)
    BY <2>1, Zenon DEF GoogleStore!Verify
  <2>2. CASE r = GoogleStore!Reconcile(request, ask.server, t)
    BY <2>2, Zenon DEF GoogleStore!Reconcile
  <2>3. QED
    BY <2>1, <2>2
<1>2. PICK c, d : r = GoogleStore!Guarded(c, IF ~ q.ok THEN q ELSE GoogleStore!Guarded(d, res))
  BY <1>1
<1>3. r = IF ~ q.ok THEN q ELSE Guarded(d, res)
  <2> DEFINE body == IF ~ q.ok THEN q ELSE Guarded(d, res)
  <2>1. r = Guarded(c, body)
    BY <1>2, GoogleGuarded, Zenon
  <2> HIDE DEF body
  <2>2. r = body
    BY <2>1, Passes, Zenon
  <2>3. QED
    BY <2>2 DEF body
<1>4. q.ok /\ r = Guarded(d, res)
  <2> HIDE DEF q, res
  <2>1. QED
    BY <1>3
<1>5. r = res
  <2> HIDE DEF q, res
  <2>1. QED
    BY <1>4, Passes, Zenon
<1>6. PICK o :
         /\ GoogleCurrent(ask, t, o) /\ Reports(ask, t, o, q.observations)
         /\ q.replaced # << >> =>
              \E e : /\ GoogleEnded(ask, t, e) /\ q.replaced = <<e>> /\ q.observations = <<o>>
                     /\ e.snapshot.product # o.snapshot.product
  <2>1. PICK token, x : token = request.token /\ x = q
    OBVIOUS
  <2>2. x = GoogleStore!query(ask.request.application, token, ask.request.kind, ask.server, t) /\ x.ok
    BY <1>4, <2>1
  <2> HIDE DEF q
  <2>3. QuerySeen(ask, t, x.observations, x.replaced)
    BY <2>2, GoogleQueried
  <2>4. QED
    BY <2>1, <2>3, Zenon DEF QuerySeen
<1> HIDE DEF q
<1>7. r.observations = q.observations \/ (q.replaced # << >> /\ r.observations = q.observations \o q.replaced)
  <2> DEFINE seen == GoogleStore!requestedObservations(q, request.claimed)
  <2>1. r.observations = seen
    <3>1. \E named, actions : res = [ok |-> TRUE, observations |-> seen, named |-> named, actions |-> actions]
      BY Zenon DEF GoogleStore!verificationResult
    <3> HIDE DEF seen, res
    <3>2. QED
      BY <1>5, <3>1
  <2>2. seen = q.observations \/ (q.replaced # << >> /\ seen = q.observations \o q.replaced)
    BY DEF GoogleStore!requestedObservations
  <2> HIDE DEF seen
  <2>3. QED
    BY <2>1, <2>2
<1>8. CASE r.observations = q.observations
  BY <1>6, <1>8
<1>9. CASE q.replaced # << >> /\ r.observations = q.observations \o q.replaced
  <2>1. PICK e : /\ GoogleEnded(ask, t, e) /\ q.replaced = <<e>> /\ q.observations = <<o>>
                 /\ e.snapshot.product # o.snapshot.product
    BY <1>6, <1>9
  <2>2. r.observations = <<o, e>>
    BY <1>9, <2>1, Joined, Zenon
  <2>3. QED
    BY <1>6, <2>1, <2>2, Zenon DEF Reports
<1>10. QED
  BY <1>7, <1>8, <1>9

--------------------------------------------------------------------------------
(* The three stores alike.                                                   *)

\* What an answer reports of the product that counts at an instant, what it
\* reports of a product that it ended, and either.
Current(ask, t, o) ==
    /\ provider = "apple" => AppleSeen(ask, t, o)
    /\ provider = "google" => GoogleCurrent(ask, t, o)
    /\ provider = "huawei" => HuaweiSeen(ask, t, o)
Ended(ask, t, o) == provider = "google" /\ GoogleEnded(ask, t, o)
Reported(ask, t, o) == Current(ask, t, o) \/ Ended(ask, t, o)

Agrees(o, p) == o.snapshot = p.snapshot /\ o.refs = p.refs /\ PricesAgree(o.price, p.price)
Grants(said, p, t) ==
    /\ provider = "apple" => AppleStore!StoreGrants(said, p, t)
    /\ provider = "google" => GoogleStore!StoreGrants(said, p, t)
    /\ provider = "huawei" => HuaweiStore!StoreGrants(said, p, t)
Allowed(o, t) == AccessAt(o.snapshot.access, o.snapshot.end, t) = "allowed"

Providers == {"apple", "google", "huawei"}

\* An identity stands for one snapshot, whatever answer and instant it is from.
LEMMA Determined ==
    ASSUME provider \in Providers, NEW a \in Asks[provider], NEW b \in Asks[provider], NEW t, NEW u, NEW o, NEW p,
           Reported(a, t, o), Reported(b, u, p), o.id = p.id
    PROVE  Agrees(o, p)
<1>1. CASE provider = "apple"
  <2>1. a \in Asks["apple"] /\ b \in Asks["apple"] /\ AppleSeen(a, t, o) /\ AppleSeen(b, u, p)
    BY <1>1 DEF Reported, Current, Ended
  <2> QED BY <2>1, AppleDetermined DEF Agrees
<1>2. CASE provider = "google"
  <2>1. GoogleSeen(a, t, o) /\ GoogleSeen(b, u, p)
    BY <1>2 DEF Reported, Current, Ended, GoogleSeen
  <2> QED BY <2>1, GoogleDetermined DEF Agrees, PricesAgree
<1>3. CASE provider = "huawei"
  <2>1. a \in Asks["huawei"] /\ b \in Asks["huawei"] /\ HuaweiSeen(a, t, o) /\ HuaweiSeen(b, u, p)
    BY <1>3 DEF Reported, Current, Ended
  <2> QED BY <2>1, HuaweiDetermined DEF Agrees, PricesAgree
<1> QED BY <1>1, <1>2, <1>3 DEF Providers

\* What an answer reports of the product that counts is served as the answer
\* says, at once and later;
LEMMA Serves ==
    ASSUME provider \in Providers, NEW ask \in Asks[provider], NEW t \in Nat, NEW o, Current(ask, t, o)
    PROVE  /\ \A u \in Nat : t <= u /\ Allowed(o, u) => Grants(Said(ask), o.snapshot.product, u)
           /\ Grants(Said(ask), o.snapshot.product, t) => Allowed(o, t)
<1>1. CASE provider = "apple"
  <2>1. ask \in Asks["apple"] /\ AppleSeen(ask, t, o)
    BY <1>1 DEF Current
  <2>2. \A u \in Nat : t <= u /\ Allowed(o, u) => AppleStore!StoreGrants(Said(ask), o.snapshot.product, u)
    BY <1>1, <2>1, AppleServes DEF Allowed
  <2>3. AppleStore!StoreGrants(Said(ask), o.snapshot.product, t) => Allowed(o, t)
    BY <1>1, <2>1, AppleServes DEF Allowed
  <2> QED BY <1>1, <2>2, <2>3 DEF Grants
<1>2. CASE provider = "google"
  <2>1. ask \in Asks["google"] /\ GoogleCurrent(ask, t, o)
    BY <1>2 DEF Current
  <2>2. \A u \in Nat : t <= u /\ Allowed(o, u) => GoogleStore!StoreGrants(Said(ask), o.snapshot.product, u)
    BY <1>2, <2>1, GoogleServes DEF Allowed
  <2>3. GoogleStore!StoreGrants(Said(ask), o.snapshot.product, t) => Allowed(o, t)
    BY <1>2, <2>1, GoogleServes DEF Allowed
  <2> QED BY <1>2, <2>2, <2>3 DEF Grants
<1>3. CASE provider = "huawei"
  <2>1. ask \in Asks["huawei"] /\ HuaweiSeen(ask, t, o)
    BY <1>3 DEF Current
  <2>2. \A u \in Nat : t <= u /\ Allowed(o, u) => HuaweiStore!StoreGrants(Said(ask), o.snapshot.product, u)
    BY <1>3, <2>1, HuaweiServes DEF Allowed
  <2>3. HuaweiStore!StoreGrants(Said(ask), o.snapshot.product, t) => Allowed(o, t)
    BY <1>3, <2>1, HuaweiServes DEF Allowed
  <2> QED BY <1>3, <2>2, <2>3 DEF Grants
<1> QED BY <1>1, <1>2, <1>3 DEF Providers

\* a product that the answer ended is not served.
LEMMA Ends ==
    ASSUME NEW ask \in Asks[provider], NEW t \in Nat, NEW o, Ended(ask, t, o)
    PROVE  (\A u : ~ Allowed(o, u)) /\ ~ Grants(Said(ask), o.snapshot.product, t) /\ o.at = 2 * t - 1
<1>1. provider = "google" /\ ask \in Asks["google"] /\ GoogleEnded(ask, t, o)
  BY DEF Ended
<1>2. o.snapshot.access = "denied" /\ ~ GoogleStore!StoreGrants(Said(ask), o.snapshot.product, t) /\ o.at = 2 * t - 1
  BY <1>1, GoogleEnds
<1>3. \A u : ~ Allowed(o, u)
  BY <1>2 DEF Allowed, AccessAt
<1>4. ~ Grants(Said(ask), o.snapshot.product, t)
  BY <1>1, <1>2 DEF Grants
<1> QED BY <1>2, <1>3, <1>4

\* A sighting of the product that counts is at the instant of the answer.
LEMMA CurrentAt ==
    ASSUME provider \in Providers, NEW ask \in Asks[provider], NEW t, NEW o, Current(ask, t, o)
    PROVE  o.at = 2 * t
<1>1. CASE provider = "apple"
  <2>1. PICK tr, status, renewal :
               /\ tr \in Transactions(ask)
               /\ o = AppleStore!observation(ask.request, ask.request.kind, tr, status, renewal, t)
    BY <1>1 DEF Current, AppleSeen
  <2> QED BY <2>1, AppleObserved
<1>2. CASE provider = "google"
  <2>1. CASE ask.request.kind = "subscription"
    <3>1. PICK token, renewal, item :
                 o = GoogleStore!currentObservation(ask.request.application, token, ask.server.purchase, item, renewal, 2 * t)
      BY <1>2, <2>1 DEF Current, GoogleCurrent
    <3>2. PICK at : at = 2 * t
      OBVIOUS
    <3>3. o = GoogleStore!currentObservation(ask.request.application, token, ask.server.purchase, item, renewal, at)
      BY <3>1, <3>2
    <3> QED BY <3>2, <3>3, GoogleCurrentIs
  <2>2. CASE ask.request.kind # "subscription"
    <3>1. PICK token : o = GoogleOnce(ask.request.application, token, ask.server.purchase, ask.server.purchase.items[1], 2 * t)
      BY <1>2, <2>2 DEF Current, GoogleCurrent
    <3>2. PICK at, item : at = 2 * t /\ item = ask.server.purchase.items[1]
      OBVIOUS
    <3>3. o = GoogleOnce(ask.request.application, token, ask.server.purchase, item, at)
      BY <3>1, <3>2
    <3> QED BY <3>2, <3>3, GoogleOnceIs
  <2> QED BY <2>1, <2>2
<1>3. CASE provider = "huawei"
  <2>1. o = HuaweiStore!observation(ask.request.application, ask.request.kind, ask.server.purchase, t)
    BY <1>3 DEF Current, HuaweiSeen
  <2> QED BY <2>1, HuaweiObserved
<1> QED BY <1>1, <1>2, <1>3 DEF Providers

\* What a row keeps of an App Store transaction: its references, and a price
\* that no answer contradicts.
Kept(id, price, refs) ==
    provider = "apple" =>
      /\ refs = AppleStore!observationReferences(id.t)
      /\ \A ask \in Asks["apple"] : \A tr \in Transactions(ask) : Unpriced(tr) = id.t => PricesAgree(tr.price, price)

LEMMA UnpricedReferences ==
    ASSUME NEW tr, DOMAIN tr = TransactionFields
    PROVE  AppleStore!observationReferences(Unpriced(tr)) = AppleStore!observationReferences(tr)
<1>1. PICK u : u = Unpriced(tr)
  OBVIOUS
<1>2. DOMAIN u = TransactionFields /\ Unpriced(u) = Unpriced(tr)
  BY <1>1 DEF Unpriced
<1> QED BY <1>1, <1>2, AppleReferences

\* An observation of the App Store is about a transaction of the answer.
LEMMA AppleTransaction ==
    ASSUME NEW ask \in Asks["apple"], NEW t, NEW o, AppleSeen(ask, t, o)
    PROVE  \E tr \in Transactions(ask) :
             /\ o.id.t = Unpriced(tr) /\ o.price = tr.price /\ o.refs = AppleStore!observationReferences(tr)
             /\ o.prior # << >> => o.prior = <<o.prior[1]>> /\ o.prior[1].t = Unpriced(tr)
<1>1. PICK tr, status, renewal :
             /\ tr \in Transactions(ask)
             /\ o = AppleStore!observation(ask.request, ask.request.kind, tr, status, renewal, t)
  BY DEF AppleSeen
<1>2. /\ o.id = AppleStore!observationSnapshotIdentity(ask.request.application.id, tr, o.snapshot, o.snapshot.end)
      /\ o.prior \in {<< >>, <<AppleStore!observationSnapshotIdentity(ask.request.application.id, tr, o.snapshot, tr.expires)>>}
      /\ o.price = tr.price /\ o.refs = AppleStore!observationReferences(tr)
  BY <1>1, AppleObserved
<1>3. o.id.t = Unpriced(tr)
  <2>1. PICK application, snapshot, end : application = ask.request.application.id /\ snapshot = o.snapshot /\ end = o.snapshot.end
    OBVIOUS
  <2> QED BY <1>2, <2>1, AppleIdentity
<1>4. ASSUME o.prior # << >> PROVE o.prior = <<o.prior[1]>> /\ o.prior[1].t = Unpriced(tr)
  <2>1. PICK application, snapshot, end : application = ask.request.application.id /\ snapshot = o.snapshot /\ end = tr.expires
    OBVIOUS
  <2>2. PICK prior : prior = AppleStore!observationSnapshotIdentity(application, tr, snapshot, end)
    OBVIOUS
  <2>3. prior.t = Unpriced(tr)
    BY <2>2, AppleIdentity
  <2>4. o.prior = <<prior>>
    BY <1>2, <1>4, <2>1, <2>2
  <2> QED BY <2>3, <2>4
<1> QED BY <1>1, <1>2, <1>3, <1>4

LEMMA ReportedKept ==
    ASSUME provider \in Providers, NEW ask \in Asks[provider], NEW t, NEW o, Reported(ask, t, o)
    PROVE  /\ Kept(o.id, o.price, o.refs)
           /\ o.prior # << >> =>
                /\ o.prior = <<o.prior[1]>>
                /\ \A price, refs : Kept(o.prior[1], price, refs) => refs = o.refs
<1>1. CASE provider = "apple"
  <2>1. ask \in Asks["apple"] /\ AppleSeen(ask, t, o)
    BY <1>1 DEF Reported, Current, Ended
  <2>2. PICK tr \in Transactions(ask) :
             /\ o.id.t = Unpriced(tr) /\ o.price = tr.price /\ o.refs = AppleStore!observationReferences(tr)
             /\ o.prior # << >> => o.prior = <<o.prior[1]>> /\ o.prior[1].t = Unpriced(tr)
    BY <2>1, AppleTransaction
  <2>3. AppleStore!observationReferences(Unpriced(tr)) = o.refs
    BY <2>1, <2>2, AppleAnswersAre, UnpricedReferences
  <2>4. \A b \in Asks["apple"] : \A u \in Transactions(b) : Unpriced(u) = o.id.t => PricesAgree(u.price, o.price)
    BY <2>1, <2>2, AnswersAssumption
  <2> QED BY <1>1, <2>2, <2>3, <2>4 DEF Kept
<1>2. CASE provider = "google"
  <2>1. GoogleSeen(ask, t, o)
    BY <1>2 DEF Reported, Current, Ended, GoogleSeen
  <2>2. o.prior = << >>
    BY <2>1, GoogleKinds, GoogleShapes
  <2> QED BY <1>2, <2>2 DEF Kept
<1>3. CASE provider = "huawei"
  <2>1. o = HuaweiStore!observation(ask.request.application, ask.request.kind, ask.server.purchase, t)
    BY <1>3 DEF Reported, Current, Ended, HuaweiSeen
  <2>2. o.prior = << >>
    BY <2>1, HuaweiObserved
  <2> QED BY <1>3, <2>2 DEF Kept
<1> QED BY <1>1, <1>2, <1>3 DEF Providers

\* An observation in grace tells the grace end, unlike a row of an earlier release.
LEMMA GraceShows ==
    ASSUME NEW kind, NEW tr, NEW status, NEW renewal, NEW t,
           kind = "subscription" => status \in 1 .. 5 /\ (status = 4 => renewal.grace # tr.expires),
           AppleDecision(kind, tr, status, renewal, t).access[1] = "grace_period"
    PROVE  AppleDecision(kind, tr, status, renewal, t).end # tr.expires
<1>1. CASE kind = "subscription"
  <2>1. ~ tr.revoked /\ status = 4
    <3>1. ASSUME tr.revoked PROVE FALSE
      BY <1>1, <3>1 DEF AppleDecision, AppleStore!normalizeSubscriptionStatus, AppleStore!Decision, AppleStore!normalizeState
    <3>2. ASSUME ~ tr.revoked, status = 1 PROVE FALSE
      BY <1>1, <3>2 DEF AppleDecision, AppleStore!normalizeSubscriptionStatus, AppleStore!Decision, AppleStore!normalizeActive
    <3>3. ASSUME ~ tr.revoked, status \in {2, 3, 5} PROVE FALSE
      BY <1>1, <3>3 DEF AppleDecision, AppleStore!normalizeSubscriptionStatus, AppleStore!Decision
    <3> QED BY <1>1, <3>1, <3>2, <3>3
  <2>2. AppleDecision(kind, tr, status, renewal, t).end = renewal.grace
    BY <1>1, <2>1 DEF AppleDecision, AppleStore!normalizeSubscriptionStatus, AppleStore!Decision
  <2> QED BY <1>1, <2>1, <2>2
<1>2. CASE kind # "subscription"
  BY <1>2 DEF AppleDecision, AppleStore!Decision, AppleStore!normalizeState
<1> QED BY <1>1, <1>2

LEMMA NotLegacy ==
    ASSUME NEW ask \in Asks["apple"], NEW t, NEW o, AppleSeen(ask, t, o), NEW row, LegacyRow(row)
    PROVE  o.id # row.id
<1> SUFFICES ASSUME o.id = row.id PROVE FALSE
  OBVIOUS
<1>1. PICK tr, status, renewal :
        /\ tr \in Transactions(ask)
        /\ o = AppleStore!observation(ask.request, ask.request.kind, tr, status, renewal, t)
        /\ ask.request.kind = "subscription" => status \in 1 .. 5 /\ (status = 4 => renewal.grace # tr.expires)
  BY DEF AppleSeen
<1>2. PICK kind : kind = ask.request.kind
  OBVIOUS
<1>3. PICK decision : decision = AppleDecision(kind, tr, status, renewal, t)
  OBVIOUS
<1>4. /\ o.snapshot = AppleSnapshot(kind, tr, decision, AppleRenews(kind, renewal, t))
      /\ o.id = AppleStore!observationSnapshotIdentity(ask.request.application.id, tr, o.snapshot, o.snapshot.end)
  BY <1>1, <1>2, <1>3, AppleObserved
<1>5. o.snapshot.state = decision.access[1] /\ o.snapshot.end = decision.end
  BY <1>4 DEF AppleSnapshot
<1>6. /\ o.id.expiry = AppleStore!snapshotExpiresIdentity(tr.expires, o.snapshot.end)
      /\ o.id.decision = <<o.snapshot.state, o.snapshot.access, o.snapshot.reason>>
  <2>1. PICK application, snapshot, end : application = ask.request.application.id /\ snapshot = o.snapshot /\ end = o.snapshot.end
    OBVIOUS
  <2> QED BY <1>4, <2>1, AppleIdentity
<1>7. o.id.decision[1] = decision.access[1]
  BY <1>5, <1>6
<1>8. decision.access[1] = "grace_period" /\ o.id.expiry = <<o.id.expiry[1]>>
  BY <1>7 DEF LegacyRow
<1>9. o.snapshot.end # tr.expires
  BY <1>1, <1>2, <1>3, <1>5, <1>8, GraceShows
<1>10. o.id.expiry = <<AppleStore!Value(tr.expires), AppleStore!Value(o.snapshot.end)>>
  BY <1>6, <1>9 DEF AppleStore!snapshotExpiresIdentity
<1>11. \A x, y, z : <<x, y>> # <<z>>
  OBVIOUS
<1> QED BY <1>8, <1>10, <1>11

\* An answer reports the product that counts, alone or with one that it ended.
Finds(ask, t, o, observations) ==
    \/ observations = <<o>>
    \/ \E e : Ended(ask, t, e) /\ e.snapshot.product # o.snapshot.product /\ observations = <<o, e>>

LEMMA Answered ==
    ASSUME provider \in Providers, NEW ask \in Asks[provider], NEW request, ask.verify => request = ask.request,
           request.application = ask.request.application, request.kind = ask.request.kind,
           NEW found, found = Answer(ask, request), found.ok
    PROVE  \E o : Current(ask, now, o) /\ Finds(ask, now, o, found.observations)
<1>1. CASE provider = "apple"
  <2>0. ask \in Asks["apple"]
    BY <1>1
  <2>1. CASE ask.verify
    <3>1. found = AppleStore!Verify(ask.request, ask.server, now)
      BY <1>1, <2>1 DEF Answer
    <3>2. PICK o : AppleSeen(ask, now, o) /\ found.observations = <<o>>
      BY <1>1, <2>0, <3>1, AppleVerified
    <3> QED BY <1>1, <3>2 DEF Current, Finds
  <2>2. CASE ~ ask.verify
    <3>1. found = AppleStore!Reconcile(request, ask.server, now)
      BY <1>1, <2>2 DEF Answer
    <3>2. PICK o : AppleSeen(ask, now, o) /\ found.observations = <<o>>
      BY <1>1, <2>0, <3>1, AppleReconciled
    <3> QED BY <1>1, <3>2 DEF Current, Finds
  <2> QED BY <2>1, <2>2
<1>2. CASE provider = "google"
  <2>0. ask \in Asks["google"]
    BY <1>2
  <2>1. found = GoogleStore!Verify(request, ask.server, now) \/ found = GoogleStore!Reconcile(request, ask.server, now)
    BY <1>2 DEF Answer
  <2>2. PICK o : GoogleCurrent(ask, now, o) /\ Reports(ask, now, o, found.observations)
    BY <2>0, <2>1, GoogleAnswered
  <2>3. Current(ask, now, o)
    BY <1>2, <2>2 DEF Current
  <2>4. Finds(ask, now, o, found.observations)
    BY <1>2, <2>2 DEF Finds, Reports, Ended
  <2> QED BY <2>3, <2>4
<1>3. CASE provider = "huawei"
  <2>0. ask \in Asks["huawei"]
    BY <1>3
  <2>1. found = HuaweiStore!Verify(request, ask.server, now) \/ found = HuaweiStore!Reconcile(request, ask.server, now)
    BY <1>3 DEF Answer
  <2>2. PICK o : HuaweiSeen(ask, now, o) /\ found.observations = <<o>>
    BY <2>0, <2>1, HuaweiAnswered
  <2> QED BY <1>3, <2>2 DEF Current, Finds
<1> QED BY <1>1, <1>2, <1>3 DEF Providers

--------------------------------------------------------------------------------
(* What is stored.                                                           *)

RowFields == {"id", "snapshot", "price", "at", "refs"}

\* A row says what every answer with its identity reports.
RowFits(r) ==
    /\ DOMAIN r = RowFields /\ r = [x \in RowFields |-> r[x]] /\ r.at \in Nat
    /\ \A ask \in Asks[provider] : \A t, o : Reported(ask, t, o) /\ o.id = r.id => Agrees(r, o)
    /\ Kept(r.id, r.price, r.refs)

RowsFit(stored) == \A r \in stored : RowFits(r)
OneEach(stored) == \A r, s \in stored : r.id = s.id => r = s

\* A saved row replaces the one with its identity.
Replaces(stored, new) == {r \in stored : r.id # new.id} \cup {new}

LEMMA ReplacesKeeps ==
    ASSUME NEW stored, NEW new, RowsFit(stored), OneEach(stored), RowFits(new)
    PROVE  RowsFit(Replaces(stored, new)) /\ OneEach(Replaces(stored, new))
BY DEF RowsFit, OneEach, Replaces

SavedAs(stored, o, new) ==
    /\ SaveObservation([ok |-> TRUE, rows |-> stored], o) = [ok |-> TRUE, rows |-> Replaces(stored, new)]
    /\ new.snapshot = o.snapshot /\ new.at = o.at /\ RowFits(new)
    /\ \A r \in stored : r.id = new.id => r.snapshot = o.snapshot

\* The identity a row is stored under.
LEMMA Reuses ==
    ASSUME NEW stored, NEW o, NEW id, id = reuseMatchingSnapshot(stored, o)
    PROVE  \/ id = o.id
           \/ /\ o.prior # << >> /\ id = o.prior[1]
              /\ \E r \in stored : r.id = id /\ r.snapshot = o.snapshot /\ o.price \in {<< >>, r.price}
BY DEF reuseMatchingSnapshot, observationMatches

LEMMA SavesNew ==
    ASSUME provider \in Providers, NEW ask \in Asks[provider], NEW t, NEW o, Reported(ask, t, o), o.at \in Nat,
           NEW stored, NEW id, id = reuseMatchingSnapshot(stored, o), insertObservation(stored, id)
    PROVE  \E new : SavedAs(stored, o, new)
<1>1. id = o.id
  BY Reuses DEF insertObservation
<1>2. PICK new : new = [Stored(o) EXCEPT !.id = id]
  OBVIOUS
<1>3. /\ DOMAIN new = RowFields /\ new = [x \in RowFields |-> new[x]] /\ new.id = o.id /\ new.snapshot = o.snapshot
      /\ new.at = o.at /\ new.price = o.price /\ new.refs = o.refs
  BY <1>1, <1>2 DEF Stored, RowFields
<1>4. RowFits(new)
  <2>1. \A a \in Asks[provider] : \A u, p : Reported(a, u, p) /\ p.id = new.id => Agrees(new, p)
    <3> SUFFICES ASSUME NEW a \in Asks[provider], NEW u, NEW p, Reported(a, u, p), p.id = new.id PROVE Agrees(new, p)
      OBVIOUS
    <3>1. Agrees(o, p)
      BY <1>3, Determined
    <3> QED BY <1>3, <3>1 DEF Agrees
  <2>2. Kept(new.id, new.price, new.refs)
    BY <1>3, ReportedKept
  <2> QED BY <1>3, <2>1, <2>2 DEF RowFits
<1>5. SaveObservation([ok |-> TRUE, rows |-> stored], o) = [ok |-> TRUE, rows |-> Replaces(stored, new)]
  <2>1. PICK start : start = [ok |-> TRUE, rows |-> stored]
    OBVIOUS
  <2>2. start.ok /\ start.rows = stored
    BY <2>1
  <2>3. SaveObservation(start, o) = [start EXCEPT !.rows = @ \cup {new}]
    BY <1>2, <2>2 DEF SaveObservation
  <2>4. [start EXCEPT !.rows = @ \cup {new}] = [ok |-> TRUE, rows |-> stored \cup {new}]
    <3>1. PICK all : all = stored \cup {new}
      OBVIOUS
    <3>2. \A yes, a, b : [[ok |-> yes, rows |-> a] EXCEPT !.rows = b] = [ok |-> yes, rows |-> b]
      OBVIOUS
    <3>3. PICK yes : yes = TRUE
      OBVIOUS
    <3>4. start = [ok |-> yes, rows |-> stored]
      BY <2>1, <3>3, Zenon
    <3>5. start.rows \cup {new} = all
      BY <2>2, <3>1
    <3>6. [start EXCEPT !.rows = all] = [ok |-> yes, rows |-> all]
      BY <3>2, <3>4
    <3>7. [start EXCEPT !.rows = start.rows \cup {new}] = [start EXCEPT !.rows = all]
      BY <3>5
    <3> QED BY <3>1, <3>3, <3>6, <3>7, Zenon
  <2>5. Replaces(stored, new) = stored \cup {new}
    BY <1>1, <1>3 DEF Replaces, insertObservation
  <2> QED BY <2>1, <2>3, <2>4, <2>5
<1>6. \A r \in stored : r.id # new.id
  BY <1>1, <1>3 DEF insertObservation
<1> QED BY <1>3, <1>4, <1>5, <1>6 DEF SavedAs

\* The row of a snapshot that is stored already, with a price it lacked.
Enriched(r, o) == IF r.price = << >> THEN [r EXCEPT !.price = o.price] ELSE r

LEMMA EnrichedIs ==
    ASSUME NEW r, DOMAIN r = RowFields, NEW o
    PROVE  /\ DOMAIN Enriched(r, o) = RowFields /\ Enriched(r, o).id = r.id /\ Enriched(r, o).snapshot = r.snapshot
           /\ Enriched(r, o).at = r.at /\ Enriched(r, o).refs = r.refs
           /\ \/ r.price = << >> /\ Enriched(r, o).price = o.price
              \/ r.price # << >> /\ Enriched(r, o).price = r.price
BY DEF Enriched, RowFields

LEMMA RefreshIs ==
    ASSUME NEW r, DOMAIN r = RowFields, NEW o, r.at \in Nat, o.at \in Nat, r.at < o.at, NEW new, new = refreshObservationTime(r, o)
    PROVE  /\ DOMAIN new = RowFields /\ new = [x \in RowFields |-> new[x]] /\ new.at = o.at
           /\ new.id = r.id /\ new.snapshot = r.snapshot /\ new.refs = r.refs /\ new.price = r.price
BY DEF refreshObservationTime, RowFields

LEMMA SavesAgain ==
    ASSUME provider \in Providers, NEW ask \in Asks[provider], NEW t, NEW o, Reported(ask, t, o), o.at \in Nat,
           NEW stored, RowsFit(stored), OneEach(stored), \A r \in stored : r.snapshot = o.snapshot => r.at < o.at,
           NEW id, id = reuseMatchingSnapshot(stored, o), NEW old \in stored, old.id = id
    PROVE  \E new : SavedAs(stored, o, new)
<1>1. \A r \in stored : r.id = id => r = old
  BY DEF OneEach
<1>2. \/ id = o.id /\ Agrees(old, o)
      \/ id # o.id /\ o.prior # << >> /\ id = o.prior[1] /\ old.snapshot = o.snapshot /\ o.price \in {<< >>, old.price}
  BY <1>1, Reuses DEF RowsFit, RowFits
<1>3. DOMAIN old = RowFields /\ old.at \in Nat /\ Kept(old.id, old.price, old.refs)
  BY DEF RowsFit, RowFits
<1>4. old.snapshot = o.snapshot
  BY <1>2 DEF Agrees
<1>5. old.refs = o.refs
  BY <1>2, <1>3, ReportedKept DEF Agrees
<1>6. PICK rich : rich = Enriched(old, o)
  OBVIOUS
<1>7. /\ DOMAIN rich = RowFields /\ rich.id = id /\ rich.snapshot = o.snapshot /\ rich.at = old.at /\ rich.refs = o.refs
      /\ \/ old.price = << >> /\ rich.price = o.price
         \/ old.price # << >> /\ rich.price = old.price
  BY <1>3, <1>4, <1>5, <1>6, EnrichedIs
<1>8. o.price \in {<< >>, rich.price}
  BY <1>2, <1>7 DEF Agrees, PricesAgree
<1>9. PICK new : new = refreshObservationTime(rich, o)
  OBVIOUS
<1>10. /\ DOMAIN new = RowFields /\ new = [x \in RowFields |-> new[x]] /\ new.at = o.at
       /\ new.id = id /\ new.snapshot = o.snapshot /\ new.refs = o.refs /\ new.price = rich.price
  <2>1. rich.at \in Nat /\ rich.at < o.at
    BY <1>3, <1>4, <1>7
  <2>2. /\ DOMAIN new = RowFields /\ new = [x \in RowFields |-> new[x]] /\ new.at = o.at
        /\ new.id = rich.id /\ new.snapshot = rich.snapshot /\ new.refs = rich.refs /\ new.price = rich.price
    BY <1>7, <1>9, <2>1, RefreshIs
  <2> QED BY <1>7, <2>2
<1>11. RowFits(new)
  <2>1. \A a \in Asks[provider] : \A u, p : Reported(a, u, p) /\ p.id = new.id => Agrees(new, p)
    <3> SUFFICES ASSUME NEW a \in Asks[provider], NEW u, NEW p, Reported(a, u, p), p.id = new.id PROVE Agrees(new, p)
      OBVIOUS
    <3>1. Agrees(old, p)
      BY <1>10 DEF RowsFit, RowFits
    <3>2. id = o.id => Agrees(o, p)
      BY <1>10, Determined
    <3>3. PricesAgree(rich.price, p.price)
      BY <1>2, <1>7, <3>1, <3>2 DEF Agrees, PricesAgree
    <3> QED BY <1>4, <1>5, <1>10, <3>1, <3>3 DEF Agrees
  <2>2. id = o.id => Kept(o.id, o.price, o.refs)
    BY ReportedKept
  <2>3. Kept(new.id, new.price, new.refs)
    <3>1. CASE new.price = old.price
      BY <1>3, <1>5, <1>10, <3>1
    <3>2. CASE new.price # old.price
      <4>1. id = o.id /\ new.price = o.price
        BY <1>2, <1>7, <1>10, <3>2
      <4> QED BY <1>10, <2>2, <4>1
    <3> QED BY <3>1, <3>2
  <2> QED BY <1>10, <2>1, <2>3 DEF RowFits
<1>12. PICK enriched : enriched = enrichObservationPrice(stored, id, o)
  OBVIOUS
<1>13. enriched = {r \in stored : r.id # id} \cup {rich}
  <2>1. \A r \in stored : (IF r.id = id /\ r.price = << >> THEN [r EXCEPT !.price = o.price] ELSE r)
                             = IF r.id = id THEN rich ELSE r
    BY <1>1, <1>6 DEF Enriched
  <2>2. enriched = {IF r.id = id THEN rich ELSE r : r \in stored}
    BY <1>12, <2>1 DEF enrichObservationPrice
  <2> QED BY <2>2
<1>14. {IF r.id = id THEN refreshObservationTime(r, o) ELSE r : r \in enriched} = Replaces(stored, new)
  <2>1. \A r \in enriched : (IF r.id = id THEN refreshObservationTime(r, o) ELSE r) = IF r.id = id THEN new ELSE r
    BY <1>7, <1>9, <1>13
  <2>2. {IF r.id = id THEN refreshObservationTime(r, o) ELSE r : r \in enriched} = {IF r.id = id THEN new ELSE r : r \in enriched}
    BY <2>1
  <2> QED BY <1>7, <1>10, <1>13, <2>2 DEF Replaces
<1>15. observationMatches(enriched, id, o) /\ verifyObservationReferences(enriched, id, o)
  BY <1>7, <1>8, <1>13 DEF observationMatches, verifyObservationReferences
<1>16. SaveObservation([ok |-> TRUE, rows |-> stored], o) = [ok |-> TRUE, rows |-> Replaces(stored, new)]
  <2>1. PICK start : start = [ok |-> TRUE, rows |-> stored]
    OBVIOUS
  <2>2. start.ok /\ start.rows = stored
    BY <2>1
  <2>3. ~ insertObservation(stored, id)
    BY DEF insertObservation
  <2>4. SaveObservation(start, o) =
          [ok |-> observationMatches(enriched, id, o) /\ verifyObservationReferences(enriched, id, o),
           rows |-> {IF r.id = id THEN refreshObservationTime(r, o) ELSE r : r \in enriched}]
    BY <1>12, <2>2, <2>3 DEF SaveObservation
  <2> QED BY <1>14, <1>15, <2>1, <2>4
<1>17. \A r \in stored : r.id = new.id => r.snapshot = o.snapshot
  BY <1>1, <1>4, <1>10
<1> QED BY <1>10, <1>11, <1>16, <1>17 DEF SavedAs

\* A row of a store's answer is saved, whatever is stored already.
LEMMA Saves ==
    ASSUME provider \in Providers, NEW ask \in Asks[provider], NEW t, NEW o, Reported(ask, t, o), o.at \in Nat,
           NEW stored, RowsFit(stored), OneEach(stored), \A r \in stored : r.snapshot = o.snapshot => r.at < o.at
    PROVE  \E new : SavedAs(stored, o, new)
<1>1. PICK id : id = reuseMatchingSnapshot(stored, o)
  OBVIOUS
<1>2. CASE insertObservation(stored, id)
  BY <1>1, <1>2, SavesNew
<1>3. CASE ~ insertObservation(stored, id)
  <2>1. PICK old \in stored : old.id = id
    BY <1>3 DEF insertObservation
  <2> QED BY <1>1, <2>1, SavesAgain
<1> QED BY <1>2, <1>3

\* The rows after one observation, and after two.
Start == [ok |-> TRUE, rows |-> rows]
SavesInTurn(observations, f) ==
    f = [n \in 0 .. Len(observations) |-> IF n = 0 THEN Start ELSE SaveObservation(f[n - 1], observations[n])]

LEMMA Persists ==
    ASSUME NEW found, NEW observations, observations = found.observations, NEW g, SavesInTurn(observations, g)
    PROVE  \E f : SavesInTurn(observations, f) /\ persist(found) = f[Len(observations)]
<1>1. PICK f : f = CHOOSE h : SavesInTurn(observations, h)
  OBVIOUS
<1>2. SavesInTurn(observations, f)
  BY <1>1
<1>3. persist(found) = f[Len(observations)]
  BY <1>1 DEF persist, SavesInTurn, Start
<1> QED BY <1>2, <1>3

LEMMA PersistsOne ==
    ASSUME NEW found, NEW o, found.observations = <<o>>
    PROVE  persist(found) = SaveObservation(Start, o)
<1>1. PICK observations : observations = <<o>>
  OBVIOUS
<1>2. Len(observations) = 1 /\ observations[1] = o /\ 0 .. 1 = {0, 1}
  BY <1>1
<1>3. PICK g : g = [n \in 0 .. 1 |-> IF n = 0 THEN Start ELSE SaveObservation(Start, o)]
  OBVIOUS
<1>4. SavesInTurn(observations, g)
  <2>1. g[0] = Start
    BY <1>3
  <2>2. \A n \in 0 .. 1 : n # 0 => n = 1
    OBVIOUS
  <2>3. \A n \in 0 .. 1 : (IF n = 0 THEN Start ELSE SaveObservation(Start, o))
                            = IF n = 0 THEN Start ELSE SaveObservation(g[n - 1], observations[n])
    BY <1>2, <2>1, <2>2
  <2> QED BY <1>2, <1>3, <2>3 DEF SavesInTurn
<1>5. PICK f : SavesInTurn(observations, f) /\ persist(found) = f[Len(observations)]
  BY <1>1, <1>4, Persists
<1>6. f[0] = Start /\ f[1] = SaveObservation(f[0], observations[1])
  BY <1>2, <1>5 DEF SavesInTurn
<1> QED BY <1>2, <1>5, <1>6

LEMMA PersistsTwo ==
    ASSUME NEW found, NEW o, NEW e, found.observations = <<o, e>>
    PROVE  persist(found) = SaveObservation(SaveObservation(Start, o), e)
<1>1. PICK observations : observations = <<o, e>>
  OBVIOUS
<1>2. Len(observations) = 2 /\ observations[1] = o /\ observations[2] = e
  BY <1>1
<1>3. PICK first : first = SaveObservation(Start, o)
  OBVIOUS
<1>4. PICK g : g = [n \in 0 .. 2 |-> IF n = 0 THEN Start ELSE IF n = 1 THEN first ELSE SaveObservation(first, e)]
  OBVIOUS
<1>5. SavesInTurn(observations, g)
  <2>1. g[0] = Start /\ g[1] = first
    BY <1>4
  <2>2. \A n \in 0 .. 2 : n # 0 => n = 1 \/ n = 2
    OBVIOUS
  <2>3. SaveObservation(g[1 - 1], observations[1]) = first /\ SaveObservation(g[2 - 1], observations[2]) = SaveObservation(first, e)
    BY <1>2, <1>3, <2>1
  <2>4. \A n \in 0 .. 2 : (IF n = 0 THEN Start ELSE IF n = 1 THEN first ELSE SaveObservation(first, e))
                            = IF n = 0 THEN Start ELSE SaveObservation(g[n - 1], observations[n])
    BY <2>2, <2>3
  <2> QED BY <1>2, <1>4, <2>4 DEF SavesInTurn
<1>6. PICK f : SavesInTurn(observations, f) /\ persist(found) = f[Len(observations)]
  BY <1>1, <1>5, Persists
<1>7. f[0] = Start /\ f[1] = SaveObservation(f[0], observations[1]) /\ f[2] = SaveObservation(f[1], observations[2])
  BY <1>2, <1>6 DEF SavesInTurn
<1> QED BY <1>2, <1>6, <1>7

\* One row of a product is newer than its others, and says what the answer reports.
Leads(stored, o, r) ==
    /\ r \in stored /\ r.snapshot = o.snapshot
    /\ \A s \in stored : s.snapshot.product = o.snapshot.product /\ s # r => s.at < r.at

\* Rows of a product an answer does not report stay as they were.
SameFor(p, before, after) == \A r : r.snapshot.product = p => (r \in after <=> r \in before)

LEMMA ReplacesRows ==
    ASSUME NEW stored, NEW o, NEW new, SavedAs(stored, o, new), NEW bound, \A r \in stored : r.at < bound, o.at = bound
    PROVE  /\ Leads(Replaces(stored, new), o, new) /\ (\A r \in Replaces(stored, new) : r # new => r.at < bound)
           /\ \A p : p # o.snapshot.product => SameFor(p, stored, Replaces(stored, new))
<1>1. \A r \in Replaces(stored, new) : r = new \/ r \in stored
  BY DEF Replaces
<1>2. new \in Replaces(stored, new) /\ new.snapshot = o.snapshot /\ new.at = bound
  BY DEF Replaces, SavedAs
<1>3. Leads(Replaces(stored, new), o, new)
  BY <1>1, <1>2 DEF Leads
<1>4. \A r \in stored : r.snapshot # o.snapshot => r \in Replaces(stored, new)
  BY DEF Replaces, SavedAs
<1>5. \A p : p # o.snapshot.product => SameFor(p, stored, Replaces(stored, new))
  BY <1>1, <1>2, <1>4 DEF SameFor
<1> QED BY <1>1, <1>2, <1>3, <1>5

\* What is stored after an answer: its products lead with what it reports, the
\* one that counts leads all rows, and no other product is touched.
StoredAfter(ask, o, found, after) ==
    /\ RowsFit(after) /\ OneEach(after)
    /\ \E r \in after : Leads(after, o, r) /\ r.at = 2 * now /\ \A s \in after : s # r => s.at < 2 * now
    /\ \A p \in Products(found) :
         \/ p = o.snapshot.product
         \/ \E e, r : Ended(ask, now, e) /\ p = e.snapshot.product /\ Leads(after, e, r)
    /\ \A p : p \notin Products(found) => SameFor(p, rows, after)

LEMMA StoresOne ==
    ASSUME provider \in Providers, now \in Nat \ {0}, NEW ask \in Asks[provider], NEW o, Current(ask, now, o),
           RowsFit(rows), OneEach(rows), \A r \in rows : r.at < 2 * now - 1,
           NEW found, found.observations = <<o>>
    PROVE  \E after : persist(found) = [ok |-> TRUE, rows |-> after] /\ StoredAfter(ask, o, found, after)
<1>1. PICK bound : bound = 2 * now
  OBVIOUS
<1>2. o.at = bound /\ bound \in Nat /\ Reported(ask, now, o)
  BY <1>1, CurrentAt DEF Reported
<1>3. \A r \in rows : r.at < bound
  BY <1>1 DEF RowsFit, RowFits
<1>4. PICK new : SavedAs(rows, o, new)
  BY <1>2, <1>3, Saves
<1>5. PICK after : after = Replaces(rows, new)
  OBVIOUS
<1>6. persist(found) = [ok |-> TRUE, rows |-> after]
  BY <1>4, <1>5, PersistsOne DEF SavedAs, Start
<1>7. RowsFit(after) /\ OneEach(after)
  BY <1>4, <1>5, ReplacesKeeps DEF SavedAs
<1>8. /\ Leads(after, o, new) /\ (\A r \in after : r # new => r.at < bound)
      /\ \A p : p # o.snapshot.product => SameFor(p, rows, after)
  BY <1>2, <1>3, <1>4, <1>5, ReplacesRows
<1>9. Products(found) = {o.snapshot.product}
  BY DEF Products
<1>10. new \in after /\ new.at = 2 * now
  BY <1>1, <1>2, <1>4, <1>5 DEF Replaces, SavedAs
<1>11. StoredAfter(ask, o, found, after)
  BY <1>1, <1>7, <1>8, <1>9, <1>10 DEF StoredAfter
<1> QED BY <1>6, <1>11

LEMMA StoresTwo ==
    ASSUME provider \in Providers, now \in Nat \ {0}, NEW ask \in Asks[provider], NEW o, Current(ask, now, o),
           RowsFit(rows), OneEach(rows), \A r \in rows : r.at < 2 * now - 1,
           NEW e, Ended(ask, now, e), e.snapshot.product # o.snapshot.product,
           NEW found, found.observations = <<o, e>>
    PROVE  \E after : persist(found) = [ok |-> TRUE, rows |-> after] /\ StoredAfter(ask, o, found, after)
<1>1. PICK bound : bound = 2 * now
  OBVIOUS
<1>2. /\ o.at = bound /\ bound \in Nat /\ Reported(ask, now, o) /\ Reported(ask, now, e)
      /\ e.at = bound - 1 /\ e.at \in Nat
  BY <1>1, CurrentAt, Ends DEF Reported
<1>3. \A r \in rows : r.at \in Nat /\ r.at < bound - 1 /\ r.at < bound
  BY <1>1, <1>2 DEF RowsFit, RowFits
<1>4. PICK new : SavedAs(rows, o, new)
  BY <1>2, <1>3, Saves
<1>5. PICK mid : mid = Replaces(rows, new)
  OBVIOUS
<1>6. RowsFit(mid) /\ OneEach(mid)
  BY <1>4, <1>5, ReplacesKeeps DEF SavedAs
<1>7. /\ Leads(mid, o, new) /\ (\A r \in mid : r # new => r.at < bound)
      /\ \A p : p # o.snapshot.product => SameFor(p, rows, mid)
  BY <1>2, <1>3, <1>4, <1>5, ReplacesRows
<1>8. \A r \in mid : r = new \/ r \in rows
  BY <1>5 DEF Replaces
<1>9. new \in mid /\ new.snapshot = o.snapshot /\ new.at = bound
  BY <1>2, <1>4, <1>5 DEF Replaces, SavedAs
<1>10. \A r \in mid : r.snapshot = e.snapshot => r.at < e.at
  BY <1>2, <1>3, <1>8, <1>9
<1>11. PICK newer : SavedAs(mid, e, newer)
  BY <1>2, <1>6, <1>10, Saves
<1>12. PICK after : after = Replaces(mid, newer)
  OBVIOUS
<1>13. persist(found) = [ok |-> TRUE, rows |-> after]
  <2>1. SaveObservation(Start, o) = [ok |-> TRUE, rows |-> mid]
    BY <1>4, <1>5 DEF SavedAs, Start
  <2>2. SaveObservation([ok |-> TRUE, rows |-> mid], e) = [ok |-> TRUE, rows |-> after]
    BY <1>11, <1>12 DEF SavedAs
  <2>3. persist(found) = SaveObservation(SaveObservation(Start, o), e)
    BY PersistsTwo
  <2> QED BY <2>1, <2>2, <2>3, Zenon
<1>14. RowsFit(after) /\ OneEach(after)
  BY <1>6, <1>11, <1>12, ReplacesKeeps DEF SavedAs
<1>15. \A r \in after : r = newer \/ (r \in mid /\ r.id # newer.id)
  BY <1>12 DEF Replaces
<1>16. newer \in after /\ newer.snapshot = e.snapshot /\ newer.at = bound - 1
  BY <1>2, <1>11, <1>12 DEF Replaces, SavedAs
<1>17. \A r \in mid : r.snapshot # e.snapshot => r \in after
  BY <1>11, <1>12 DEF Replaces, SavedAs
<1>18. new \in after /\ new # newer
  BY <1>9, <1>16, <1>17
<1>19. \A r \in after : r # new => r.at < bound
  BY <1>2, <1>7, <1>15, <1>16
<1>20. Leads(after, o, new)
  BY <1>9, <1>18, <1>19 DEF Leads
<1>21. Leads(after, e, newer)
  BY <1>3, <1>8, <1>9, <1>15, <1>16 DEF Leads
<1>22. \A p : p # o.snapshot.product /\ p # e.snapshot.product => SameFor(p, rows, after)
  BY <1>7, <1>15, <1>16, <1>17 DEF SameFor
<1>23. Products(found) = {o.snapshot.product, e.snapshot.product}
  BY DEF Products
<1>24. StoredAfter(ask, o, found, after)
  BY <1>1, <1>9, <1>14, <1>18, <1>19, <1>20, <1>21, <1>22, <1>23 DEF StoredAfter
<1> QED BY <1>13, <1>24

LEMMA Stores ==
    ASSUME provider \in Providers, now \in Nat \ {0}, NEW ask \in Asks[provider], NEW o, Current(ask, now, o),
           RowsFit(rows), OneEach(rows), \A r \in rows : r.at < 2 * now - 1,
           NEW found, Finds(ask, now, o, found.observations)
    PROVE  \E after : persist(found) = [ok |-> TRUE, rows |-> after] /\ StoredAfter(ask, o, found, after)
BY StoresOne, StoresTwo DEF Finds

--------------------------------------------------------------------------------
(* The invariant.                                                            *)

\* The last answer about a product: its leading row says what that answer reported.
Heard(p, said, stored, t) ==
    \E ask \in Asks[provider], u \in Nat : \E o, r :
       u <= t /\ said = <<Said(ask)>> /\ Reported(ask, u, o) /\ o.snapshot.product = p /\ Leads(stored, o, r)

\* The answer of this instant: the product that counts leads all rows, and any
\* other product it told of is one that it ended.
Told(ask, o, r) ==
    /\ Current(ask, now, o) /\ Leads(rows, o, r) /\ (\A s \in rows : s # r => s.at < r.at)
    /\ \A p \in told :
         /\ p \in DOMAIN Catalog /\ heard[p] = <<Said(ask)>>
         /\ p = o.snapshot.product \/ \E e : Ended(ask, now, e) /\ p = e.snapshot.product

Sightings == \A r \in rows : r.at <= 2 * now /\ (~ asked => r.at < 2 * now - 1)
HeardFits == \A p \in DOMAIN Catalog : heard[p] # None => Heard(p, heard[p], rows, now)
ToldFits == told # {} => \E ask \in Asks[provider] : \E o, r : Told(ask, o, r)

AnswersInv ==
    /\ now \in Nat \ {0} /\ provider \in Providers /\ RowsFit(rows) /\ OneEach(rows) /\ Sightings
    /\ HeardFits /\ ToldFits /\ NoSnapshotConflict

\* The store does not change.
LEMMA SameStore ==
    ASSUME provider' = provider
    PROVE  /\ \A ask : Said(ask)' = Said(ask)
           /\ \A ask, t, o : Current(ask, t, o)' <=> Current(ask, t, o)
           /\ \A ask, t, o : Ended(ask, t, o)' <=> Ended(ask, t, o)
           /\ \A ask, t, o : Reported(ask, t, o)' <=> Reported(ask, t, o)
           /\ \A r : RowFits(r)' <=> RowFits(r)
           /\ \A p, said, stored, t : Heard(p, said, stored, t)' <=> Heard(p, said, stored, t)
<1>1. \A ask : Said(ask)' = Said(ask)
  BY DEF Said
<1>2. \A ask, t, o : AppleSeen(ask, t, o)' <=> AppleSeen(ask, t, o)
  BY <1>1 DEF AppleSeen
<1>3. \A ask, t, o : Current(ask, t, o)' <=> Current(ask, t, o)
  BY <1>2 DEF Current, GoogleCurrent, HuaweiSeen
<1>4. \A ask, t, o : Ended(ask, t, o)' <=> Ended(ask, t, o)
  BY DEF Ended, GoogleEnded
<1>5. \A ask, t, o : Reported(ask, t, o)' <=> Reported(ask, t, o)
  BY <1>3, <1>4 DEF Reported
<1>6. \A r : RowFits(r)' <=> RowFits(r)
  BY <1>5 DEF RowFits, Kept
<1>7. \A p, said, stored, t : Heard(p, said, stored, t)' <=> Heard(p, said, stored, t)
  BY <1>1, <1>5 DEF Heard
<1> QED BY <1>1, <1>3, <1>4, <1>5, <1>6, <1>7

LEMMA AnswersInit == Init => AnswersInv
<1> SUFFICES ASSUME Init PROVE AnswersInv
  OBVIOUS
<1>1. now = 1 /\ provider \in Providers /\ rows \in Legacy[provider] \cup {{}}
  BY AnswersAssumption DEF Init, Providers
<1>2. rows # {} => provider = "apple" /\ rows \in Legacy["apple"]
  BY <1>1, AnswersAssumption DEF Providers
<1>3. \A r \in rows : provider = "apple" /\ LegacyRow(r)
  BY <1>2, AnswersAssumption
<1>4. OneEach(rows)
  BY <1>2, AnswersAssumption DEF OneEach
<1>5. ASSUME NEW r \in rows PROVE RowFits(r) /\ r.at = 0
  <2>1. provider = "apple" /\ LegacyRow(r)
    BY <1>3
  <2>2. /\ DOMAIN r = RowFields /\ r = [x \in RowFields |-> r[x]] /\ r.at = 0
        /\ r.refs = AppleStore!observationReferences(r.id.t)
    BY <2>1 DEF LegacyRow, RowFields
  <2>3. Kept(r.id, r.price, r.refs)
    BY <2>1, <2>2 DEF Kept, LegacyRow
  <2>4. \A ask \in Asks[provider] : \A t, o : Reported(ask, t, o) => o.id # r.id
    BY <2>1, NotLegacy DEF Reported, Current, Ended
  <2> QED BY <2>2, <2>3, <2>4 DEF RowFits
<1>6. RowsFit(rows) /\ Sightings
  BY <1>1, <1>5 DEF RowsFit, Sightings
<1>7. HeardFits /\ ToldFits /\ NoSnapshotConflict
  BY DEF Init, HeardFits, ToldFits, NoSnapshotConflict
<1> QED BY <1>1, <1>4, <1>6, <1>7 DEF AnswersInv

LEMMA TickKeeps ==
    ASSUME AnswersInv, Tick
    PROVE  AnswersInv'
<1>1. now' = now + 1 /\ told' = {} /\ provider' = provider /\ rows' = rows /\ heard' = heard /\ outcome' = outcome
  BY DEF Tick
<1>2. now' \in Nat \ {0} /\ provider' \in Providers /\ OneEach(rows)' /\ NoSnapshotConflict'
  BY <1>1 DEF AnswersInv, OneEach, NoSnapshotConflict
<1>3. RowsFit(rows)'
  BY <1>1, SameStore DEF AnswersInv, RowsFit
<1>4. Sightings'
  BY <1>1 DEF AnswersInv, Sightings, RowsFit, RowFits
<1>5. HeardFits'
  <2> SUFFICES ASSUME NEW p \in DOMAIN Catalog, heard[p] # None PROVE Heard(p, heard[p], rows, now)'
    BY <1>1 DEF HeardFits
  <2>1. Heard(p, heard[p], rows, now)
    BY DEF AnswersInv, HeardFits
  <2>2. \A u \in Nat : u <= now => u <= now + 1
    BY DEF AnswersInv
  <2>3. Heard(p, heard[p], rows, now + 1)
    BY <2>1, <2>2 DEF Heard
  <2>4. Heard(p, heard'[p], rows', now')
    BY <1>1, <2>3
  <2> QED BY <1>1, <2>4, SameStore DEF Heard
<1>6. ToldFits'
  BY <1>1 DEF ToldFits
<1> QED BY <1>2, <1>3, <1>4, <1>5, <1>6 DEF AnswersInv

\* An ask is refused, or what was found is stored unless it conflicts.
RequestOf(ask, request) ==
    /\ ask.verify => request = ask.request
    /\ request.application = ask.request.application /\ request.kind = ask.request.kind
Refuses == \E failure : outcome' = <<"refused", failure>> /\ UNCHANGED <<rows, heard, told>>
Accepts(ask, found) ==
    /\ found.ok /\ indexCatalogProducts(found) = ""
    /\ ~ persist(found).ok => outcome' = <<"conflict">>
    /\ persist(found).ok =>
         /\ outcome' = <<"stored">> /\ rows' = persist(found).rows /\ told' = Products(found)
         /\ heard' = [p \in DOMAIN Catalog |-> IF p \in Products(found) THEN <<Said(ask)>> ELSE heard[p]]

LEMMA AskIs ==
    ASSUME provider \in Providers, Ask
    PROVE  /\ ~ asked /\ asked' = TRUE /\ provider' = provider /\ now' = now
           /\ \E ask \in Asks[provider] : \E request : RequestOf(ask, request) /\ (Refuses \/ Accepts(ask, Answer(ask, request)))
<1>1. PICK ask \in Asks[provider], newest \in Newest(rows) \cup {None} :
             Finish(ask, RequestFor(ask, newest), Answer(ask, RequestFor(ask, newest)))
  BY DEF Ask
<1>2. PICK request : request = RequestFor(ask, newest)
  OBVIOUS
<1>3. RequestFields \subseteq DOMAIN ask.request
  BY AnswersAssumption DEF Providers
<1>4. RequestOf(ask, request)
  BY <1>2, <1>3 DEF RequestOf, RequestFor, RequestFields
<1>5. PICK found : found = Answer(ask, request)
  OBVIOUS
<1>6. Refuses \/ Accepts(ask, found)
  BY <1>1, <1>2, <1>5 DEF Finish, Refuses, Accepts
<1> QED BY <1>4, <1>5, <1>6 DEF Ask

LEMMA RefusedKeeps ==
    ASSUME AnswersInv, ~ asked, asked' = TRUE, provider' = provider, now' = now, Refuses
    PROVE  AnswersInv'
<1>1. rows' = rows /\ heard' = heard /\ told' = told /\ \E failure : outcome' = <<"refused", failure>>
  BY DEF Refuses
<1>2. now' \in Nat \ {0} /\ provider' \in Providers /\ OneEach(rows)'
  BY <1>1 DEF AnswersInv, OneEach
<1>3. NoSnapshotConflict'
  BY <1>1 DEF NoSnapshotConflict
<1>4. RowsFit(rows)'
  BY <1>1, SameStore DEF AnswersInv, RowsFit
<1>5. Sightings'
  BY <1>1 DEF AnswersInv, Sightings
<1>6. HeardFits'
  BY <1>1, SameStore DEF AnswersInv, HeardFits, Heard
<1>7. ToldFits'
  <2>1. ASSUME NEW ask, NEW o, NEW r, Told(ask, o, r) PROVE Told(ask, o, r)'
    BY <1>1, <2>1, SameStore DEF Told
  <2> QED BY <1>1, <2>1 DEF AnswersInv, ToldFits
<1> QED BY <1>2, <1>3, <1>4, <1>5, <1>6, <1>7 DEF AnswersInv

LEMMA StoredKeeps ==
    ASSUME AnswersInv, ~ asked, asked' = TRUE, provider' = provider, now' = now,
           NEW ask \in Asks[provider], NEW request, RequestOf(ask, request), NEW found, found = Answer(ask, request),
           Accepts(ask, found)
    PROVE  AnswersInv'
<1>1. PICK o : Current(ask, now, o) /\ Finds(ask, now, o, found.observations)
  BY Answered DEF AnswersInv, RequestOf, Accepts
<1>2. \A r \in rows : r.at < 2 * now - 1
  BY DEF AnswersInv, Sightings
<1>3. PICK after : persist(found) = [ok |-> TRUE, rows |-> after] /\ StoredAfter(ask, o, found, after)
  BY <1>1, <1>2, Stores DEF AnswersInv
<1>4. persist(found).ok /\ persist(found).rows = after
  BY <1>3
<1>5. /\ outcome' = <<"stored">> /\ rows' = after /\ told' = Products(found)
      /\ heard' = [p \in DOMAIN Catalog |-> IF p \in Products(found) THEN <<Said(ask)>> ELSE heard[p]]
  BY <1>4 DEF Accepts
<1>6. Products(found) \subseteq DOMAIN Catalog
  BY DEF Accepts, indexCatalogProducts
<1>7. PICK r \in after : Leads(after, o, r) /\ r.at = 2 * now /\ \A s \in after : s # r => s.at < 2 * now
  BY <1>3 DEF StoredAfter
<1>8. now' \in Nat \ {0} /\ provider' \in Providers
  BY DEF AnswersInv
<1>9. OneEach(rows)'
  BY <1>3, <1>5 DEF StoredAfter, OneEach
<1>10. NoSnapshotConflict'
  BY <1>5 DEF NoSnapshotConflict
<1>11. RowsFit(rows)'
  BY <1>3, <1>5, SameStore DEF StoredAfter, RowsFit
<1>12. Sightings'
  <2>1. \A s \in after : s.at \in Nat
    BY <1>3 DEF StoredAfter, RowsFit, RowFits
  <2>2. \A s \in after : s.at <= 2 * now
    BY <1>7, <1>8, <2>1
  <2> QED BY <1>5, <2>2 DEF Sightings
<1>13. HeardFits'
  <2> SUFFICES ASSUME NEW p \in DOMAIN Catalog, heard'[p] # None PROVE Heard(p, heard'[p], after, now)
    BY <1>5, SameStore DEF HeardFits, Heard
  <2>1. CASE p \in Products(found)
    <3>1. heard'[p] = <<Said(ask)>>
      BY <1>5, <2>1
    <3>2. \E e, s : Reported(ask, now, e) /\ e.snapshot.product = p /\ Leads(after, e, s)
      BY <1>1, <1>3, <1>7, <2>1 DEF StoredAfter, Reported
    <3> QED BY <3>1, <3>2 DEF Heard, AnswersInv
  <2>2. CASE p \notin Products(found)
    <3>1. heard'[p] = heard[p] /\ Heard(p, heard[p], rows, now) /\ SameFor(p, rows, after)
      BY <1>3, <1>5, <2>2 DEF AnswersInv, HeardFits, StoredAfter
    <3>2. ASSUME NEW e, NEW s, e.snapshot.product = p, Leads(rows, e, s) PROVE Leads(after, e, s)
      BY <3>1, <3>2 DEF Leads, SameFor
    <3> QED BY <3>1, <3>2 DEF Heard
  <2> QED BY <2>1, <2>2
<1>14. ToldFits'
  <2>1. \A p \in Products(found) : p = o.snapshot.product \/ \E e : Ended(ask, now, e) /\ p = e.snapshot.product
    BY <1>3 DEF StoredAfter
  <2>2. \A p \in Products(found) : p \in DOMAIN Catalog /\ heard'[p] = <<Said(ask)>>
    BY <1>5, <1>6
  <2>3. Told(ask, o, r)'
    <3>1. Current(ask, now, o)'
      BY <1>1, SameStore DEF Current, AppleSeen, GoogleCurrent, HuaweiSeen
    <3>2. Leads(rows, o, r)' /\ \A s \in rows' : s # r => s.at < r.at
      BY <1>5, <1>7 DEF Leads
    <3>3. \A p \in told' : p \in DOMAIN Catalog /\ heard'[p] = <<Said(ask)'>>
      BY <1>5, <2>2, SameStore
    <3>4. \A p \in told' : p = o.snapshot.product \/ \E e : Ended(ask, now, e)' /\ p = e.snapshot.product
      BY <1>5, <2>1, SameStore DEF Ended, GoogleEnded
    <3> QED BY <3>1, <3>2, <3>3, <3>4 DEF Told
  <2> QED BY <2>3 DEF ToldFits
<1> QED BY <1>8, <1>9, <1>10, <1>11, <1>12, <1>13, <1>14 DEF AnswersInv

LEMMA AnswersNext == AnswersInv /\ [Next]_vars => AnswersInv'
<1> SUFFICES ASSUME AnswersInv, [Next]_vars PROVE AnswersInv'
  OBVIOUS
<1>1. CASE Tick
  BY <1>1, TickKeeps
<1>2. CASE Ask
  <2>1. ~ asked /\ asked' = TRUE /\ provider' = provider /\ now' = now
    BY <1>2, AskIs DEF AnswersInv
  <2>2. PICK ask, request : ask \in Asks[provider] /\ RequestOf(ask, request) /\ (Refuses \/ Accepts(ask, Answer(ask, request)))
    BY <1>2, AskIs DEF AnswersInv
  <2>3. CASE Refuses
    BY <2>1, <2>3, RefusedKeeps
  <2>4. CASE Accepts(ask, Answer(ask, request))
    <3>1. PICK found : found = Answer(ask, request)
      OBVIOUS
    <3> QED BY <2>1, <2>2, <2>4, <3>1, StoredKeeps
  <2> QED BY <2>2, <2>3, <2>4
<1>3. CASE UNCHANGED vars
  <2>1. /\ provider' = provider /\ now' = now /\ asked' = asked /\ rows' = rows /\ heard' = heard /\ told' = told
        /\ outcome' = outcome
    BY <1>3 DEF vars
  <2>2. RowsFit(rows)' /\ OneEach(rows)' /\ Sightings' /\ NoSnapshotConflict'
    BY <2>1, SameStore DEF AnswersInv, RowsFit, OneEach, Sightings, NoSnapshotConflict
  <2>3. HeardFits'
    BY <2>1, SameStore DEF AnswersInv, HeardFits, Heard
  <2>4. ToldFits'
    <3>1. ASSUME NEW ask, NEW o, NEW r, Told(ask, o, r) PROVE Told(ask, o, r)'
      BY <2>1, <3>1, SameStore DEF Told
    <3> QED BY <2>1, <3>1 DEF AnswersInv, ToldFits
  <2> QED BY <2>1, <2>2, <2>3, <2>4 DEF AnswersInv
<1> QED BY <1>1, <1>2, <1>3 DEF Next

--------------------------------------------------------------------------------
(* What the invariant says.                                                  *)

LEMMA GrantsIs ==
    ASSUME provider \in Providers, NEW p
    PROVE  StoreGrants(p) <=> heard[p] # None /\ Grants(heard[p][1], p, now)
BY DEF StoreGrants, Grants, Providers

\* A reader of a product sees its leading row.
LEMMA LeadingRead ==
    ASSUME RowsFit(rows), NEW o, NEW r, Leads(rows, o, r)
    PROVE  Reads(o.snapshot.product) = {AccessAt(o.snapshot.access, o.snapshot.end, now)}
<1>1. PICK p : p = o.snapshot.product
  OBVIOUS
<1>2. PICK mine : mine = {s \in rows : s.snapshot.product = p}
  OBVIOUS
<1>3. \A s \in rows : s.at \in Nat
  BY DEF RowsFit, RowFits
<1>4. r \in mine /\ \A s \in mine : s # r => s.at < r.at
  BY <1>1, <1>2 DEF Leads
<1>5. Newest(mine) = {r}
  BY <1>2, <1>3, <1>4 DEF Newest
<1>6. Reads(p) = {AccessAt(s.snapshot.access, s.snapshot.end, now) : s \in {r}}
  BY <1>2, <1>5 DEF Reads
<1>7. r.snapshot = o.snapshot
  BY DEF Leads
<1> QED BY <1>1, <1>6, <1>7

LEMMA ReadsAsHeard == AnswersInv => ServedAsAnswered
<1> SUFFICES ASSUME AnswersInv, NEW p \in DOMAIN Catalog, heard[p] # None, "allowed" \in Reads(p) PROVE StoreGrants(p)
  BY DEF ServedAsAnswered
<1>1. PICK ask, u, o, r :
        /\ ask \in Asks[provider] /\ u \in Nat
        /\ u <= now /\ heard[p] = <<Said(ask)>> /\ Reported(ask, u, o) /\ o.snapshot.product = p /\ Leads(rows, o, r)
  BY DEF AnswersInv, HeardFits, Heard
<1>2. Allowed(o, now)
  BY <1>1, LeadingRead DEF AnswersInv, Allowed
<1>3. Current(ask, u, o)
  BY <1>1, <1>2, Ends DEF Reported
<1>4. Grants(Said(ask), p, now)
  BY <1>1, <1>2, <1>3, Serves DEF AnswersInv
<1>5. heard[p][1] = Said(ask)
  BY <1>1
<1> QED BY <1>4, <1>5, GrantsIs DEF AnswersInv

\* Of the products of the answer of this instant, only the one that counts is granted.
LEMMA GrantedCounts ==
    ASSUME AnswersInv, NEW ask \in Asks[provider], NEW o, NEW r, Told(ask, o, r), NEW p \in told, StoreGrants(p)
    PROVE  p = o.snapshot.product /\ Allowed(o, now)
<1>1. heard[p] = <<Said(ask)>> /\ (p = o.snapshot.product \/ \E e : Ended(ask, now, e) /\ p = e.snapshot.product)
  BY DEF Told
<1>2. Grants(Said(ask), p, now)
  BY <1>1, GrantsIs DEF AnswersInv
<1>3. \A e : Ended(ask, now, e) => ~ Grants(Said(ask), e.snapshot.product, now)
  BY Ends DEF AnswersInv
<1>4. p = o.snapshot.product
  BY <1>1, <1>2, <1>3
<1> QED BY <1>2, <1>4, Serves DEF AnswersInv, Told

LEMMA ServedWhenTold == AnswersInv => AnswerIsServed
<1> SUFFICES ASSUME AnswersInv, NEW p \in told, StoreGrants(p) PROVE Reads(p) = {"allowed"}
  BY DEF AnswerIsServed
<1>1. PICK ask, o, r : ask \in Asks[provider] /\ Told(ask, o, r)
  BY DEF AnswersInv, ToldFits
<1>2. p = o.snapshot.product /\ Allowed(o, now)
  BY <1>1, GrantedCounts
<1>3. Reads(o.snapshot.product) = {AccessAt(o.snapshot.access, o.snapshot.end, now)}
  BY <1>1, LeadingRead DEF AnswersInv, Told
<1> QED BY <1>2, <1>3 DEF Allowed

LEMMA FoundWhenTold == AnswersInv => LookupFindsCurrent
<1> SUFFICES ASSUME AnswersInv, NEW p \in told, StoreGrants(p), NEW s \in Newest(rows) PROVE StoreGrants(s.snapshot.product)
  BY DEF LookupFindsCurrent
<1>1. PICK ask, o, r : ask \in Asks[provider] /\ Told(ask, o, r)
  BY DEF AnswersInv, ToldFits
<1>2. p = o.snapshot.product
  BY <1>1, GrantedCounts
<1>3. r \in rows /\ r.snapshot = o.snapshot /\ (\A x \in rows : x # r => x.at < r.at) /\ \A x \in rows : x.at \in Nat
  BY <1>1 DEF Told, Leads, AnswersInv, RowsFit, RowFits
<1>4. s = r
  BY <1>3 DEF Newest
<1> QED BY <1>2, <1>3, <1>4

LEMMA AnswersInductive == Spec => []AnswersInv
BY AnswersInit, AnswersNext, PTL DEF Spec

\* No answer of a store is turned away because its identity is taken by another
\* snapshot: SaveObservation's ErrConflict is out of reach for one purchase,
\* however many asks, renewals and rows of earlier releases there are.
THEOREM StoreNoSnapshotConflict == Spec => []NoSnapshotConflict
<1>1. AnswersInv => NoSnapshotConflict
  BY DEF AnswersInv
<1> QED BY <1>1, AnswersInductive, PTL

\* A product is served only while the last answer that reported it says so, for
\* each of the three stores and at every later instant.
THEOREM StoreServedAsAnswered == Spec => []ServedAsAnswered
BY ReadsAsHeard, AnswersInductive, PTL

\* A product that the answer just stored grants is served at once.
THEOREM StoreAnswerIsServed == Spec => []AnswerIsServed
BY ServedWhenTold, AnswersInductive, PTL

\* The lookup by the purchase finds the product its newest answer grants, never
\* the one that a replacement ended.
THEOREM StoreLookupFindsCurrent == Spec => []LookupFindsCurrent
BY FoundWhenTold, AnswersInductive, PTL

====
