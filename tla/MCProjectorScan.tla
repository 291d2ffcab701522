---- MODULE MCProjectorScan ----
(* Two products; the first with two store lineages; one import for each.     *)
EXTENDS ProjectorScan

MCSources == {<<"store", 1, 1>>, <<"store", 1, 2>>, <<"store", 2, 3>>,
              <<"import", 1, 4>>, <<"import", 2, 5>>}

\* Denied, unresolved, allowed until 1, allowed without an end.
MCAccess == {<<"denied", 0>>, <<"unresolved", 0>>, <<"allowed", 1>>, <<"allowed", 0>>}

MCId(s, a, at) == 20 * s[3] + 4 * AccessStrength(a[1]) + 2 * a[2] + at

MCUniverse == {[kind |-> s[1], product |-> s[2], lineage |-> s[3],
                access |-> a[1], ends |-> a[2], at |-> at, id |-> MCId(s, a, at)] :
                   s \in MCSources, a \in MCAccess, at \in {1, 2}}

====
