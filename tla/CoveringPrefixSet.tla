------------------------- MODULE CoveringPrefixSet -------------------------
(***************************************************************************)
(* The prefixes a relay asks its upstreams for (moq-relay-ietf             *)
(* covering_prefix_set.rs): of all the namespace prefixes its clients are  *)
(* interested in (active), only the broadest are requested (roots).        *)
(* add and remove keep the roots up to date step by step, without looking  *)
(* at the whole set again.                                                 *)
(***************************************************************************)
EXTENDS Naturals, Sequences

CONSTANTS
  Fields,   \* what a field of a namespace may hold
  Prefixes  \* TrackNamespacePrefix: sequences of fields

PrefixesAssumption == Prefixes \subseteq Seq(Fields)

VARIABLES
  active,
  roots

vars == <<active, roots>>

\* TrackNamespacePrefix::overlaps: equal as far as the shorter one goes
Overlaps(p, q) == \A i \in DOMAIN p \cap DOMAIN q : p[i] = q[i]

\* Mutant: any two prefixes on one branch.
Covers_EitherWay(p, q) == Overlaps(p, q)

\* covers, strictly_covers
Covers(broader, narrower) ==
  Len(broader) <= Len(narrower) /\ Overlaps(broader, narrower)

StrictlyCovers(broader, narrower) ==
  Len(broader) < Len(narrower) /\ Overlaps(broader, narrower)

NoDelta == [added |-> {}, removed |-> {}]

\* The RootDelta that CoveringPrefixSet::add returns ...
AddDelta(a, r, p) ==
  IF p \in a \/ \E root \in r : Covers(root, p) THEN NoDelta
  ELSE [added |-> {p}, removed |-> {root \in r : Covers(p, root)}]

\* ... and the one that remove returns.
RemoveDelta(a, r, p) ==
  IF p \notin a \/ p \notin r THEN NoDelta
  ELSE [added |-> {q \in a \ {p} : /\ Covers(p, q)
                                   /\ ~\E other \in a \ {p} : StrictlyCovers(other, q)},
        removed |-> {p}]

Init == active = {} /\ roots = {}

Add(p) ==
  /\ active' = active \cup {p}
  /\ LET delta == AddDelta(active, roots, p) IN
     roots' = (roots \ delta.removed) \cup delta.added

Remove(p) ==
  /\ active' = active \ {p}
  /\ LET delta == RemoveDelta(active, roots, p) IN
     roots' = (roots \ delta.removed) \cup delta.added

Next == \E p \in Prefixes : Add(p) \/ Remove(p)

Spec == Init /\ [][Next]_vars

-----------------------------------------------------------------------------
TypeOK == active \subseteq Prefixes /\ roots \subseteq active

(* covering_prefix_set.rs:22-73: however adds and removes follow each other, *)
(* the roots are exactly the prefixes that no other active one covers.       *)
RootsAreBroadest ==
  roots = {p \in active : ~\E q \in active : StrictlyCovers(q, p)}

(* Every interest is served by a root, and no two roots overlap, so that an  *)
(* upstream is not asked twice for one namespace.                            *)
EachCoveredOnce ==
  \A p \in active :
    /\ \E root \in roots : Covers(root, p)
    /\ \A r1, r2 \in roots : Covers(r1, p) /\ Covers(r2, p) => r1 = r2
=============================================================================
