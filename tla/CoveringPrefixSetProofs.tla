---------------------- MODULE CoveringPrefixSetProofs ----------------------
(***************************************************************************)
(* The incremental bookkeeping of CoveringPrefixSet is right for every set *)
(* of prefixes, of any length and number.  The argument: Covers is a       *)
(* partial order on sequences (the lemmas), so each step of add and remove *)
(* changes which prefixes are broadest exactly by the delta it computes;   *)
(* where add relies on some root covering whatever covers the new prefix,  *)
(* a shortest covering prefix is such a root.                              *)
(***************************************************************************)
EXTENDS CoveringPrefixSet, TLAPS, WellFoundedInduction

(* A non-empty set of numbers has a least one.                             *)
LEMMA LeastNat ==
  ASSUME NEW S, S \subseteq Nat, S # {}
  PROVE  \E x \in S : \A y \in S : x <= y
<1>1. \E x \in S : \A y \in S : ~ (<<y, x>> \in OpToRel(<, Nat))
  BY NatLessThanWellFounded, WFMin
<1>2. PICK x \in S : \A y \in S : ~ (<<y, x>> \in OpToRel(<, Nat))
  BY <1>1
<1>3. ASSUME NEW y \in S
      PROVE  x <= y
  <2>1. x \in Nat /\ y \in Nat
    OBVIOUS
  <2>2. <<y, x>> \in Nat \X Nat
    BY <2>1
  <2>3. ~ (y < x)
    BY <1>2, <2>2 DEF OpToRel
  <2> QED
    BY <2>1, <2>3
<1> QED
  BY <1>3

(* Sequences: what the provers need of Len and DOMAIN.                     *)
LEMMA SeqFacts ==
  ASSUME NEW p \in Seq(Fields)
  PROVE  Len(p) \in Nat /\ DOMAIN p = 1 .. Len(p)
OBVIOUS

(* Covers and StrictlyCovers are an order: covers() of the code compares   *)
(* lengths and then only the fields both prefixes have.                    *)
LEMMA CoversReflexive ==
  ASSUME NEW p \in Seq(Fields)
  PROVE  Covers(p, p) /\ ~StrictlyCovers(p, p)
BY SeqFacts DEF Covers, StrictlyCovers, Overlaps

LEMMA CoversTransitive ==
  ASSUME NEW p \in Seq(Fields), NEW q \in Seq(Fields), NEW r \in Seq(Fields),
         Covers(p, q), Covers(q, r)
  PROVE  Covers(p, r)
<1>1. Len(p) \in Nat /\ Len(q) \in Nat /\ Len(r) \in Nat
  BY SeqFacts
<1>2. Len(p) <= Len(q) /\ Len(q) <= Len(r) /\ Len(p) <= Len(r)
  BY <1>1 DEF Covers
<1>3. ASSUME NEW i \in DOMAIN p \cap DOMAIN r
      PROVE  p[i] = r[i]
  <2>1. i \in 1 .. Len(p)
    BY SeqFacts
  <2>2. i \in DOMAIN p \cap DOMAIN q /\ i \in DOMAIN q \cap DOMAIN r
    BY <1>1, <1>2, <1>3, <2>1, SeqFacts
  <2> QED
    BY <2>2 DEF Covers, Overlaps
<1> QED
  BY <1>2, <1>3 DEF Covers, Overlaps

LEMMA CoversAntisymmetric ==
  ASSUME NEW p \in Seq(Fields), NEW q \in Seq(Fields), Covers(p, q), Len(p) = Len(q)
  PROVE  p = q
<1>1. DOMAIN p = DOMAIN q
  BY SeqFacts
<1>2. \A i \in DOMAIN p : p[i] = q[i]
  BY <1>1 DEF Covers, Overlaps
<1>3. p = [i \in DOMAIN p |-> p[i]] /\ q = [i \in DOMAIN q |-> q[i]]
  OBVIOUS
<1> QED
  BY <1>1, <1>2, <1>3

LEMMA StrictlyCoversIff ==
  ASSUME NEW p \in Seq(Fields), NEW q \in Seq(Fields)
  PROVE  StrictlyCovers(p, q) <=> Covers(p, q) /\ p # q
<1>1. Len(p) \in Nat /\ Len(q) \in Nat
  BY SeqFacts
<1>2. ASSUME StrictlyCovers(p, q) PROVE Covers(p, q) /\ p # q
  BY <1>1, <1>2 DEF StrictlyCovers, Covers
<1>3. ASSUME Covers(p, q), p # q PROVE StrictlyCovers(p, q)
  <2>1. Len(p) # Len(q)
    BY <1>3, CoversAntisymmetric
  <2> QED
    BY <1>1, <1>3, <2>1 DEF StrictlyCovers, Covers
<1> QED
  BY <1>2, <1>3

(* Two prefixes of one sequence are ordered.                               *)
LEMMA CoversComparable ==
  ASSUME NEW p \in Seq(Fields), NEW q \in Seq(Fields), NEW r \in Seq(Fields),
         Covers(p, r), Covers(q, r)
  PROVE  Covers(p, q) \/ Covers(q, p)
<1>1. Len(p) \in Nat /\ Len(q) \in Nat /\ Len(r) \in Nat
  BY SeqFacts
<1>2. ASSUME NEW i \in DOMAIN p \cap DOMAIN q
      PROVE  p[i] = q[i]
  <2>1. i \in DOMAIN r
    BY <1>1, SeqFacts DEF Covers
  <2> QED
    BY <2>1 DEF Covers, Overlaps
<1>3. Len(p) <= Len(q) \/ Len(q) <= Len(p)
  BY <1>1
<1> QED
  BY <1>2, <1>3 DEF Covers, Overlaps

Broadest(a) == {p \in a : ~\E q \in a : StrictlyCovers(q, p)}

(* Whatever is active is covered by one of the broadest.                   *)
LEMMA BroadestCovers ==
  ASSUME NEW a \in SUBSET Seq(Fields), NEW p \in a
  PROVE  \E q \in Broadest(a) : Covers(q, p)
<1> DEFINE above == {q \in a : Covers(q, p)}
           lens == {Len(q) : q \in above}
<1>1. p \in above
  BY CoversReflexive
<1>2. lens \subseteq Nat /\ lens # {}
  BY <1>1, SeqFacts
<1>3. PICK l \in lens : \A k \in lens : l <= k
  <2> HIDE DEF lens
  <2> QED
    BY <1>2, LeastNat
<1>4. PICK q \in above : l = Len(q)
  OBVIOUS
<1>5. ASSUME NEW o \in a, StrictlyCovers(o, q)
      PROVE  FALSE
  <2>1. Covers(o, q)
    BY <1>5, StrictlyCoversIff
  <2>2. o \in above
    BY <2>1, CoversTransitive
  <2>3. Len(o) < Len(q) /\ Len(q) <= Len(o)
    BY <1>3, <1>4, <1>5, <2>2 DEF StrictlyCovers
  <2> QED
    BY <2>3, SeqFacts
<1> QED
  BY <1>4, <1>5 DEF Broadest

Inv == TypeOK /\ RootsAreBroadest

LEMMA RootsBroadest == RootsAreBroadest <=> roots = Broadest(active)
BY DEF RootsAreBroadest, Broadest

(* CoveringPrefixSet::add                                                  *)
LEMMA AddKeepsInv ==
  ASSUME PrefixesAssumption, Inv, NEW p \in Prefixes, Add(p)
  PROVE  Inv'
<1> USE DEF PrefixesAssumption, Inv, TypeOK
<1>1. roots = Broadest(active)
  BY RootsBroadest
<1>2. active' \subseteq Prefixes
  BY DEF Add
<1>3. CASE p \in active
  <2>1. active' = active /\ roots' = roots
    BY <1>3 DEF Add, AddDelta, NoDelta
  <2> QED
    BY <2>1 DEF RootsAreBroadest
<1>4. CASE p \notin active /\ \E top \in roots : Covers(top, p)
  <2>1. roots' = roots
    BY <1>4 DEF Add, AddDelta, NoDelta
  <2>2. PICK top \in roots : Covers(top, p)
    BY <1>4
  <2>3. top # p /\ StrictlyCovers(top, p)
    BY <1>4, <2>2, StrictlyCoversIff
  <2>4. ASSUME NEW x \in active, StrictlyCovers(p, x)
        PROVE  StrictlyCovers(top, x)
    <3>1. Covers(p, x)
      BY <2>4, StrictlyCoversIff
    <3>2. Covers(top, x)
      BY <2>2, <3>1, CoversTransitive
    <3>3. Len(top) < Len(x)
      BY <2>3, <2>4, SeqFacts DEF StrictlyCovers
    <3> QED
      BY <3>2, <3>3 DEF StrictlyCovers, Covers
  <2>5. Broadest(active \cup {p}) = Broadest(active)
    BY <2>3, <2>4 DEF Broadest
  <2> QED
    BY <1>1, <1>2, <2>1, <2>5 DEF Add, RootsAreBroadest, Broadest
<1>5. CASE p \notin active /\ ~\E top \in roots : Covers(top, p)
  <2>1. roots' = (roots \ {top \in roots : Covers(p, top)}) \cup {p}
    BY <1>5 DEF Add, AddDelta
  <2>2. ASSUME NEW y \in active, StrictlyCovers(y, p)
        PROVE  FALSE
    <3>1. PICK top \in roots : Covers(top, y)
      BY <1>1, BroadestCovers
    <3>2. Covers(top, p)
      BY <2>2, <3>1, StrictlyCoversIff, CoversTransitive
    <3> QED
      BY <1>5, <3>2
  <2>3. \A x \in active : Covers(p, x) <=> StrictlyCovers(p, x)
    BY <1>5, StrictlyCoversIff
  <2>4. ~StrictlyCovers(p, p)
    BY CoversReflexive
  <2>5. Broadest(active \cup {p}) = (roots \ {top \in roots : Covers(p, top)}) \cup {p}
    BY <1>1, <2>2, <2>3, <2>4 DEF Broadest
  <2> QED
    BY <1>2, <2>1, <2>5 DEF Add, RootsAreBroadest, Broadest
<1> QED
  BY <1>3, <1>4, <1>5

(* CoveringPrefixSet::remove                                               *)
LEMMA RemoveKeepsInv ==
  ASSUME PrefixesAssumption, Inv, NEW p \in Prefixes, Remove(p)
  PROVE  Inv'
<1> USE DEF PrefixesAssumption, Inv, TypeOK
<1>1. roots = Broadest(active)
  BY RootsBroadest
<1>2. CASE p \notin active
  <2>1. active' = active /\ roots' = roots
    BY <1>2 DEF Remove, RemoveDelta, NoDelta
  <2> QED
    BY <2>1 DEF RootsAreBroadest
<1>3. CASE p \in active /\ p \notin roots
  <2>1. roots' = roots /\ active' = active \ {p}
    BY <1>3 DEF Remove, RemoveDelta, NoDelta
  <2>2. PICK top \in roots : Covers(top, p)
    BY <1>1, <1>3, BroadestCovers
  <2>3. top # p
    BY <1>3, <2>2
  <2>4. ASSUME NEW x \in active, StrictlyCovers(p, x)
        PROVE  StrictlyCovers(top, x)
    <3>1. StrictlyCovers(top, p)
      BY <2>2, <2>3, StrictlyCoversIff
    <3>2. Covers(top, x)
      BY <2>2, <2>4, StrictlyCoversIff, CoversTransitive
    <3>3. Len(top) < Len(x)
      BY <2>4, <3>1, SeqFacts DEF StrictlyCovers
    <3> QED
      BY <3>2, <3>3 DEF StrictlyCovers, Covers
  <2>5. Broadest(active \ {p}) = Broadest(active)
    BY <1>1, <1>3, <2>2, <2>3, <2>4 DEF Broadest
  <2> QED
    BY <1>1, <2>1, <2>5 DEF RootsAreBroadest, Broadest
<1>4. CASE p \in active /\ p \in roots
  <2> DEFINE rest == active \ {p}
             added == {q \in rest : Covers(p, q) /\ ~\E other \in rest : StrictlyCovers(other, q)}
  <2>1. roots' = (roots \ {p}) \cup added /\ active' = rest
    BY <1>4 DEF Remove, RemoveDelta
  <2>2. \A x \in rest : Covers(p, x) <=> StrictlyCovers(p, x)
    BY StrictlyCoversIff
  <2>3. Broadest(rest) = (roots \ {p}) \cup added
    BY <1>1, <1>4, <2>2 DEF Broadest
  <2> QED
    BY <2>1, <2>3 DEF RootsAreBroadest, Broadest
<1> QED
  BY <1>2, <1>3, <1>4

(* For every set of prefixes and every history of interests, the roots are *)
(* the broadest active prefixes (CoveringPrefixSet::add and remove).       *)
THEOREM RootsAreRight == PrefixesAssumption /\ Spec => [](TypeOK /\ RootsAreBroadest)
<1> SUFFICES ASSUME PrefixesAssumption PROVE Spec => [](TypeOK /\ RootsAreBroadest)
  OBVIOUS
<1>1. Init => Inv
  BY DEF Init, Inv, TypeOK, RootsAreBroadest
<1>2. Inv /\ [Next]_vars => Inv'
  <2> SUFFICES ASSUME Inv, [Next]_vars PROVE Inv'
    OBVIOUS
  <2>1. CASE Next
    BY <2>1, AddKeepsInv, RemoveKeepsInv DEF Next
  <2>2. CASE UNCHANGED vars
    BY <2>2 DEF vars, Inv, TypeOK, RootsAreBroadest
  <2> QED
    BY <2>1, <2>2
<1> QED
  BY <1>1, <1>2, PTL DEF Spec, Inv

LEMMA InvCovers ==
  ASSUME PrefixesAssumption, Inv
  PROVE  EachCoveredOnce
<1> USE DEF PrefixesAssumption, Inv, TypeOK
<1>1. roots = Broadest(active)
  BY RootsBroadest
<1> SUFFICES ASSUME NEW p \in active
             PROVE  /\ \E top \in roots : Covers(top, p)
                    /\ \A r1, r2 \in roots : Covers(r1, p) /\ Covers(r2, p) => r1 = r2
  BY DEF EachCoveredOnce
<1>2. \E top \in roots : Covers(top, p)
  BY <1>1, BroadestCovers
<1>3. ASSUME NEW r1 \in roots, NEW r2 \in roots, Covers(r1, p), Covers(r2, p), r1 # r2
      PROVE  FALSE
  <2>1. Covers(r1, r2) \/ Covers(r2, r1)
    BY <1>3, CoversComparable
  <2>2. StrictlyCovers(r1, r2) \/ StrictlyCovers(r2, r1)
    BY <1>3, <2>1, StrictlyCoversIff
  <2> QED
    BY <1>1, <2>2 DEF Broadest
<1> QED
  BY <1>2, <1>3

(* Every interest is covered by exactly one requested prefix: an upstream  *)
(* relay is asked for each namespace once (UpstreamNamespacesRunner::      *)
(* apply_delta starts one pull for each root).                             *)
THEOREM InterestsCoveredOnce == PrefixesAssumption /\ Spec => []EachCoveredOnce
<1> SUFFICES ASSUME PrefixesAssumption PROVE Spec => []EachCoveredOnce
  OBVIOUS
<1>1. TypeOK /\ RootsAreBroadest => EachCoveredOnce
  BY InvCovers DEF Inv
<1> QED
  BY <1>1, RootsAreRight, PTL
============================================================================
