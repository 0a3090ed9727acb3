---------------------- MODULE UpstreamNamespacesProofs ----------------------
(***************************************************************************)
(* What is proved of upstream_namespaces.rs, for any prefixes, relays and  *)
(* number of leases and pulls: the runner drives the covering set as its   *)
(* specification says, a change of roots withdraws nothing that a root     *)
(* still covers, no relay is asked twice for a namespace, and once the     *)
(* queues are empty the interests are those of the leases and the sources  *)
(* those the pulls were told of.                                           *)
(*   What is inductive: the queues hold well-formed commands (Queued) of   *)
(* pulls that were started (Sent), those of one prefix in the order of its *)
(* generations, and lead from the active generation to the one in the slot *)
(* (InOrder, Leased, Heads); a namespace is registered under a root that   *)
(* covers it (Placed); the RootStates are those of the roots, beside the   *)
(* ones that retire with the transition (Served); a pull that has not      *)
(* ended is of a root or an old one of the transition (Homes); the last    *)
(* event in the queue agrees with what its pull was told (Heard).          *)
(***************************************************************************)
EXTENDS UpstreamNamespaces, FiniteSetTheorems, TLAPS

Interest == [kind : {"subscribe", "unsubscribe"}, prefix : Prefixes, gen : Gens]
Commands ==
  Interest \cup [kind : {"event"}, pull : Pulls, ns : Namespaces, added : BOOLEAN]
           \cup [kind : {"ended"}, pull : Pulls]

Queued ==
  /\ commands \in Seq(Commands) /\ deferred \in Seq(Interest)
  /\ active \in [Prefixes -> Gens \cup {None}]
  /\ life \in [Gens -> {"none", "live", "dropping", "dead"}]
  /\ prefixOf \in [Gens -> Prefixes \cup {<<>>}]
  /\ \A g \in Gens : life[g] # "none" => prefixOf[g] \in Prefixes

LEMMA CreatedNat == ASSUME UpstreamNamespacesAssumption PROVE Created \in Nat
<1>1. IsFiniteSet(Gens)
  BY FS_Interval DEF Gens, UpstreamNamespacesAssumption
<1>2. IsFiniteSet({g \in Gens : life[g] # "none"})
  BY <1>1, FS_Subset
<1> QED
  BY <1>2, FS_CardinalityType DEF Created

LEMMA CommandType ==
  ASSUME Queued, HasCommand
  PROVE  /\ Command \in Commands
         /\ FromDeferred => Command \in Interest
         /\ Take => commands' \in Seq(Commands) /\ deferred' \in Seq(Interest)
<1>1. deferred # <<>> => Head(deferred) \in Interest /\ Tail(deferred) \in Seq(Interest)
  BY DEF Queued
<1>2. commands # <<>> => Head(commands) \in Commands /\ Tail(commands) \in Seq(Commands)
  <2> HIDE DEF Commands
  <2> QED
    BY DEF Queued
<1>3. Interest \subseteq Commands
  BY DEF Commands
<1> QED
  BY <1>1, <1>2, <1>3 DEF Queued, HasCommand, FromDeferred, Command, Take

LEMMA InterestCommand ==
  ASSUME Queued, HasCommand, Command.kind \in {"subscribe", "unsubscribe"}
  PROVE  Command.prefix \in Prefixes /\ Command.gen \in Gens
<1>1. Command \in Interest
  BY CommandType DEF Commands, Interest
<1> QED
  BY <1>1 DEF Interest

LEMMA QueuedStep ==
  ASSUME UpstreamNamespacesAssumption, Queued, [Next]_vars
  PROVE  Queued'
<1> USE DEF UpstreamNamespacesAssumption
<1>1. ASSUME NEW p \in Prefixes, ShareLease(p) PROVE Queued'
  BY <1>1 DEF ShareLease, Queued, runner
<1>2. ASSUME NEW p \in Prefixes, NewLease(p) PROVE Queued'
  <2>1. Created + 1 \in Gens
    BY <1>2, CreatedNat DEF NewLease, Gens
  <2>2. [kind |-> "subscribe", prefix |-> p, gen |-> Created + 1] \in Commands
    BY <2>1 DEF Commands, Interest
  <2>3. commands' \in Seq(Commands)
    BY <1>2, <2>2 DEF NewLease, Queued
  <2> QED
    BY <1>2, <2>1, <2>3 DEF NewLease, Queued, runner
<1>3. ASSUME NEW g \in Gens, Release(g) PROVE Queued'
  BY <1>3 DEF Release, Queued, runner
<1>4. ASSUME NEW g \in Gens, DropInterest(g) PROVE Queued'
  <2>1. [kind |-> "unsubscribe", prefix |-> prefixOf[g], gen |-> g] \in Commands
    BY <1>4 DEF DropInterest, Queued, Commands, Interest
  <2>2. commands' \in Seq(Commands)
    <3>1. commands \in Seq(Commands) /\ (commands' = commands \/
            commands' = Append(commands, [kind |-> "unsubscribe", prefix |-> prefixOf[g], gen |-> g]))
      BY <1>4 DEF DropInterest, Queued
    <3> QED
      BY <2>1, <3>1
  <2> QED
    BY <1>4, <2>2 DEF DropInterest, Queued, runner
<1>5. ASSUME Defer PROVE Queued'
  <2>1. Command \in Interest /\ Command = Head(commands)
    BY <1>5, CommandType DEF Defer, HasCommand, FromDeferred, Command, Commands, Interest
  <2>2. deferred' \in Seq(Interest) /\ commands' \in Seq(Commands)
    BY <1>5, <2>1 DEF Defer, Queued
  <2> QED
    BY <1>5, <2>2 DEF Defer, Queued, leases
<1>6. ASSUME AddInterest PROVE Queued'
  <2>1. Command.prefix \in Prefixes /\ Command.gen \in Gens
    BY <1>6, InterestCommand DEF AddInterest
  <2>2. commands' \in Seq(Commands) /\ deferred' \in Seq(Interest)
    BY <1>6, CommandType DEF AddInterest
  <2>3. active' \in [Prefixes -> Gens \cup {None}]
    BY <1>6, <2>1 DEF AddInterest, Queued
  <2> QED
    BY <1>6, <2>2, <2>3 DEF AddInterest, Queued, leases
<1>7. ASSUME RemoveInterest PROVE Queued'
  <2>1. commands' \in Seq(Commands) /\ deferred' \in Seq(Interest)
    BY <1>7, CommandType DEF RemoveInterest
  <2>2. active' \in [Prefixes -> Gens \cup {None}]
    BY <1>7 DEF RemoveInterest, Queued
  <2> QED
    BY <1>7, <2>1, <2>2 DEF RemoveInterest, Queued, leases
<1>8. ASSUME PullEvent \/ PullEnded PROVE Queued'
  <2>1. commands' \in Seq(Commands)
    <3>1. commands \in Seq(Commands) /\ commands # <<>> /\ commands' = Tail(commands)
      BY <1>8 DEF PullEvent, PullEnded, Queued
    <3> QED
      BY <3>1
  <2> QED
    BY <1>8, <2>1 DEF PullEvent, PullEnded, Queued, leases
<1>9. ASSUME NEW k \in Pulls, Accepted(k) \/ Retry(k) \/ Rejected(k) PROVE Queued'
  BY <1>9 DEF Accepted, Retry, Rejected, Queued, leases, runner
<1>10. ASSUME NEW k \in Pulls, Cancelled(k) \/ Drained(k) \/ StreamEnds(k) PROVE Queued'
  <2>1. [kind |-> "ended", pull |-> k] \in Commands
    BY DEF Commands
  <2>2. commands' \in Seq(Commands)
    <3>1. commands \in Seq(Commands) /\ (commands' = commands \/
            commands' = Append(commands, [kind |-> "ended", pull |-> k]))
      BY <1>10 DEF Cancelled, Drained, StreamEnds, Send, Queued
    <3> QED
      BY <2>1, <3>1
  <2> QED
    BY <1>10, <2>2 DEF Cancelled, Drained, StreamEnds, Queued, leases, runner
<1>11. ASSUME NEW k \in Pulls, NEW n \in Namespaces, Event(k, n) PROVE Queued'
  <2>1. [kind |-> "event", pull |-> k, ns |-> n, added |-> n \notin told[k]] \in Commands
    BY DEF Commands
  <2>2. commands' \in Seq(Commands)
    BY <1>11, <2>1 DEF Event, Send, Queued
  <2> QED
    BY <1>11, <2>2 DEF Event, Queued, leases, runner
<1>12. ASSUME NEW r \in Relays, NEW n \in Namespaces, UpstreamChanges(r, n) PROVE Queued'
  BY <1>12 DEF UpstreamChanges, Queued, leases, runner
<1>13. ASSUME UNCHANGED vars PROVE Queued'
  BY <1>13 DEF vars, Queued, leases, runner
<1> QED
  BY <1>1, <1>2, <1>3, <1>4, <1>5, <1>6, <1>7, <1>8, <1>9, <1>10, <1>11, <1>12, <1>13
     DEF Next, Runner, Pull

-----------------------------------------------------------------------------
(* The runner implements CoveringPrefixSet                                   *)

\* What AddInterest and RemoveInterest do to the interests.
LEMMA AddStep ==
  ASSUME UpstreamNamespacesAssumption, Queued, AddInterest
  PROVE  \/ Interests' = Interests /\ Ignored
         \/ /\ Covering!Add(Command.prefix) /\ Command.prefix \in Prefixes \ Interests
            /\ Apply(Covering!AddDelta(Interests, roots, Command.prefix))
<1> DEFINE p == Command.prefix
<1>1. p \in Prefixes /\ Command.gen \in Gens
  BY InterestCommand DEF AddInterest
<1>2. Command.gen # None
  BY <1>1 DEF Gens, None, UpstreamNamespacesAssumption
<1>3. CASE ~IsNew(p, Command.gen)
  BY <1>3 DEF AddInterest, Interests
<1>4. CASE IsNew(p, Command.gen) /\ active[p] # None
  <2>1. active' = [active EXCEPT ![p] = Command.gen] /\ Ignored
    BY <1>4 DEF AddInterest
  <2> QED
    BY <1>1, <1>2, <1>4, <2>1 DEF Interests, Queued
<1>5. CASE IsNew(p, Command.gen) /\ active[p] = None
  <2>1. /\ active' = [active EXCEPT ![p] = Command.gen]
        /\ Apply(Covering!AddDelta(Interests, roots, p))
    BY <1>5 DEF AddInterest
  <2>2. Interests' = Interests \cup {p} /\ p \notin Interests
    BY <1>1, <1>2, <1>5, <2>1 DEF Interests, Queued
  <2> QED
    BY <1>1, <2>1, <2>2 DEF Apply, NewRoots, Covering!Add
<1> QED
  BY <1>3, <1>4, <1>5

LEMMA RemoveStep ==
  ASSUME UpstreamNamespacesAssumption, Queued, RemoveInterest
  PROVE  \/ Interests' = Interests /\ Ignored
         \/ /\ Covering!Remove(Command.prefix) /\ Command.prefix \in Interests
            /\ Apply(Covering!RemoveDelta(Interests, roots, Command.prefix))
<1> DEFINE p == Command.prefix
<1>1. p \in Prefixes /\ Command.gen \in Gens
  BY InterestCommand DEF RemoveInterest
<1>2. Command.gen # None
  BY <1>1 DEF Gens, None, UpstreamNamespacesAssumption
<1>3. CASE active[p] # Command.gen
  BY <1>3 DEF RemoveInterest, Interests
<1>4. CASE active[p] = Command.gen
  <2>1. /\ active' = [active EXCEPT ![p] = None]
        /\ Apply(Covering!RemoveDelta(Interests, roots, p))
    BY <1>4 DEF RemoveInterest
  <2>2. Interests' = Interests \ {p} /\ p \in Interests
    BY <1>1, <1>2, <1>4, <2>1 DEF Interests, Queued
  <2> QED
    BY <1>1, <2>1, <2>2 DEF Apply, NewRoots, Covering!Remove
<1> QED
  BY <1>3, <1>4

\* Every other step leaves the interests and the roots alone.
LEMMA OtherStep ==
  ASSUME [Next]_vars, ~AddInterest, ~RemoveInterest
  PROVE  Interests' = Interests /\ roots' = roots /\ active' = active
<1>1. ASSUME PullEnded PROVE roots' = roots /\ active' = active
  BY <1>1 DEF PullEnded, Ignored
<1>2. ASSUME NEW k \in Pulls, Pull(k) \/ Rejected(k) \/ StreamEnds(k)
      PROVE roots' = roots /\ active' = active
  BY <1>2 DEF Pull, Accepted, Retry, Cancelled, Drained, Rejected, StreamEnds, runner
<1>3. ASSUME NEW k \in Pulls, NEW n \in Namespaces, Event(k, n)
      PROVE roots' = roots /\ active' = active
  BY <1>3 DEF Event, runner
<1>4. roots' = roots /\ active' = active
  BY <1>1, <1>2, <1>3
     DEF Next, Runner, Defer, PullEvent, ShareLease, NewLease, Release, DropInterest, UpstreamChanges,
         vars, runner
<1> QED
  BY <1>4 DEF Interests

(* The runner's interests and roots change only as CoveringPrefixSet adds    *)
(* and removes (UpstreamNamespacesRunner::add_interest, remove_interest).    *)
THEOREM Refines == UpstreamNamespacesAssumption /\ Spec => Covering!Spec
<1> SUFFICES ASSUME UpstreamNamespacesAssumption PROVE Spec => Covering!Spec
  OBVIOUS
<1>1. Init => Queued /\ Covering!Init
  <2> SUFFICES ASSUME Init PROVE Queued /\ Covering!Init
    OBVIOUS
  <2>1. commands \in Seq(Commands) /\ deferred \in Seq(Interest)
    BY DEF Init
  <2>2. Queued
    BY <2>1 DEF Init, Queued
  <2>3. Interests = {} /\ roots = {}
    BY DEF Init, Interests
  <2> QED
    BY <2>2, <2>3 DEF Covering!Init
<1>2. Queued /\ [Next]_vars => Queued'
  BY QueuedStep
<1>3. Queued /\ [Next]_vars => [Covering!Next]_(Covering!vars)
  <2> SUFFICES ASSUME Queued, [Next]_vars PROVE [Covering!Next]_(Covering!vars)
    OBVIOUS
  <2>1. Interests \subseteq Prefixes
    BY DEF Interests
  <2>2. CASE AddInterest
    BY <2>2, AddStep DEF Covering!Next, Covering!vars, Ignored
  <2>3. CASE RemoveInterest
    BY <2>1, <2>3, RemoveStep DEF Covering!Next, Covering!vars, Ignored
  <2>4. CASE ~AddInterest /\ ~RemoveInterest
    BY <2>4, OtherStep DEF Covering!vars
  <2> QED
    BY <2>2, <2>3, <2>4
<1> QED
  BY <1>1, <1>2, <1>3, PTL DEF Spec, Covering!Spec

-----------------------------------------------------------------------------
(* Where namespaces are registered                                           *)

Phases == {"none", "opening", "open", "backoff", "draining", "gone"}
Born(k) == phase[k] # "none"

PullTypes ==
  /\ started \in Nat /\ phase \in [Pulls -> Phases]
  /\ pullRoot \in [Pulls -> Prefixes \cup {<<>>}] /\ pullRelay \in [Pulls -> Relays \cup {None}]
  /\ pulls \in [Prefixes -> SUBSET Pulls]
  /\ \A k \in Pulls : Born(k) => k <= started /\ pullRoot[k] \in Prefixes
  /\ \A p \in Prefixes : \A k \in pulls[p] : Born(k) /\ pullRoot[k] = p
  /\ transition \in [old : SUBSET Pulls, started : SUBSET Relays,
                     targets : [Relays -> SUBSET Prefixes], removed : SUBSET Prefixes]

\* start_pull gives each pull a number of its own, and a root and a relay that
\* no other new pull has.
LEMMA StartFacts ==
  ASSUME UpstreamNamespacesAssumption, PullTypes,
         NEW targets \in SUBSET (Prefixes \X Relays),
         NEW pulls1 \in [Prefixes -> SUBSET Pulls],
         StartPulls(targets, pulls1, phase)
  PROVE  /\ started' \in Nat /\ started <= started'
         /\ phase' \in [Pulls -> Phases] /\ pullRoot' \in [Pulls -> Prefixes \cup {<<>>}]
         /\ pullRelay' \in [Pulls -> Relays \cup {None}] /\ pulls' \in [Prefixes -> SUBSET Pulls]
         /\ \A k \in Pulls : Born(k) => /\ phase'[k] = phase[k] /\ pullRoot'[k] = pullRoot[k]
                                        /\ pullRelay'[k] = pullRelay[k]
         /\ \A k \in Pulls : ~Born(k) /\ phase'[k] # "none" =>
              /\ k <= started' /\ phase'[k] = "opening"
              /\ pullRoot'[k] \in Prefixes /\ pullRelay'[k] \in Relays
              /\ <<pullRoot'[k], pullRelay'[k]>> \in targets
         /\ \A p \in Prefixes : \A k \in pulls'[p] :
              k \in pulls1[p] \/ (~Born(k) /\ phase'[k] # "none" /\ pullRoot'[k] = p)
         /\ \A k, l \in Pulls :
              ( /\ ~Born(k) /\ phase'[k] # "none" /\ ~Born(l) /\ phase'[l] # "none"
                /\ pullRoot'[k] = pullRoot'[l] /\ pullRelay'[k] = pullRelay'[l] ) => k = l
         /\ \A p \in Prefixes : pulls1[p] \subseteq pulls'[p]
         /\ \A k \in Pulls : ~Born(k) /\ phase'[k] # "none" => k \in pulls'[pullRoot'[k]]
<1> DEFINE n == Cardinality(targets)
<1>1. n \in Nat
  <2>1. IsFiniteSet(Prefixes \X Relays)
    BY FS_Product DEF UpstreamNamespacesAssumption
  <2> QED
    BY <2>1, FS_Subset, FS_CardinalityType
<1>2. PICK ids \in [targets -> (started + 1) .. (started + n)] :
        /\ started + n <= MaxPulls
        /\ \A s, t \in targets : ids[s] = ids[t] => s = t
        /\ LET of == [k \in {ids[t] : t \in targets} |-> CHOOSE t \in targets : ids[t] = k] IN
           /\ started' = started + n
           /\ pulls' = [p \in Prefixes |-> pulls1[p] \cup {ids[t] : t \in {u \in targets : u[1] = p}}]
           /\ phase' = [k \in Pulls |-> IF k \in DOMAIN of THEN "opening" ELSE phase[k]]
           /\ pullRoot' = [k \in Pulls |-> IF k \in DOMAIN of THEN of[k][1] ELSE pullRoot[k]]
           /\ pullRelay' = [k \in Pulls |-> IF k \in DOMAIN of THEN of[k][2] ELSE pullRelay[k]]
  BY DEF StartPulls
<1> DEFINE new == {ids[t] : t \in targets}
           of == [k \in new |-> CHOOSE t \in targets : ids[t] = k]
<1>3. \A t \in targets : of[ids[t]] = t /\ t = <<t[1], t[2]>> /\ t[1] \in Prefixes /\ t[2] \in Relays
  BY <1>2
<1>4. \A t \in targets : ids[t] \in Nat /\ ids[t] > started /\ ids[t] <= started + n /\ ids[t] \in Pulls
  BY <1>1, <1>2 DEF PullTypes, Pulls, UpstreamNamespacesAssumption
<1>5. \A k \in Pulls : Born(k) => k \notin new
  <2> SUFFICES ASSUME NEW t \in targets, Born(ids[t]) PROVE FALSE
    OBVIOUS
  <2>1. ids[t] <= started
    BY <1>4 DEF PullTypes
  <2> QED
    BY <1>4, <2>1 DEF PullTypes
<1> DEFINE root1 == [k \in Pulls |-> IF k \in new THEN of[k][1] ELSE pullRoot[k]]
           relay1 == [k \in Pulls |-> IF k \in new THEN of[k][2] ELSE pullRelay[k]]
           phase1 == [k \in Pulls |-> IF k \in new THEN "opening" ELSE phase[k]]
           after == [p \in Prefixes |-> pulls1[p] \cup {ids[t] : t \in {u \in targets : u[1] = p}}]
<1>6. phase' = phase1 /\ pullRoot' = root1 /\ pullRelay' = relay1 /\ pulls' = after
      /\ started' = started + n
  BY <1>2
<1>7. \A k \in new : k \in Pulls /\ phase1[k] = "opening" /\ k <= started + n
                     /\ of[k] \in targets /\ ids[of[k]] = k
                     /\ root1[k] = of[k][1] /\ relay1[k] = of[k][2]
  BY <1>3, <1>4
<1>8. \A k \in Pulls : ~Born(k) /\ phase1[k] # "none" => k \in new
  BY DEF Born
<1>9. \A k \in Pulls : Born(k) => phase1[k] = phase[k] /\ root1[k] = pullRoot[k] /\ relay1[k] = pullRelay[k]
  BY <1>5
<1> HIDE DEF of, new
<1>0. \A p \in Prefixes : \A k : k \in after[p] <=>
         k \in pulls1[p] \/ \E t \in targets : t[1] = p /\ k = ids[t]
  OBVIOUS
<1> HIDE DEF after
<1>10. \A p \in Prefixes : \A k \in after[p] :
         k \in pulls1[p] \/ (k \in new /\ ~Born(k) /\ root1[k] = p)
  <2>1. ASSUME NEW t \in targets
        PROVE  ids[t] \in new /\ ~Born(ids[t]) /\ root1[ids[t]] = t[1]
    <3>1. ids[t] \in new /\ of[ids[t]] = t
      BY <1>3 DEF new
    <3> QED
      BY <1>4, <1>5, <1>7, <3>1
  <2> HIDE DEF root1
  <2> SUFFICES ASSUME NEW p \in Prefixes, NEW k \in after[p], k \notin pulls1[p]
               PROVE  k \in new /\ ~Born(k) /\ root1[k] = p
    OBVIOUS
  <2>2. PICK t \in targets : t[1] = p /\ k = ids[t]
    BY <1>0
  <2> QED
    BY <2>1, <2>2
<1>11. \A k \in new : k \in after[root1[k]]
  <2> SUFFICES ASSUME NEW k \in new PROVE k \in after[root1[k]]
    OBVIOUS
  <2>1. of[k] \in targets /\ ids[of[k]] = k /\ root1[k] = of[k][1] /\ of[k][1] \in Prefixes
    BY <1>3, <1>7
  <2> QED
    BY <1>0, <2>1
<1>12. phase1 \in [Pulls -> Phases] /\ root1 \in [Pulls -> Prefixes \cup {<<>>}]
       /\ relay1 \in [Pulls -> Relays \cup {None}] /\ after \in [Prefixes -> SUBSET Pulls]
  <2>1. \A k \in new : of[k][1] \in Prefixes /\ of[k][2] \in Relays
    BY <1>3, <1>7
  <2>2. root1 \in [Pulls -> Prefixes \cup {<<>>}] /\ relay1 \in [Pulls -> Relays \cup {None}]
    BY <2>1 DEF PullTypes
  <2>3. phase1 \in [Pulls -> Phases]
    BY DEF PullTypes, Phases
  <2>4. after \in [Prefixes -> SUBSET Pulls]
    BY <1>4 DEF after
  <2> QED
    BY <2>2, <2>3, <2>4
<1>13. \A k \in new : <<root1[k], relay1[k]>> = of[k] /\ root1[k] \in Prefixes /\ relay1[k] \in Relays
  BY <1>3, <1>7
<1>14. \A k, l \in new : root1[k] = root1[l] /\ relay1[k] = relay1[l] => k = l
  <2> SUFFICES ASSUME NEW k \in new, NEW l \in new, root1[k] = root1[l], relay1[k] = relay1[l]
               PROVE  k = l
    OBVIOUS
  <2> HIDE DEF root1, relay1
  <2>1. of[k] = of[l]
    BY <1>13
  <2> QED
    BY <1>7, <2>1
<1> HIDE DEF root1, relay1, phase1, n
<1>15. started + n \in Nat /\ started <= started + n
  BY <1>1 DEF PullTypes
<1>16. \A p \in Prefixes : pulls1[p] \subseteq after[p]
  BY <1>0
<1>17. \A k \in Pulls : ~Born(k) /\ phase1[k] # "none" =>
         /\ k <= started + n /\ phase1[k] = "opening"
         /\ root1[k] \in Prefixes /\ relay1[k] \in Relays /\ <<root1[k], relay1[k]>> \in targets
  BY <1>7, <1>8, <1>13
<1>18. \A k \in new : phase1[k] # "none"
  BY <1>7
<1>19. \A p \in Prefixes : \A k \in after[p] :
         k \in pulls1[p] \/ (~Born(k) /\ phase1[k] # "none" /\ root1[k] = p)
  BY <1>10, <1>18
<1>20. \A k \in Pulls : ~Born(k) /\ phase1[k] # "none" => k \in after[root1[k]]
  BY <1>8, <1>11
<1>21. \A k, l \in Pulls :
         ( /\ ~Born(k) /\ phase1[k] # "none" /\ ~Born(l) /\ phase1[l] # "none"
           /\ root1[k] = root1[l] /\ relay1[k] = relay1[l] ) => k = l
  BY <1>8, <1>14
<1> QED
  BY <1>6, <1>9, <1>12, <1>15, <1>16, <1>17, <1>19, <1>20, <1>21

-----------------------------------------------------------------------------
(* Roots, their states and their pulls                                       *)

Active(k) == phase[k] \notin {"none", "gone"}

Transitions == [old : SUBSET Pulls, started : SUBSET Relays,
                targets : [Relays -> SUBSET Prefixes], removed : SUBSET Prefixes]

\* The RootStates are those of the roots, and of the ones that retire with
\* transition t; what has no RootState has neither pulls nor namespaces.
Served(ro, rt, re, pl, t) ==
  /\ ro \subseteq Prefixes /\ rt \in [Prefixes -> {"none", "live", "retiring"}]
  /\ \A p \in Prefixes : /\ rt[p] = "live" <=> p \in ro
                         /\ rt[p] = "retiring" <=> p \in t.removed
                         /\ rt[p] = "none" => re[p] = {} /\ pl[p] = {}
  /\ \A p \in t.removed : pl[p] \subseteq t.old

\* A pull that has not ended is an old one of the transition or one of a root,
\* and what is still to be started has not been.
Homes(ro, pl, t) ==
  /\ \A k \in Pulls : Active(k) => k \in t.old \/ (pullRoot[k] \in ro /\ k \in pl[pullRoot[k]])
  /\ \A r \in Relays : \A p \in t.targets[r] :
       p \in ro /\ (r \notin t.started => \A k \in pl[p] : pullRelay[k] # r)

NoneOverlap ==
  \A k, l \in Pulls :
    ( k # l /\ Active(k) /\ Active(l) /\ pullRelay[k] = pullRelay[l] )
      => ~Covering!Overlaps(pullRoot[k], pullRoot[l])

Antichain(ro) == \A p, q \in ro : p # q => ~Covering!Overlaps(p, q)

\* start_ready_relay_transitions and finish_transition_if_ready keep all this.
LEMMA AdvanceStep ==
  ASSUME UpstreamNamespacesAssumption, PullTypes, NoneOverlap,
         NEW t \in Transitions, NEW pulls1 \in [Prefixes -> SUBSET Pulls],
         NEW root1, NEW retained1 \in [Prefixes -> SUBSET Namespaces], NEW ro,
         \A p \in Prefixes : pulls1[p] \subseteq pulls[p],
         Antichain(ro), Served(ro, root1, retained1, pulls1, t), Homes(ro, pulls1, t),
         Advance(t, pulls1, phase, root1, retained1)
  PROVE  /\ PullTypes' /\ NoneOverlap'
         /\ Served(ro, root', retained', pulls', transition')
         /\ \A k \in Pulls : Active(k)' => k \in transition'.old
              \/ (pullRoot'[k] \in ro /\ k \in pulls'[pullRoot'[k]])
         /\ \A r \in Relays : \A p \in transition'.targets[r] :
              p \in ro /\ (r \notin transition'.started => \A k \in pulls'[p] : pullRelay'[k] # r)
         /\ \A k \in Pulls : Born(k) => /\ phase'[k] = phase[k] /\ pullRoot'[k] = pullRoot[k]
                                        /\ pullRelay'[k] = pullRelay[k]
         /\ retained' \in [Prefixes -> SUBSET Namespaces]
         /\ \A p \in Prefixes : /\ retained'[p] \subseteq retained1[p]
                                /\ p \notin t.removed => retained'[p] = retained1[p]
<1> DEFINE T == {pr \in Prefixes \X Relays : pr[2] \in Ready(t) /\ pr[1] \in t.targets[pr[2]]}
           fresh == {k \in Pulls : ~Born(k) /\ phase'[k] # "none"}
<1>1. StartPulls(T, pulls1, phase) /\ T \in SUBSET (Prefixes \X Relays)
  BY DEF Advance
<1>2. /\ started' \in Nat /\ started <= started'
      /\ phase' \in [Pulls -> Phases] /\ pullRoot' \in [Pulls -> Prefixes \cup {<<>>}]
      /\ pullRelay' \in [Pulls -> Relays \cup {None}] /\ pulls' \in [Prefixes -> SUBSET Pulls]
  <2> HIDE DEF T
  <2> QED
    BY <1>1, StartFacts
<1>3. \A k \in Pulls : Born(k) => /\ phase'[k] = phase[k] /\ pullRoot'[k] = pullRoot[k]
                                  /\ pullRelay'[k] = pullRelay[k]
  <2> HIDE DEF T
  <2> QED
    BY <1>1, StartFacts
<1>4. \A k \in fresh : /\ k <= started' /\ phase'[k] = "opening"
                       /\ pullRoot'[k] \in Prefixes /\ pullRelay'[k] \in Relays
                       /\ <<pullRoot'[k], pullRelay'[k]>> \in T /\ k \in pulls'[pullRoot'[k]]
  <2> HIDE DEF T
  <2> QED
    BY <1>1, StartFacts
<1>5. \A p \in Prefixes : \A k \in pulls'[p] : k \in pulls1[p] \/ (k \in fresh /\ pullRoot'[k] = p)
  <2> HIDE DEF T
  <2>1. \A p \in Prefixes : pulls'[p] \subseteq Pulls
    BY <1>2
  <2> QED
    <3>1. \A p \in Prefixes : \A k \in pulls'[p] :
            k \in pulls1[p] \/ (~Born(k) /\ phase'[k] # "none" /\ pullRoot'[k] = p)
      BY <1>1, StartFacts
    <3> QED
      BY <2>1, <3>1
<1>6. \A k, l \in fresh : pullRoot'[k] = pullRoot'[l] /\ pullRelay'[k] = pullRelay'[l] => k = l
  <2> HIDE DEF T
  <2> QED
    BY <1>1, StartFacts
<1>7. \A p \in Prefixes : pulls1[p] \subseteq pulls'[p]
  <2> HIDE DEF T
  <2> QED
    BY <1>1, StartFacts
\* A new pull is of a root, at a relay where no old pull is left.
<1>8. \A k \in fresh : /\ pullRoot'[k] \in ro /\ pullRelay'[k] \in Ready(t)
                       /\ pullRoot'[k] \in t.targets[pullRelay'[k]]
  BY <1>4 DEF Homes
<1>9. PullTypes'
  <2>1. transition' \in Transitions
    BY DEF Advance, NoTransition, Transitions, Ready
  <2>2. \A k \in Pulls : phase'[k] # "none" => k <= started' /\ pullRoot'[k] \in Prefixes
    <3> SUFFICES ASSUME NEW k \in Pulls, phase'[k] # "none"
                 PROVE  k <= started' /\ pullRoot'[k] \in Prefixes
      OBVIOUS
    <3>1. CASE k \in fresh
      BY <1>4, <3>1
    <3>2. CASE Born(k)
      <4>1. k <= started /\ pullRoot[k] \in Prefixes /\ k \in Nat
        BY <3>2 DEF PullTypes, Pulls
      <4> QED
        BY <1>2, <1>3, <3>2, <4>1 DEF PullTypes
    <3> QED
      BY <3>1, <3>2
  <2>3. \A p \in Prefixes : \A k \in pulls'[p] : phase'[k] # "none" /\ pullRoot'[k] = p
    BY <1>3, <1>5 DEF PullTypes, Born
  <2> QED
    BY <1>2, <2>1, <2>2, <2>3 DEF PullTypes, Transitions, Born
<1>10. \A k \in Pulls : Active(k)' => Active(k) \/ k \in fresh
  BY <1>3 DEF Active, Born
<1>11. \A k \in Pulls : Active(k) => /\ Born(k) /\ pullRoot'[k] = pullRoot[k]
                                     /\ pullRelay'[k] = pullRelay[k] /\ pullRoot[k] \in Prefixes
  BY <1>3 DEF Active, Born, PullTypes
<1>12. NoneOverlap'
  <2>1. ASSUME NEW k \in fresh, NEW l \in Pulls, Active(l), pullRelay'[k] = pullRelay'[l]
        PROVE  ~Covering!Overlaps(pullRoot'[k], pullRoot'[l])
               /\ ~Covering!Overlaps(pullRoot'[l], pullRoot'[k])
    <3>1. l \notin t.old
      BY <1>8, <1>11, <2>1 DEF Ready
    <3>2. pullRoot[l] \in ro /\ l \in pulls1[pullRoot[l]] /\ pullRoot[l] \in Prefixes
      BY <1>11, <2>1, <3>1 DEF Homes
    <3>3. pullRelay'[k] \in Relays \ t.started
      BY <1>8 DEF Ready
    <3>4. pullRoot'[k] # pullRoot[l]
      BY <1>8, <1>11, <2>1, <3>2, <3>3 DEF Homes
    <3> QED
      BY <1>8, <1>11, <2>1, <3>2, <3>4 DEF Antichain
  <2>2. ASSUME NEW k \in fresh, NEW l \in fresh, k # l, pullRelay'[k] = pullRelay'[l]
        PROVE  ~Covering!Overlaps(pullRoot'[k], pullRoot'[l])
    BY <1>6, <1>8, <2>2 DEF Antichain
  <2>3. ASSUME NEW k \in Pulls, NEW l \in Pulls, k # l, Active(k), Active(l), pullRelay'[k] = pullRelay'[l]
        PROVE  ~Covering!Overlaps(pullRoot'[k], pullRoot'[l])
    BY <1>11, <2>3 DEF NoneOverlap
  <2> SUFFICES ASSUME NEW k \in Pulls, NEW l \in Pulls, k # l, Active(k)', Active(l)',
                      pullRelay'[k] = pullRelay'[l]
               PROVE  ~Covering!Overlaps(pullRoot'[k], pullRoot'[l])
    BY DEF NoneOverlap
  <2> QED
    BY <1>10, <2>1, <2>2, <2>3
<1>13. CASE t.old = {}
  <2>1. /\ transition' = NoTransition
        /\ root' = Retire(root1, t.removed, "none") /\ retained' = Retire(retained1, t.removed, {})
    BY <1>13 DEF Advance
  <2>2. Served(ro, root', retained', pulls', transition')
    <3>1. \A p \in Prefixes : root'[p] = (IF p \in t.removed THEN "none" ELSE root1[p])
                             /\ retained'[p] = (IF p \in t.removed THEN {} ELSE retained1[p])
      BY <2>1 DEF Retire
    <3>2. \A k \in fresh : pullRoot'[k] \in ro
      BY <1>8
    <3>3. \A p \in Prefixes : p \notin ro => pulls'[p] = pulls1[p]
      <4> HIDE DEF fresh
      <4>1. \A p \in Prefixes : p \notin ro => pulls'[p] \subseteq pulls1[p]
        BY <1>5, <3>2
      <4> QED
        BY <1>7, <4>1
    <3>4. \A p \in t.removed : pulls1[p] = {} /\ p \notin ro /\ p \in Prefixes
      BY <1>13 DEF Served, Transitions
    <3>5. root' \in [Prefixes -> {"none", "live", "retiring"}]
      BY <2>1 DEF Retire, Served
    <3> QED
      BY <2>1, <3>1, <3>3, <3>4, <3>5 DEF Served, NoTransition
  <2>3. \A k \in Pulls : Active(k)' => k \in transition'.old
              \/ (pullRoot'[k] \in ro /\ k \in pulls'[pullRoot'[k]])
    BY <1>4, <1>7, <1>8, <1>10, <1>11, <1>13 DEF Homes
  <2>4. \A r \in Relays : transition'.targets[r] = {}
    BY <2>1 DEF NoTransition
  <2>5. /\ retained' \in [Prefixes -> SUBSET Namespaces]
        /\ \A p \in Prefixes : /\ retained'[p] \subseteq retained1[p]
                               /\ p \notin t.removed => retained'[p] = retained1[p]
    BY <2>1 DEF Retire
  <2> QED
    BY <1>3, <1>9, <1>12, <2>2, <2>3, <2>4, <2>5
<1>14. CASE t.old # {}
  <2>1. /\ transition' = [t EXCEPT !.started = @ \cup Ready(t)]
        /\ root' = root1 /\ retained' = retained1
    BY <1>14 DEF Advance
  <2>2. /\ transition'.old = t.old /\ transition'.targets = t.targets
        /\ transition'.removed = t.removed /\ transition'.started = t.started \cup Ready(t)
    BY <2>1 DEF Transitions
  <2>3. Served(ro, root', retained', pulls', transition')
    <3>1. \A p \in Prefixes : p \notin ro => pulls'[p] = pulls1[p]
      <4> HIDE DEF fresh
      <4>1. \A p \in Prefixes : p \notin ro => pulls'[p] \subseteq pulls1[p]
        BY <1>5, <1>8
      <4> QED
        BY <1>7, <4>1
    <3>2. \A p \in t.removed : p \notin ro /\ p \in Prefixes
      BY DEF Served, Transitions
    <3> QED
      BY <2>1, <2>2, <3>1, <3>2 DEF Served
  <2>4. \A k \in Pulls : Active(k)' => k \in transition'.old
              \/ (pullRoot'[k] \in ro /\ k \in pulls'[pullRoot'[k]])
    BY <1>4, <1>7, <1>8, <1>10, <1>11, <2>2 DEF Homes
  <2>5. \A r \in Relays : \A p \in transition'.targets[r] :
              p \in ro /\ (r \notin transition'.started => \A k \in pulls'[p] : pullRelay'[k] # r)
    <3> SUFFICES ASSUME NEW r \in Relays, NEW p \in t.targets[r]
                 PROVE  p \in ro /\ (r \notin t.started \cup Ready(t)
                                     => \A k \in pulls'[p] : pullRelay'[k] # r)
      BY <2>2
    <3>1. p \in ro /\ p \in Prefixes
      BY DEF Homes, Transitions
    <3>2. ASSUME r \notin t.started \cup Ready(t), NEW k \in pulls'[p] PROVE pullRelay'[k] # r
      <4>1. CASE k \in pulls1[p]
        BY <1>3, <3>1, <3>2, <4>1 DEF Homes, PullTypes
      <4>2. CASE k \in fresh
        BY <1>8, <3>2, <4>2
      <4> QED
        BY <1>5, <3>1, <4>1, <4>2
    <3> QED
      BY <3>1, <3>2
  <2> QED
    BY <1>3, <1>9, <1>12, <2>1, <2>3, <2>4, <2>5
<1> QED
  BY <1>13, <1>14

\* A namespace is registered under a root that covers it.
Placed ==
  /\ sources \in [Pulls -> SUBSET Namespaces] /\ retained \in [Prefixes -> SUBSET Namespaces]
  /\ \A k \in Pulls : \A n \in sources[k] : Born(k) /\ Covering!Covers(pullRoot[k], n)
  /\ \A p \in Prefixes : \A n \in retained[p] : Covering!Covers(p, n)

LEMMA BroadestApart ==
  ASSUME UpstreamNamespacesAssumption, NEW a \in SUBSET Prefixes
  PROVE  Antichain(Covering!Broadest(a))
<1> SUFFICES ASSUME NEW p \in Covering!Broadest(a), NEW q \in Covering!Broadest(a), p # q,
                    Covering!Overlaps(p, q)
             PROVE  FALSE
  BY DEF Antichain
<1>1. p \in a /\ q \in a /\ p \in Seq(Fields) /\ q \in Seq(Fields)
  BY DEF Covering!Broadest, UpstreamNamespacesAssumption
<1>2. Covering!Overlaps(q, p)
  BY DEF Covering!Overlaps
<1>3. Covering!Covers(p, q) \/ Covering!Covers(q, p)
  BY <1>1, <1>2 DEF Covering!Covers
<1>4. Covering!StrictlyCovers(p, q) \/ Covering!StrictlyCovers(q, p)
  BY <1>1, <1>3, Covering!StrictlyCoversIff
<1> QED
  BY <1>1, <1>4 DEF Covering!Broadest

\* apply_delta, of roots that go and prefixes that were no root.
LEMMA ApplyStep ==
  ASSUME UpstreamNamespacesAssumption, PullTypes, NoneOverlap, Placed, ~InTransition,
         Served(roots, root, retained, pulls, transition), Homes(roots, pulls, transition),
         Antichain(roots),
         NEW delta, delta.added \subseteq Prefixes \ roots, delta.removed \subseteq roots,
         NEW ro, ro = NewRoots(delta), Antichain(ro), ApplyDelta(delta)
  PROVE  /\ PullTypes' /\ NoneOverlap' /\ Placed'
         /\ Served(ro, root', retained', pulls', transition')
         /\ \A k \in Pulls : Active(k)' => k \in transition'.old
              \/ (pullRoot'[k] \in ro /\ k \in pulls'[pullRoot'[k]])
         /\ \A r \in Relays : \A p \in transition'.targets[r] :
              p \in ro /\ (r \notin transition'.started => \A k \in pulls'[p] : pullRelay'[k] # r)
         /\ \A k \in Pulls : Born(k) => /\ phase'[k] = phase[k] /\ pullRoot'[k] = pullRoot[k]
                                        /\ pullRelay'[k] = pullRelay[k]
         /\ \A n \in Registered : (\E p \in ro : Covering!Covers(p, n)) => n \in Registered'
<1> DEFINE A == delta.added
           R == {p \in delta.removed : root[p] = "live"}
           old == UNION {pulls[p] : p \in R}
           root1 == [p \in Prefixes |-> IF p \in A THEN "live"
                                       ELSE IF p \in R THEN "retiring" ELSE root[p]]
<1>0. transition = NoTransition /\ transition.removed = {} /\ transition.old = {}
  BY DEF InTransition, NoTransition
<1>1. /\ R \subseteq Prefixes /\ R \subseteq roots /\ A \cap R = {} /\ A \subseteq Prefixes
      /\ A \cap roots = {} /\ ro = (roots \ R) \cup A /\ ro \subseteq Prefixes
  BY DEF Served, NewRoots
<1>2. PICK named \in [A -> SUBSET Relays], late \in SUBSET Ending :
        LET sent == {k \in old : phase[k] # "gone"} \cup late IN
        /\ late \subseteq old
        /\ sources' = [k \in Pulls |-> IF k \in old THEN {} ELSE sources[k]]
        /\ Advance([old     |-> sent,
                    started |-> {},
                    targets |-> [r \in Relays |-> {p \in A : r \in named[p]}],
                    removed |-> R],
                   [p \in Prefixes |-> IF p \in R THEN pulls[p] \cap sent ELSE pulls[p]],
                   phase, root1, [p \in Prefixes |-> Transfer(p, R, A)])
  BY DEF ApplyDelta
<1> HIDE DEF A, R
<1>a. PICK retained1 : retained1 = [p \in Prefixes |-> Transfer(p, R, A)]
  OBVIOUS
<1> DEFINE sent == {k \in old : phase[k] # "gone"} \cup late
           t == [old |-> sent, started |-> {},
                 targets |-> [r \in Relays |-> {p \in A : r \in named[p]}], removed |-> R]
           pulls1 == [p \in Prefixes |-> IF p \in R THEN pulls[p] \cap sent ELSE pulls[p]]
<1>3. old \subseteq Pulls /\ sent \subseteq old
  BY <1>1, <1>2 DEF PullTypes
<1>4. t \in Transitions
  BY <1>1, <1>3 DEF Transitions
<1>5. pulls1 \in [Prefixes -> SUBSET Pulls] /\ \A p \in Prefixes : pulls1[p] \subseteq pulls[p]
  BY DEF PullTypes
<1>6. \A p \in Prefixes : \A n \in HadOf(p) : n \in Namespaces /\ Covering!Covers(p, n)
  BY DEF HadOf, Placed, PullTypes
<1>7. /\ \A p \in A : \A n : n \in retained1[p] <=> Covering!Covers(p, n) /\ \E q \in R : n \in HadOf(q)
      /\ \A p \in R : \A n : n \in retained1[p] => n \in HadOf(p)
      /\ \A p \in Prefixes : p \notin A /\ p \notin R => retained1[p] = retained[p]
  <2>1. \A p \in A : retained1[p] = {n \in UNION {HadOf(q) : q \in R} : Covering!Covers(p, n)}
    BY <1>1, <1>a DEF Transfer
  <2>2. \A p \in R : retained1[p] = {n \in HadOf(p) : ~\E q \in A : Covering!Covers(q, n)}
    BY <1>1, <1>a DEF Transfer
  <2>3. \A p \in Prefixes : p \notin A /\ p \notin R => retained1[p] = retained[p]
    BY <1>a DEF Transfer
  <2> QED
    BY <2>1, <2>2, <2>3
<1>8. \A p \in Prefixes : \A n \in retained1[p] : n \in Namespaces /\ Covering!Covers(p, n)
  <2>1. \A p \in Prefixes : \A n \in retained[p] : n \in Namespaces /\ Covering!Covers(p, n)
    BY DEF Placed
  <2> QED
    BY <1>1, <1>6, <1>7, <2>1
<1>9. retained1 \in [Prefixes -> SUBSET Namespaces]
  BY <1>8, <1>a
<1>10. \A p \in A : root[p] = "none" /\ pulls[p] = {} /\ retained[p] = {}
  BY <1>0, <1>1 DEF Served
<1>11. Served(ro, root1, retained1, pulls1, t)
  <2>1. root1 \in [Prefixes -> {"none", "live", "retiring"}]
    BY DEF Served
  <2>2. \A p \in Prefixes : /\ root1[p] = "live" <=> p \in ro
                            /\ root1[p] = "retiring" <=> p \in R
    BY <1>0, <1>1 DEF Served
  <2>3. ASSUME NEW p \in Prefixes, root1[p] = "none"
        PROVE  retained1[p] = {} /\ pulls1[p] = {}
    <3>1. p \notin A /\ p \notin R /\ root[p] = "none"
      BY <2>3
    <3> QED
      BY <1>7, <3>1 DEF Served
  <2>4. \A p \in R : pulls1[p] \subseteq sent
    BY <1>1
  <2> QED
    BY <1>1, <2>1, <2>2, <2>3, <2>4 DEF Served
<1>12. Homes(ro, pulls1, t)
  <2>1. ASSUME NEW k \in Pulls, Active(k)
        PROVE  k \in t.old \/ (pullRoot[k] \in ro /\ k \in pulls1[pullRoot[k]])
    <3>1. pullRoot[k] \in roots /\ k \in pulls[pullRoot[k]] /\ phase[k] # "gone"
      BY <1>0, <2>1 DEF Homes, Active
    <3>2. CASE pullRoot[k] \in R
      BY <3>1, <3>2
    <3>3. CASE pullRoot[k] \notin R
      BY <1>1, <3>1, <3>3 DEF Served
    <3> QED
      BY <3>2, <3>3
  <2>2. \A r \in Relays : \A p \in t.targets[r] : p \in ro /\ pulls1[p] = {}
    BY <1>1, <1>10
  <2> QED
    BY <2>1, <2>2 DEF Homes
<1>13. Advance(t, pulls1, phase, root1, retained1) /\ sources' = [k \in Pulls |-> IF k \in old THEN {} ELSE sources[k]]
  BY <1>2, <1>a
<1> DEFINE after ==
         /\ PullTypes' /\ NoneOverlap'
         /\ Served(ro, root', retained', pulls', transition')
         /\ \A k \in Pulls : Active(k)' => k \in transition'.old
              \/ (pullRoot'[k] \in ro /\ k \in pulls'[pullRoot'[k]])
         /\ \A r \in Relays : \A p \in transition'.targets[r] :
              p \in ro /\ (r \notin transition'.started => \A k \in pulls'[p] : pullRelay'[k] # r)
         /\ \A k \in Pulls : Born(k) => /\ phase'[k] = phase[k] /\ pullRoot'[k] = pullRoot[k]
                                        /\ pullRelay'[k] = pullRelay[k]
         /\ retained' \in [Prefixes -> SUBSET Namespaces]
         /\ \A p \in Prefixes : /\ retained'[p] \subseteq retained1[p]
                                /\ p \notin R => retained'[p] = retained1[p]
<1>14. after
  <2>1. t.removed = R
    OBVIOUS
  <2> HIDE DEF t, pulls1, root1
  <2> QED
    BY <1>4, <1>5, <1>9, <1>11, <1>12, <1>13, <2>1, AdvanceStep
<1>b. \A p \in Prefixes : /\ retained'[p] \subseteq retained1[p]
                          /\ p \notin R => retained'[p] = retained1[p]
  BY <1>14
<1> HIDE DEF after
<1>15. Placed'
  <2>1. sources' \in [Pulls -> SUBSET Namespaces]
    BY <1>13 DEF Placed
  <2>2. \A k \in Pulls : \A n \in sources'[k] : phase'[k] # "none" /\ Covering!Covers(pullRoot'[k], n)
    BY <1>13, <1>14 DEF Placed, Born, after
  <2>3. \A p \in Prefixes : \A n \in retained'[p] : Covering!Covers(p, n)
    BY <1>8, <1>b
  <2> QED
    BY <1>14, <2>1, <2>2, <2>3 DEF Placed, Born, after
<1>16. ASSUME NEW n \in Registered, NEW p \in ro, Covering!Covers(p, n)
       PROVE  n \in Registered'
  <2>0. /\ \A k \in Pulls : sources'[k] \subseteq Registered'
        /\ \A q \in Prefixes : retained'[q] \subseteq Registered'
    BY DEF Registered
  <2>1. ASSUME NEW q \in R, n \in HadOf(q) PROVE n \in Registered'
    <3>1. n \in Namespaces /\ Covering!Covers(q, n) /\ q \in Prefixes /\ q \in roots
      BY <1>1, <1>6, <2>1
    <3>2. CASE p \in A
      <4>1. n \in retained1[p] /\ p \in Prefixes /\ p \notin R
        BY <1>1, <1>7, <1>16, <2>1, <3>2
      <4> QED
        BY <1>b, <2>0, <4>1
    <3>3. CASE p \notin A
      <4>1. p \in roots /\ p # q /\ p \in Prefixes
        BY <1>1, <3>3
      <4>2. p \in Seq(Fields) /\ q \in Seq(Fields) /\ n \in Seq(Fields)
        BY <3>1, <4>1 DEF UpstreamNamespacesAssumption
      <4>3. Covering!Covers(p, q) \/ Covering!Covers(q, p)
        BY <1>16, <3>1, <4>2, Covering!CoversComparable
      <4> QED
        BY <3>1, <4>1, <4>3 DEF Covering!Covers, Antichain
    <3> QED
      BY <3>2, <3>3
  <2>2. ASSUME NEW k \in Pulls, n \in sources[k] PROVE n \in Registered'
    <3>1. CASE k \in old
      <4>1. PICK q \in R : k \in pulls[q]
        BY <3>1
      <4>2. n \in HadOf(q)
        BY <2>2, <4>1 DEF HadOf
      <4> QED
        BY <2>1, <4>2
    <3>2. CASE k \notin old
      BY <1>13, <2>0, <2>2, <3>2
    <3> QED
      BY <3>1, <3>2
  <2>3. ASSUME NEW q \in Prefixes, n \in retained[q] PROVE n \in Registered'
    <3>1. CASE q \in R
      BY <2>1, <2>3, <3>1 DEF HadOf
    <3>2. CASE q \notin R
      <4>1. q \notin A
        BY <1>10, <2>3
      <4>2. retained1[q] = retained[q]
        BY <1>7, <3>2, <4>1
      <4> QED
        BY <1>b, <2>0, <2>3, <3>2, <4>2
    <3> QED
      BY <3>1, <3>2
  <2> QED
    BY <2>2, <2>3 DEF Registered
<1> QED
  BY <1>14, <1>15, <1>16 DEF after

-----------------------------------------------------------------------------
(* The invariant                                                             *)

\* What a pull has sent to the runner is of a pull that was started.
Fits(c, ph, pr) ==
  /\ c.kind \in {"event", "ended"} => ph[c.pull] # "none"
  /\ c.kind = "event" => Covering!Covers(pr[c.pull], c.ns)
  /\ c.kind = "ended" => ph[c.pull] = "gone"

Sent == \A i \in DOMAIN commands : Fits(commands[i], phase, pullRoot)

Rooted ==
  /\ PullTypes /\ NoneOverlap /\ Placed
  /\ Served(roots, root, retained, pulls, transition) /\ Homes(roots, pulls, transition)

Broad == Covering!TypeOK /\ Covering!RootsAreBroadest

LEMMA BroadFacts ==
  ASSUME UpstreamNamespacesAssumption, Broad
  PROVE  roots = Covering!Broadest(Interests) /\ roots \subseteq Interests /\ Antichain(roots)
<1>1. roots = Covering!Broadest(Interests) /\ roots \subseteq Interests
  BY DEF Broad, Covering!TypeOK, Covering!RootsAreBroadest, Covering!Broadest
<1>2. Interests \in SUBSET Prefixes
  BY DEF Interests
<1> QED
  BY <1>1, <1>2, BroadestApart

LEMMA FitsStep ==
  ASSUME UpstreamNamespacesAssumption, PullTypes, NEW c \in Commands, Fits(c, phase, pullRoot),
         \A k \in Pulls : Born(k) => /\ phase'[k] # "none" /\ pullRoot'[k] = pullRoot[k]
                                     /\ phase[k] = "gone" => phase'[k] = "gone"
  PROVE  Fits(c, phase', pullRoot')
<1>1. c.kind \in {"event", "ended"} => c.pull \in Pulls
  BY DEF Commands, Interest
<1> QED
  BY <1>1 DEF Fits, Born

\* The queue loses its head or gains a command.
LEMMA SentStep ==
  ASSUME UpstreamNamespacesAssumption, Queued, PullTypes, Sent,
         \A k \in Pulls : Born(k) => /\ phase'[k] # "none" /\ pullRoot'[k] = pullRoot[k]
                                     /\ phase[k] = "gone" => phase'[k] = "gone",
         \/ commands' = commands
         \/ commands # <<>> /\ commands' = Tail(commands)
         \/ \E c \in Commands : Fits(c, phase', pullRoot') /\ commands' = Append(commands, c)
  PROVE  Sent'
<1>1. commands \in Seq(Commands)
  BY DEF Queued
<1> HIDE DEF Commands
<1>2. \A i \in DOMAIN commands : commands[i] \in Commands /\ Fits(commands[i], phase, pullRoot)
  BY <1>1 DEF Sent
<1>3. ASSUME NEW c, \E i \in DOMAIN commands : c = commands[i] PROVE Fits(c, phase', pullRoot')
  <2>1. c \in Commands /\ Fits(c, phase, pullRoot)
    BY <1>2, <1>3
  <2> QED
    BY <2>1, FitsStep
<1>4. ASSUME NEW i \in DOMAIN commands' PROVE Fits(commands'[i], phase', pullRoot')
  <2>1. CASE commands' = commands
    BY <1>3, <1>4, <2>1
  <2>2. CASE commands # <<>> /\ commands' = Tail(commands)
    <3>1. i + 1 \in DOMAIN commands /\ commands'[i] = commands[i + 1]
      BY <1>1, <1>4, <2>2
    <3> QED
      BY <1>3, <3>1
  <2>3. CASE \E c \in Commands : Fits(c, phase', pullRoot') /\ commands' = Append(commands, c)
    BY <1>1, <1>3, <1>4, <2>3
  <2> QED
    BY <2>1, <2>2, <2>3
<1> QED
  BY <1>4 DEF Sent

\* Steps that leave the roots and the pulls alone.
LEMMA StillRooted ==
  ASSUME Rooted,
         UNCHANGED <<roots, root, pulls, sources, retained, transition, started, pullRoot, pullRelay, phase>>
  PROVE  Rooted'
BY DEF Rooted, PullTypes, NoneOverlap, Placed, Served, Homes, Born, Active

\* A pull that runs moves on.
LEMMA PullRooted ==
  ASSUME Rooted, NEW k \in Pulls, Active(k), NEW to \in Phases \ {"none"},
         phase' = [phase EXCEPT ![k] = to],
         UNCHANGED <<roots, root, pulls, sources, retained, transition, started, pullRoot, pullRelay>>
  PROVE  Rooted' /\ \A l \in Pulls : Born(l) => /\ phase'[l] # "none" /\ pullRoot'[l] = pullRoot[l]
                                                /\ phase[l] = "gone" => phase'[l] = "gone"
<1>1. phase' \in [Pulls -> Phases] /\ \A l \in Pulls : phase'[l] = IF l = k THEN to ELSE phase[l]
  BY DEF Rooted, PullTypes
<1>2. \A l \in Pulls : (Active(l)' => Active(l)) /\ (Born(l)' <=> Born(l))
  BY <1>1 DEF Active, Born
<1>3. PullTypes'
  BY <1>1, <1>2 DEF Rooted, PullTypes, Born
<1>4. NoneOverlap'
  BY <1>2 DEF Rooted, NoneOverlap
<1>5. Placed'
  BY <1>2 DEF Rooted, Placed
<1>6. Served(roots, root, retained, pulls, transition)'
  BY DEF Rooted, Served
<1>7. Homes(roots, pulls, transition)'
  BY <1>2 DEF Rooted, Homes
<1> QED
  BY <1>1, <1>3, <1>4, <1>5, <1>6, <1>7 DEF Rooted, Born, Active

\* handle_pull_event
LEMMA EventRooted ==
  ASSUME UpstreamNamespacesAssumption, Queued, Sent, Rooted, PullEvent
  PROVE  Rooted'
<1> DEFINE k == Command.pull
           n == Command.ns
           p == pullRoot[k]
<1>1. Command = commands[1] /\ 1 \in DOMAIN commands /\ Command \in Commands
  <2>1. commands \in Seq(Commands) /\ commands # <<>> /\ Command = Head(commands)
    BY DEF PullEvent, Queued, Command
  <2> HIDE DEF Commands
  <2> QED
    BY <2>1
<1>2. k \in Pulls /\ n \in Namespaces
  BY <1>1 DEF PullEvent, Commands, Interest
<1>3. Born(k) /\ Covering!Covers(p, n) /\ p \in Prefixes
  BY <1>1, <1>2 DEF PullEvent, Sent, Fits, Born, Rooted, PullTypes
<1>4. UNCHANGED <<roots, root, pulls, transition, started, pullRoot, pullRelay, phase>>
  BY DEF PullEvent, tasks
<1>5. /\ sources' \in [Pulls -> SUBSET Namespaces] /\ retained' \in [Prefixes -> SUBSET Namespaces]
      /\ \A l \in Pulls : sources'[l] \subseteq sources[l] \cup (IF l = k THEN {n} ELSE {})
      /\ \A q \in Prefixes : retained'[q] \subseteq retained[q]
  <2>1. sources \in [Pulls -> SUBSET Namespaces] /\ retained \in [Prefixes -> SUBSET Namespaces]
    BY DEF Rooted, Placed
  <2>2. \/ sources' = [sources EXCEPT ![k] = @ \cup {n}]
           /\ retained' = [retained EXCEPT ![p] = IF n \in sources[k] THEN @ ELSE @ \ {n}]
        \/ sources' = [sources EXCEPT ![k] = @ \ {n}] /\ retained' = retained
        \/ sources' = sources /\ retained' = retained
    BY DEF PullEvent
  <2> HIDE DEF k, n, p
  <2> QED
    BY <1>2, <1>3, <2>1, <2>2
<1>6. Placed'
  BY <1>3, <1>4, <1>5 DEF Rooted, Placed, Born
<1>7. PullTypes' /\ NoneOverlap' /\ Homes(roots, pulls, transition)'
  BY <1>4 DEF Rooted, PullTypes, NoneOverlap, Homes, Born, Active
<1>8. Served(roots, root, retained, pulls, transition)'
  BY <1>4, <1>5 DEF Rooted, Served
<1> QED
  BY <1>6, <1>7, <1>8 DEF Rooted

\* handle_pull_ended
LEMMA EndedRooted ==
  ASSUME UpstreamNamespacesAssumption, Queued, Sent, Rooted, Antichain(roots), PullEnded
  PROVE  Rooted' /\ \A l \in Pulls : Born(l) => phase'[l] = phase[l] /\ pullRoot'[l] = pullRoot[l]
<1> DEFINE k == Command.pull
           p == pullRoot[k]
<1>1. Command = commands[1] /\ 1 \in DOMAIN commands /\ Command \in Commands
  <2>1. commands \in Seq(Commands) /\ commands # <<>> /\ Command = Head(commands)
    BY DEF PullEnded, Queued, Command
  <2> HIDE DEF Commands
  <2> QED
    BY <2>1
<1>2. k \in Pulls
  BY <1>1 DEF PullEnded, Commands, Interest
<1>3. Born(k) /\ phase[k] = "gone" /\ p \in Prefixes
  BY <1>1, <1>2 DEF PullEnded, Sent, Fits, Born, Rooted, PullTypes
<1>4. CASE root[p] = "none"
  <2>1. Ignored
    BY <1>4 DEF PullEnded
  <2> QED
    BY <2>1, StillRooted DEF Ignored, tasks
<1>5. CASE root[p] # "none"
  <2> DEFINE pulls1 == [pulls EXCEPT ![p] = @ \ {k}]
             t == [transition EXCEPT !.old = @ \ {k}]
  <2>1. /\ sources' = [sources EXCEPT ![k] = {}] /\ roots' = roots
        /\ \/ InTransition /\ Advance(t, pulls1, phase, root, retained)
           \/ /\ ~InTransition /\ pulls' = pulls1
              /\ UNCHANGED <<root, retained, transition, started, pullRoot, pullRelay, phase>>
    BY <1>5 DEF PullEnded
  <2>2. pulls1 \in [Prefixes -> SUBSET Pulls] /\ \A q \in Prefixes : pulls1[q] = pulls[q] \ {k}
    <3>1. \A q \in Prefixes : q # p => k \notin pulls[q]
      BY DEF Rooted, PullTypes
    <3>2. \A q \in Prefixes : pulls1[q] = IF q = p THEN pulls[q] \ {k} ELSE pulls[q]
      BY DEF Rooted, PullTypes
    <3>3. \A q \in Prefixes : pulls1[q] = pulls[q] \ {k}
      <4> HIDE DEF k, p, pulls1
      <4> QED
        BY <3>1, <3>2
    <3>4. pulls1 \in [Prefixes -> SUBSET Pulls]
      BY DEF Rooted, PullTypes
    <3> QED
      BY <3>3, <3>4
  <2>3. /\ t \in Transitions /\ t.old = transition.old \ {k} /\ t.removed = transition.removed
        /\ t.targets = transition.targets /\ t.started = transition.started
    BY DEF Rooted, PullTypes, Transitions
  <2> HIDE DEF pulls1, t
  <2>4. Served(roots, root, retained, pulls1, t)
    BY <2>2, <2>3 DEF Rooted, Served, Transitions
  <2>5. Homes(roots, pulls1, t)
    <3>1. \A l \in Pulls : Active(l) => l # k
      BY <1>3 DEF Active
    <3>2. \A l \in Pulls : Active(l) => pullRoot[l] \in Prefixes
      BY DEF Rooted, PullTypes, Active, Born
    <3>3. \A r \in Relays : transition.targets[r] \subseteq Prefixes
      BY DEF Rooted, PullTypes
    <3> QED
      BY <2>2, <2>3, <3>1, <3>2, <3>3 DEF Rooted, Homes
  <2>6. sources' \in [Pulls -> SUBSET Namespaces] /\ \A l \in Pulls : sources'[l] \subseteq sources[l]
    BY <1>2, <2>1 DEF Rooted, Placed
  <2>7. CASE Advance(t, pulls1, phase, root, retained)
    <3>1. PullTypes /\ NoneOverlap /\ retained \in [Prefixes -> SUBSET Namespaces]
      BY DEF Rooted, Placed
    <3>2. \A q \in Prefixes : pulls1[q] \subseteq pulls[q]
      BY <2>2
    <3>3. /\ PullTypes' /\ NoneOverlap'
          /\ Served(roots, root', retained', pulls', transition')
          /\ \A l \in Pulls : Active(l)' => l \in transition'.old
               \/ (pullRoot'[l] \in roots /\ l \in pulls'[pullRoot'[l]])
          /\ \A r \in Relays : \A q \in transition'.targets[r] :
               q \in roots /\ (r \notin transition'.started => \A l \in pulls'[q] : pullRelay'[l] # r)
      BY <2>2, <2>3, <2>4, <2>5, <2>7, <3>1, <3>2, AdvanceStep
    <3>4. /\ \A l \in Pulls : Born(l) => phase'[l] = phase[l] /\ pullRoot'[l] = pullRoot[l]
          /\ retained' \in [Prefixes -> SUBSET Namespaces]
          /\ \A q \in Prefixes : retained'[q] \subseteq retained[q]
      BY <2>2, <2>3, <2>4, <2>5, <2>7, <3>1, <3>2, AdvanceStep
    <3>5. Placed'
      BY <2>6, <3>4 DEF Rooted, Placed, Born
    <3>6. Served(roots, root, retained, pulls, transition)' /\ Homes(roots, pulls, transition)'
      BY <2>1, <3>3 DEF Served, Homes
    <3> QED
      BY <3>3, <3>4, <3>5, <3>6 DEF Rooted
  <2>8. CASE /\ ~InTransition /\ pulls' = pulls1
             /\ UNCHANGED <<root, retained, transition, started, pullRoot, pullRelay, phase>>
    <3>1. t = transition
      <4>1. transition.old = {} /\ transition \in Transitions
        BY <2>8 DEF InTransition, NoTransition, Rooted, PullTypes, Transitions
      <4> QED
        BY <4>1 DEF t, Transitions
    <3>2. Served(roots, root, retained, pulls, transition)' /\ Homes(roots, pulls, transition)'
      BY <2>1, <2>4, <2>5, <2>8, <3>1 DEF Served, Homes, Active
    <3>3. PullTypes' /\ NoneOverlap' /\ Placed'
      BY <2>2, <2>6, <2>8 DEF Rooted, PullTypes, NoneOverlap, Placed, Active, Born
    <3> QED
      BY <2>8, <3>2, <3>3 DEF Rooted
  <2> QED
    BY <2>1, <2>7, <2>8
<1> QED
  BY <1>4, <1>5

\* apply_delta, as add_interest and remove_interest call it.
LEMMA ApplyRooted ==
  ASSUME UpstreamNamespacesAssumption, Rooted, Antichain(roots), Antichain(roots'), ~InTransition,
         NEW delta, delta.added \subseteq Prefixes \ roots, delta.removed \subseteq roots, Apply(delta)
  PROVE  /\ Rooted'
         /\ \A k \in Pulls : Born(k) => phase'[k] = phase[k] /\ pullRoot'[k] = pullRoot[k]
         /\ \A n \in Registered : (\E p \in roots' : Covering!Covers(p, n)) => n \in Registered'
<1>1. CASE delta = Covering!NoDelta
  <2>1. roots' = roots /\ UNCHANGED <<root, pulls, sources, retained, transition, tasks>>
    BY <1>1 DEF Apply, NewRoots, Covering!NoDelta
  <2> QED
    BY <2>1, StillRooted DEF tasks, Registered
<1>2. CASE delta # Covering!NoDelta
  <2>1. roots' = NewRoots(delta) /\ ApplyDelta(delta)
    BY <1>2 DEF Apply
  <2>2. PullTypes /\ NoneOverlap /\ Placed /\ Served(roots, root, retained, pulls, transition)
        /\ Homes(roots, pulls, transition)
    BY DEF Rooted
  <2>3. /\ PullTypes' /\ NoneOverlap' /\ Placed'
        /\ Served(roots', root', retained', pulls', transition')
        /\ \A k \in Pulls : Active(k)' => k \in transition'.old
             \/ (pullRoot'[k] \in roots' /\ k \in pulls'[pullRoot'[k]])
        /\ \A r \in Relays : \A p \in transition'.targets[r] :
             p \in roots' /\ (r \notin transition'.started => \A k \in pulls'[p] : pullRelay'[k] # r)
    BY <2>1, <2>2, ApplyStep
  <2>4. /\ \A k \in Pulls : Born(k) => phase'[k] = phase[k] /\ pullRoot'[k] = pullRoot[k]
        /\ \A n \in Registered : (\E p \in roots' : Covering!Covers(p, n)) => n \in Registered'
    BY <2>1, <2>2, ApplyStep
  <2>5. Served(roots, root, retained, pulls, transition)' /\ Homes(roots, pulls, transition)'
    BY <2>3 DEF Served, Homes
  <2> QED
    BY <2>3, <2>4, <2>5 DEF Rooted
<1> QED
  BY <1>1, <1>2

LEMMA AddRooted ==
  ASSUME UpstreamNamespacesAssumption, Queued, Rooted, Broad, Broad', AddInterest \/ RemoveInterest
  PROVE  /\ Rooted'
         /\ \A k \in Pulls : Born(k) => phase'[k] = phase[k] /\ pullRoot'[k] = pullRoot[k]
         /\ roots' # roots =>
              \A n \in Registered : (\E p \in roots' : Covering!Covers(p, n)) => n \in Registered'
<1>1. roots = Covering!Broadest(Interests) /\ roots \subseteq Interests /\ Antichain(roots)
  BY BroadFacts
<1>2. Antichain(roots')
  <2>1. roots' = Covering!Broadest(Interests') /\ Interests' \in SUBSET Prefixes
    BY DEF Broad, Covering!TypeOK, Covering!RootsAreBroadest, Covering!Broadest, Interests
  <2> QED
    BY <2>1, BroadestApart
<1>3. Interests \subseteq Prefixes /\ Prefixes \subseteq Seq(Fields) /\ ~InTransition
  BY DEF Interests, UpstreamNamespacesAssumption, AddInterest, RemoveInterest
<1>4. CASE Ignored
  BY <1>4, StillRooted DEF Ignored, tasks
<1>5. ASSUME NEW p \in Prefixes \ Interests, Apply(Covering!AddDelta(Interests, roots, p))
      PROVE  /\ Rooted'
             /\ \A k \in Pulls : Born(k) => phase'[k] = phase[k] /\ pullRoot'[k] = pullRoot[k]
             /\ \A n \in Registered : (\E q \in roots' : Covering!Covers(q, n)) => n \in Registered'
  <2> DEFINE delta == Covering!AddDelta(Interests, roots, p)
  <2>1. delta.added \subseteq Prefixes \ roots /\ delta.removed \subseteq roots
    BY <1>1 DEF Covering!AddDelta, Covering!NoDelta
  <2> HIDE DEF delta
  <2> QED
    BY <1>1, <1>2, <1>3, <1>5, <2>1, ApplyRooted DEF delta
<1>6. ASSUME NEW p \in Interests, Apply(Covering!RemoveDelta(Interests, roots, p))
      PROVE  /\ Rooted'
             /\ \A k \in Pulls : Born(k) => phase'[k] = phase[k] /\ pullRoot'[k] = pullRoot[k]
             /\ \A n \in Registered : (\E q \in roots' : Covering!Covers(q, n)) => n \in Registered'
  <2> DEFINE delta == Covering!RemoveDelta(Interests, roots, p)
  <2>1. ASSUME NEW q \in Interests, q # p, Covering!Covers(p, q) PROVE q \notin roots
    <3>1. Covering!StrictlyCovers(p, q)
      BY <1>3, <2>1, Covering!StrictlyCoversIff
    <3> QED
      BY <1>1, <3>1 DEF Covering!Broadest
  <2>2. delta.added \subseteq Prefixes \ roots /\ delta.removed \subseteq roots
    BY <1>3, <2>1 DEF Covering!RemoveDelta, Covering!NoDelta
  <2> HIDE DEF delta
  <2> QED
    BY <1>1, <1>2, <1>3, <1>6, <2>2, ApplyRooted DEF delta
<1>7. \/ Ignored
      \/ \E p \in Prefixes \ Interests : Apply(Covering!AddDelta(Interests, roots, p))
      \/ \E p \in Interests : Apply(Covering!RemoveDelta(Interests, roots, p))
  BY AddStep, RemoveStep
<1>8. Ignored => roots' = roots
  BY DEF Ignored
<1> QED
  BY <1>4, <1>5, <1>6, <1>7, <1>8

LEMMA RootedStep ==
  ASSUME UpstreamNamespacesAssumption, Queued, Rooted, Sent, Broad, Broad', [Next]_vars
  PROVE  /\ Rooted' /\ Sent'
         /\ roots' # roots =>
              \A n \in Registered : (\E p \in roots' : Covering!Covers(p, n)) => n \in Registered'
<1> DEFINE kept == \A k \in Pulls : Born(k) => /\ phase'[k] # "none" /\ pullRoot'[k] = pullRoot[k]
                                               /\ phase[k] = "gone" => phase'[k] = "gone"
<1>0. PullTypes /\ commands \in Seq(Commands)
  BY DEF Rooted, Queued
<1>1. ASSUME AddInterest \/ RemoveInterest
      PROVE  /\ Rooted' /\ Sent'
             /\ roots' # roots =>
                  \A n \in Registered : (\E p \in roots' : Covering!Covers(p, n)) => n \in Registered'
  <2>1. kept
    BY <1>1, AddRooted DEF Born
  <2>2. commands' = commands \/ (commands # <<>> /\ commands' = Tail(commands))
    BY <1>1 DEF AddInterest, RemoveInterest, Take, HasCommand
  <2> QED
    BY <1>0, <1>1, <2>1, <2>2, SentStep, AddRooted
<1>2. ASSUME PullEvent \/ Defer PROVE Rooted' /\ Sent'
  <2>1. Rooted' /\ kept
    <3>1. CASE PullEvent
      BY <3>1, EventRooted DEF PullEvent, tasks, Born
    <3>2. CASE Defer
      BY <3>2, StillRooted DEF Defer, tasks, Born
    <3> QED
      BY <1>2, <3>1, <3>2
  <2>2. commands # <<>> /\ commands' = Tail(commands)
    BY <1>2 DEF PullEvent, Defer
  <2> QED
    BY <1>0, <2>1, <2>2, SentStep
<1>3. ASSUME PullEnded PROVE Rooted' /\ Sent'
  <2>1. Rooted' /\ kept
    BY <1>3, BroadFacts, EndedRooted DEF Born
  <2>2. commands # <<>> /\ commands' = Tail(commands)
    BY <1>3 DEF PullEnded
  <2> QED
    BY <1>0, <2>1, <2>2, SentStep
<1>4. ASSUME NEW k \in Pulls, Accepted(k) \/ Retry(k) \/ Rejected(k) PROVE Rooted' /\ Sent'
  <2>1. PICK to \in Phases \ {"none"} : OnlyPhase(k, to)
    BY <1>4 DEF Accepted, Retry, Rejected, Phases
  <2>2. Active(k) /\ commands' = commands
        /\ UNCHANGED <<roots, root, pulls, sources, retained, transition>>
    BY <1>4 DEF Accepted, Retry, Rejected, Active, runner
  <2>3. Rooted' /\ kept
    BY <2>1, <2>2, PullRooted DEF OnlyPhase
  <2> QED
    BY <1>0, <2>2, <2>3, SentStep
<1>5. ASSUME NEW k \in Pulls, Cancelled(k) \/ Drained(k) \/ StreamEnds(k) PROVE Rooted' /\ Sent'
  <2> DEFINE c == [kind |-> "ended", pull |-> k]
  <2>1. \/ OnlyPhase(k, "draining") /\ commands' = commands
        \/ OnlyPhase(k, "gone") /\ commands' = Append(commands, c)
    BY <1>5 DEF Cancelled, Drained, StreamEnds, Send
  <2>2. Active(k) /\ UNCHANGED <<roots, root, pulls, sources, retained, transition>>
    BY <1>5 DEF Cancelled, Drained, StreamEnds, Hears, Active, runner
  <2>3. Rooted' /\ kept
    <3>1. {"draining", "gone"} \subseteq Phases \ {"none"}
      BY DEF Phases
    <3> QED
      BY <2>1, <2>2, <3>1, PullRooted DEF OnlyPhase
  <2>4. commands' = commands \/ (c \in Commands /\ Fits(c, phase', pullRoot') /\ commands' = Append(commands, c))
    <3>1. c \in Commands /\ c.pull = k /\ c.kind = "ended"
      BY DEF Commands
    <3>2. OnlyPhase(k, "gone") => phase'[k] = "gone"
      BY <1>0 DEF OnlyPhase, PullTypes
    <3> QED
      BY <2>1, <3>1, <3>2 DEF Fits
  <2> HIDE DEF c
  <2> QED
    BY <1>0, <2>3, <2>4, SentStep
<1>6. ASSUME NEW k \in Pulls, NEW n \in Namespaces, Event(k, n) PROVE Rooted' /\ Sent'
  <2> DEFINE c == [kind |-> "event", pull |-> k, ns |-> n, added |-> n \notin told[k]]
  <2>1. /\ UNCHANGED <<roots, root, pulls, sources, retained, transition, started, pullRoot, pullRelay, phase>>
        /\ commands' = Append(commands, c) /\ Covering!Covers(pullRoot[k], n) /\ phase[k] = "open"
    BY <1>6 DEF Event, runner, Send
  <2>2. Rooted' /\ kept
    BY <2>1, StillRooted DEF Born
  <2>3. c \in Commands /\ Fits(c, phase', pullRoot')
    BY <2>1 DEF Commands, Fits
  <2> HIDE DEF c
  <2> QED
    BY <1>0, <2>1, <2>2, <2>3, SentStep
<1>7. ASSUME NEW p \in Prefixes, NewLease(p) PROVE Rooted' /\ Sent'
  <2> DEFINE c == [kind |-> "subscribe", prefix |-> p, gen |-> Created + 1]
  <2>1. /\ UNCHANGED <<roots, root, pulls, sources, retained, transition, started, pullRoot, pullRelay, phase>>
        /\ commands' = Append(commands, c)
    BY <1>7 DEF NewLease, runner, tasks
  <2>2. Rooted' /\ kept
    BY <2>1, StillRooted DEF Born
  <2>3. c \in Commands /\ Fits(c, phase', pullRoot')
    BY <1>7, CreatedNat DEF NewLease, Gens, Commands, Interest, Fits, UpstreamNamespacesAssumption
  <2> HIDE DEF c
  <2> QED
    BY <1>0, <2>1, <2>2, <2>3, SentStep
<1>8. ASSUME NEW g \in Gens, DropInterest(g) PROVE Rooted' /\ Sent'
  <2> DEFINE c == [kind |-> "unsubscribe", prefix |-> prefixOf[g], gen |-> g]
  <2>1. /\ UNCHANGED <<roots, root, pulls, sources, retained, transition, started, pullRoot, pullRelay, phase>>
        /\ commands' = commands \/ commands' = Append(commands, c)
    BY <1>8 DEF DropInterest, runner, tasks
  <2>2. Rooted' /\ kept
    BY <2>1, StillRooted DEF Born
  <2>3. c \in Commands /\ Fits(c, phase', pullRoot')
    BY <1>8 DEF DropInterest, Queued, Commands, Interest, Fits
  <2> HIDE DEF c
  <2> QED
    BY <1>0, <2>1, <2>2, <2>3, SentStep
<1>9. ASSUME \/ \E p \in Prefixes : ShareLease(p)
             \/ \E g \in Gens : Release(g)
             \/ \E r \in Relays, n \in Namespaces : UpstreamChanges(r, n)
             \/ UNCHANGED vars
      PROVE  Rooted' /\ Sent'
  <2>1. /\ UNCHANGED <<roots, root, pulls, sources, retained, transition, started, pullRoot, pullRelay, phase>>
        /\ commands' = commands
    BY <1>9 DEF ShareLease, Release, UpstreamChanges, vars, runner, tasks
  <2>2. Rooted' /\ kept
    BY <2>1, StillRooted DEF Born
  <2> QED
    BY <1>0, <2>1, <2>2, SentStep
<1>10. CASE AddInterest \/ RemoveInterest
  BY <1>1, <1>10
<1>11. CASE ~AddInterest /\ ~RemoveInterest
  <2>1. roots' = roots
    BY <1>11, OtherStep
  <2>2. Rooted' /\ Sent'
    BY <1>2, <1>3, <1>4, <1>5, <1>6, <1>7, <1>8, <1>9, <1>11 DEF Next, Runner, Pull
  <2> QED
    BY <2>1, <2>2
<1> QED
  BY <1>10, <1>11

-----------------------------------------------------------------------------
(* What follows for every behaviour                                          *)

LEMMA InvInit ==
  ASSUME UpstreamNamespacesAssumption, Init
  PROVE  Queued /\ Rooted /\ Sent
<1>1. commands \in Seq(Commands) /\ deferred \in Seq(Interest)
  BY DEF Init
<1>2. Queued
  BY <1>1 DEF Init, Queued
<1>3. PullTypes
  BY DEF Init, PullTypes, Phases, Transitions, NoTransition, Born
<1>4. NoneOverlap /\ Placed
  BY DEF Init, NoneOverlap, Placed, Active
<1>5. Served(roots, root, retained, pulls, transition)
  BY DEF Init, Served, NoTransition
<1>6. Homes(roots, pulls, transition)
  BY DEF Init, Homes, NoTransition, Active
<1>7. Sent
  BY DEF Init, Sent
<1> QED
  BY <1>2, <1>3, <1>4, <1>5, <1>6, <1>7 DEF Rooted

\* The roots are the broadest prefixes all along.
LEMMA StaysBroad ==
  ASSUME UpstreamNamespacesAssumption
  PROVE  Spec => []Broad
<1>1. Covering!PrefixesAssumption
  BY DEF UpstreamNamespacesAssumption, Covering!PrefixesAssumption
<1>2. Covering!Spec => [](Covering!TypeOK /\ Covering!RootsAreBroadest)
  BY <1>1, Covering!RootsAreRight
<1>3. Spec => Covering!Spec
  BY Refines
<1>4. Covering!TypeOK /\ Covering!RootsAreBroadest => Broad
  BY DEF Broad
<1> QED
  BY <1>2, <1>3, <1>4, PTL

LEMMA InvHolds ==
  ASSUME UpstreamNamespacesAssumption
  PROVE  Spec => [](Queued /\ Rooted /\ Sent /\ Broad)
<1>1. Init => Queued /\ Rooted /\ Sent
  BY InvInit
<1>2. Queued /\ Rooted /\ Sent /\ Broad /\ Broad' /\ [Next]_vars => Queued' /\ Rooted' /\ Sent'
  BY QueuedStep, RootedStep
<1> QED
  BY <1>1, <1>2, StaysBroad, PTL DEF Spec

(* However leases come and go while pulls end, are rejected or are being     *)
(* drained, a change of roots withdraws no namespace that one of the new     *)
(* roots covers (apply_delta, transfer_registration).                        *)
THEOREM Keeps == UpstreamNamespacesAssumption /\ Spec => TransitionKeepsKnown
<1> SUFFICES ASSUME UpstreamNamespacesAssumption PROVE Spec => TransitionKeepsKnown
  OBVIOUS
<1>1. Queued /\ Rooted /\ Sent /\ Broad /\ Broad' /\ [Next]_vars =>
        [ (roots' # roots) =>
            \A n \in Registered : (\E p \in roots' : Covering!Covers(p, n)) => n \in Registered' ]_vars
  BY RootedStep
<1> QED
  BY <1>1, InvHolds, PTL DEF Spec, TransitionKeepsKnown

(* With no transition under way the runner has a live RootState for each     *)
(* root of the covering set and no other (apply_delta,                       *)
(* finish_transition_if_ready).                                              *)
THEOREM RootsServed == UpstreamNamespacesAssumption /\ Spec => []RootsAreServed
<1> SUFFICES ASSUME UpstreamNamespacesAssumption PROVE Spec => []RootsAreServed
  OBVIOUS
<1>1. Rooted => RootsAreServed
  BY DEF Rooted, Served, RootsAreServed, InTransition, NoTransition
<1> QED
  BY <1>1, InvHolds, PTL

(* An upstream relay never has two requests of ours open at once whose       *)
(* prefixes overlap: the pulls of the new roots wait for the old pulls of    *)
(* their relay (take_ready_targets, handle_pull_ended).                     *)
THEOREM NoTwoAtRelay == UpstreamNamespacesAssumption /\ Spec => []NoOverlapAtRelay
<1> SUFFICES ASSUME UpstreamNamespacesAssumption PROVE Spec => []NoOverlapAtRelay
  OBVIOUS
<1>1. Rooted => NoOverlapAtRelay
  BY DEF Rooted, NoneOverlap, Active, NoOverlapAtRelay, Opened
<1> QED
  BY <1>1, InvHolds, PTL

-----------------------------------------------------------------------------
(* The interests follow the leases                                           *)

\* Interest commands that the runner has still to look at.
Waiting ==
  {c \in Interest : \/ \E i \in DOMAIN deferred : deferred[i] = c
                    \/ \E i \in DOMAIN commands : commands[i] = c}

Subscribe(p, g) == [kind |-> "subscribe", prefix |-> p, gen |-> g]
Unsubscribe(p, g) == [kind |-> "unsubscribe", prefix |-> p, gen |-> g]

\* c is older than d, if both are of one prefix.
Older(c, d) ==
  ( c \in Interest /\ d \in Interest /\ c.prefix = d.prefix ) =>
    \/ c.gen < d.gen
    \/ c.gen = d.gen /\ c.kind = "subscribe" /\ d.kind = "unsubscribe"

InOrder ==
  /\ \A i, j \in DOMAIN deferred : i < j => Older(deferred[i], deferred[j])
  /\ \A i, j \in DOMAIN commands : i < j => Older(commands[i], commands[j])
  /\ \A i \in DOMAIN deferred, j \in DOMAIN commands : Older(deferred[i], commands[j])

\* Generations are numbered as they are created; the slot of a prefix names
\* the newest, until its destructor has run.
Leased ==
  /\ slot \in [Prefixes -> Gens \cup {None}]
  /\ \E n \in 0 .. MaxLeases : \A g \in Gens : life[g] # "none" <=> g <= n
  /\ \A p \in Prefixes : slot[p] # None => life[slot[p]] \in {"live", "dropping"} /\ prefixOf[slot[p]] = p
  /\ \A g \in Gens : life[g] = "live" => slot[prefixOf[g]] = g

\* What is waiting takes the runner from the active generation to the one in
\* the slot.
Heads ==
  \A p \in Prefixes :
    /\ active[p] # None => life[active[p]] # "none"
    /\ \A g \in Gens :
         /\ Subscribe(p, g) \in Waiting => life[g] # "none" /\ active[p] < g
         /\ Unsubscribe(p, g) \in Waiting => Subscribe(p, g) \in Waiting \/ active[p] = g
         /\ slot[p] = g =>
              /\ Subscribe(p, g) \in Waiting \/ active[p] = g
              /\ Unsubscribe(p, g) \notin Waiting
              /\ \A h \in Gens : Subscribe(p, h) \in Waiting => h <= g
         /\ slot[p] = None /\ (Subscribe(p, g) \in Waiting \/ active[p] = g) =>
              \E h \in Gens : g <= h /\ Unsubscribe(p, h) \in Waiting

LEMMA TailFacts ==
  ASSUME NEW S, NEW s \in Seq(S), s # <<>>
  PROVE  /\ 1 \in DOMAIN s /\ Head(s) = s[1]
         /\ \A i \in DOMAIN Tail(s) : i \in Nat \ {0} /\ i + 1 \in DOMAIN s /\ Tail(s)[i] = s[i + 1]
         /\ \A j \in DOMAIN s : j = 1 \/ (j > 1 /\ j - 1 \in DOMAIN Tail(s) /\ Tail(s)[j - 1] = s[j])
OBVIOUS

LEMMA AppendFacts ==
  ASSUME NEW S, NEW s \in Seq(S), NEW e \in S
  PROVE  /\ Len(s) \in Nat /\ Len(s) + 1 \in DOMAIN Append(s, e) /\ Append(s, e)[Len(s) + 1] = e
         /\ \A i \in DOMAIN s : i \in DOMAIN Append(s, e) /\ Append(s, e)[i] = s[i]
         /\ \A i \in DOMAIN Append(s, e) : i \in Nat /\ (i \in DOMAIN s \/ i = Len(s) + 1) /\ i <= Len(s) + 1
         /\ \A i \in DOMAIN s : i <= Len(s)
OBVIOUS

\* The runner takes the oldest command of a prefix.
LEMMA TakeOrder ==
  ASSUME Queued, InOrder, HasCommand, ~InTransition, Take,
         Command.kind \in {"subscribe", "unsubscribe"}
  PROVE  /\ InOrder' /\ Command \in Waiting /\ Waiting' = Waiting \ {Command}
         /\ \A d \in Waiting' : Older(Command, d)
<1>1. Command \in Interest
  BY CommandType DEF Commands, Interest
<1>2. ~Older(Command, Command)
  BY <1>1 DEF Older, Interest, Gens
<1>3. commands \in Seq(Commands) /\ deferred \in Seq(Interest)
  BY DEF Queued
<1> HIDE DEF Commands
<1>4. CASE FromDeferred
  <2>1. deferred # <<>> /\ deferred' = Tail(deferred) /\ commands' = commands /\ Command = deferred[1]
        /\ 1 \in DOMAIN deferred
    BY <1>3, <1>4, TailFacts DEF Take, FromDeferred, Command
  <2>2. /\ \A i \in DOMAIN deferred' : i \in Nat /\ i + 1 \in DOMAIN deferred /\ deferred'[i] = deferred[i + 1]
        /\ \A j \in DOMAIN deferred : j = 1 \/ (j > 1 /\ j - 1 \in DOMAIN deferred' /\ deferred'[j - 1] = deferred[j])
    BY <1>3, <2>1, TailFacts
  <2>3. InOrder'
    <3>1. \A i, j \in DOMAIN deferred' : i < j => Older(deferred'[i], deferred'[j])
      BY <2>2 DEF InOrder
    <3>2. \A i \in DOMAIN deferred', j \in DOMAIN commands' : Older(deferred'[i], commands'[j])
      BY <2>1, <2>2 DEF InOrder
    <3> QED
      BY <2>1, <3>1, <3>2 DEF InOrder, Older
  <2>4. \A d : (\E i \in DOMAIN deferred' : deferred'[i] = d) \/ (\E i \in DOMAIN commands' : commands'[i] = d)
               => Older(Command, d)
    BY <2>1, <2>2 DEF InOrder
  <2>5. \A d \in Interest : d # Command =>
          ((\E i \in DOMAIN deferred : deferred[i] = d) <=> (\E i \in DOMAIN deferred' : deferred'[i] = d))
    <3>1. ASSUME NEW d, d # Command, NEW i \in DOMAIN deferred, deferred[i] = d
          PROVE  \E j \in DOMAIN deferred' : deferred'[j] = d
      <4>1. i # 1
        BY <2>1, <3>1
      <4>2. i - 1 \in DOMAIN deferred' /\ deferred'[i - 1] = d
        BY <2>2, <3>1, <4>1
      <4> QED
        BY <4>2
    <3>2. ASSUME NEW d, NEW i \in DOMAIN deferred', deferred'[i] = d
          PROVE  \E j \in DOMAIN deferred : deferred[j] = d
      BY <2>2, <3>2
    <3> QED
      BY <3>1, <3>2
  <2> QED
    BY <1>1, <1>2, <2>1, <2>3, <2>4, <2>5 DEF Waiting
<1>5. CASE ~FromDeferred
  <2>1. commands # <<>> /\ commands' = Tail(commands) /\ deferred' = deferred /\ Command = commands[1]
        /\ 1 \in DOMAIN commands /\ deferred = <<>>
    BY <1>3, <1>5, TailFacts DEF Take, FromDeferred, HasCommand, Command
  <2>2. /\ \A i \in DOMAIN commands' : i \in Nat /\ i + 1 \in DOMAIN commands /\ commands'[i] = commands[i + 1]
        /\ \A j \in DOMAIN commands : j = 1 \/ (j > 1 /\ j - 1 \in DOMAIN commands' /\ commands'[j - 1] = commands[j])
    BY <1>3, <2>1, TailFacts
  <2>3. InOrder'
    <3>1. \A i, j \in DOMAIN commands' : i < j => Older(commands'[i], commands'[j])
      BY <2>2 DEF InOrder
    <3>2. \A i \in DOMAIN deferred', j \in DOMAIN commands' : Older(deferred'[i], commands'[j])
      BY <2>1, <2>2 DEF InOrder
    <3> QED
      BY <2>1, <3>1, <3>2 DEF InOrder, Older
  <2>4. \A d : (\E i \in DOMAIN deferred' : deferred'[i] = d) \/ (\E i \in DOMAIN commands' : commands'[i] = d)
               => Older(Command, d)
    BY <2>1, <2>2 DEF InOrder
  <2>5. \A d \in Interest : d # Command =>
          ((\E i \in DOMAIN commands : commands[i] = d) <=> (\E i \in DOMAIN commands' : commands'[i] = d))
    <3>1. ASSUME NEW d, d # Command, NEW i \in DOMAIN commands, commands[i] = d
          PROVE  \E j \in DOMAIN commands' : commands'[j] = d
      <4>1. i # 1
        BY <2>1, <3>1
      <4>2. i - 1 \in DOMAIN commands' /\ commands'[i - 1] = d
        BY <2>2, <3>1, <4>1
      <4> QED
        BY <4>2
    <3>2. ASSUME NEW d, NEW i \in DOMAIN commands', commands'[i] = d
          PROVE  \E j \in DOMAIN commands : commands[j] = d
      BY <2>2, <3>2
    <3> QED
      BY <3>1, <3>2
  <2> QED
    BY <1>1, <1>2, <2>1, <2>3, <2>4, <2>5 DEF Waiting
<1> QED
  BY <1>4, <1>5

\* Events and the ends of pulls may overtake what is deferred.
LEMMA SkipOrder ==
  ASSUME Queued, InOrder, commands # <<>>, Head(commands) \notin Interest,
         commands' = Tail(commands), deferred' = deferred
  PROVE  InOrder' /\ Waiting' = Waiting
<1>1. commands \in Seq(Commands)
  BY DEF Queued
<1> HIDE DEF Commands
<1>2. commands[1] \notin Interest
  BY <1>1, TailFacts
<1>3. /\ \A i \in DOMAIN commands' : i \in Nat /\ i + 1 \in DOMAIN commands /\ commands'[i] = commands[i + 1]
      /\ \A j \in DOMAIN commands : j = 1 \/ (j > 1 /\ j - 1 \in DOMAIN commands' /\ commands'[j - 1] = commands[j])
  BY <1>1, TailFacts
<1>4. InOrder'
  <2>1. \A i, j \in DOMAIN commands' : i < j => Older(commands'[i], commands'[j])
    BY <1>3 DEF InOrder
  <2>2. \A i \in DOMAIN deferred', j \in DOMAIN commands' : Older(deferred'[i], commands'[j])
    BY <1>3 DEF InOrder
  <2> QED
    BY <2>1, <2>2 DEF InOrder, Older
<1>5. ASSUME NEW d \in Interest
      PROVE  (\E i \in DOMAIN commands : commands[i] = d) <=> (\E i \in DOMAIN commands' : commands'[i] = d)
  <2>1. ASSUME NEW i \in DOMAIN commands, commands[i] = d PROVE \E j \in DOMAIN commands' : commands'[j] = d
    <3>1. i # 1
      BY <1>2, <1>5, <2>1
    <3>2. i - 1 \in DOMAIN commands' /\ commands'[i - 1] = d
      BY <1>3, <2>1, <3>1
    <3> QED
      BY <3>2
  <2>2. ASSUME NEW i \in DOMAIN commands', commands'[i] = d PROVE \E j \in DOMAIN commands : commands[j] = d
    BY <1>3, <2>2
  <2> QED
    BY <2>1, <2>2
<1> QED
  BY <1>4, <1>5 DEF Waiting

\* What is put last in the queue is newer than what is waiting.
LEMMA PutOrder ==
  ASSUME Queued, InOrder, NEW c \in Commands, \A d \in Waiting : Older(d, c),
         commands' = Append(commands, c), deferred' = deferred
  PROVE  InOrder' /\ Waiting' = Waiting \cup ({c} \cap Interest)
<1>1. commands \in Seq(Commands) /\ deferred \in Seq(Interest)
  BY DEF Queued
<1> HIDE DEF Commands
<1> DEFINE n == Len(commands) + 1
<1>2. /\ Len(commands) \in Nat /\ n \in DOMAIN commands' /\ commands'[n] = c
      /\ \A i \in DOMAIN commands : i \in DOMAIN commands' /\ commands'[i] = commands[i]
      /\ \A i \in DOMAIN commands' : i \in Nat /\ (i \in DOMAIN commands \/ i = n) /\ i <= n
      /\ \A i \in DOMAIN commands : i <= Len(commands)
  BY <1>1, AppendFacts
<1>3. /\ \A i \in DOMAIN commands : Older(commands[i], c)
      /\ \A i \in DOMAIN deferred : Older(deferred[i], c)
  BY DEF Waiting, Older
<1>4. InOrder'
  <2>1. ASSUME NEW i \in DOMAIN commands', NEW j \in DOMAIN commands', i < j
        PROVE  Older(commands'[i], commands'[j])
    <3>1. i \in DOMAIN commands /\ commands'[i] = commands[i]
      BY <1>2, <2>1
    <3>2. CASE j = n
      BY <1>2, <1>3, <3>1, <3>2
    <3>3. CASE j # n
      BY <1>2, <2>1, <3>1, <3>3 DEF InOrder
    <3> QED
      BY <3>2, <3>3
  <2>2. ASSUME NEW i \in DOMAIN deferred', NEW j \in DOMAIN commands'
        PROVE  Older(deferred'[i], commands'[j])
    <3>1. CASE j = n
      BY <1>2, <1>3, <3>1
    <3>2. CASE j # n
      BY <1>2, <3>2 DEF InOrder
    <3> QED
      BY <3>1, <3>2
  <2> HIDE DEF n
  <2> QED
    BY <2>1, <2>2 DEF InOrder, Older
<1>5. \A d : (\E i \in DOMAIN commands' : commands'[i] = d) <=> (\E i \in DOMAIN commands : commands[i] = d) \/ d = c
  BY <1>2
<1> QED
  BY <1>4, <1>5 DEF Waiting

\* A command that is deferred is still the oldest of the queue.
LEMMA DeferOrder ==
  ASSUME Queued, InOrder, Defer
  PROVE  InOrder' /\ Waiting' = Waiting
<1>1. commands \in Seq(Commands) /\ deferred \in Seq(Interest)
  BY DEF Queued
<1>2. /\ commands # <<>> /\ Command = Head(commands) /\ Command \in Interest
      /\ commands' = Tail(commands) /\ deferred' = Append(deferred, Command)
  BY CommandType DEF Defer, FromDeferred, Command, HasCommand, Commands, Interest
<1> HIDE DEF Commands, Command
<1> DEFINE n == Len(deferred) + 1
<1>3. /\ 1 \in DOMAIN commands /\ Command = commands[1]
      /\ \A i \in DOMAIN commands' : i \in Nat \ {0} /\ i + 1 \in DOMAIN commands /\ commands'[i] = commands[i + 1]
      /\ \A j \in DOMAIN commands : j = 1 \/ (j > 1 /\ j - 1 \in DOMAIN commands' /\ commands'[j - 1] = commands[j])
  BY <1>1, <1>2, TailFacts
<1>4. /\ Len(deferred) \in Nat /\ n \in DOMAIN deferred' /\ deferred'[n] = Command
      /\ \A i \in DOMAIN deferred : i \in DOMAIN deferred' /\ deferred'[i] = deferred[i]
      /\ \A i \in DOMAIN deferred' : i \in Nat /\ (i \in DOMAIN deferred \/ i = n) /\ i <= n
      /\ \A i \in DOMAIN deferred : i <= Len(deferred)
  BY <1>1, <1>2, AppendFacts
<1>5. \A j \in DOMAIN commands' : Older(Command, commands'[j])
  BY <1>3 DEF InOrder
<1>6. \A i \in DOMAIN deferred : Older(deferred[i], Command)
  BY <1>3 DEF InOrder
<1>7. InOrder'
  <2>1. ASSUME NEW i \in DOMAIN deferred', NEW j \in DOMAIN deferred', i < j
        PROVE  Older(deferred'[i], deferred'[j])
    <3>1. i \in DOMAIN deferred /\ deferred'[i] = deferred[i]
      BY <1>4, <2>1
    <3>2. CASE j = n
      BY <1>4, <1>6, <3>1, <3>2
    <3>3. CASE j # n
      BY <1>4, <2>1, <3>1, <3>3 DEF InOrder
    <3> QED
      BY <3>2, <3>3
  <2>2. \A i, j \in DOMAIN commands' : i < j => Older(commands'[i], commands'[j])
    BY <1>3 DEF InOrder
  <2>3. ASSUME NEW i \in DOMAIN deferred', NEW j \in DOMAIN commands'
        PROVE  Older(deferred'[i], commands'[j])
    <3>1. CASE i = n
      BY <1>4, <1>5, <3>1
    <3>2. CASE i # n
      BY <1>3, <1>4, <3>2 DEF InOrder
    <3> QED
      BY <3>1, <3>2
  <2> HIDE DEF n
  <2> QED
    BY <2>1, <2>2, <2>3 DEF InOrder, Older
<1>8. \A d : (\E i \in DOMAIN deferred' : deferred'[i] = d) <=> (\E i \in DOMAIN deferred : deferred[i] = d) \/ d = Command
  BY <1>4
<1>9. \A d : (\E i \in DOMAIN commands : commands[i] = d) <=> (\E i \in DOMAIN commands' : commands'[i] = d) \/ d = Command
  <2>1. ASSUME NEW d, NEW i \in DOMAIN commands, commands[i] = d, d # Command
        PROVE  \E j \in DOMAIN commands' : commands'[j] = d
    <3>1. i # 1
      BY <1>3, <2>1
    <3>2. i - 1 \in DOMAIN commands' /\ commands'[i - 1] = d
      BY <1>3, <2>1, <3>1
    <3> QED
      BY <3>2
  <2>2. ASSUME NEW d, NEW i \in DOMAIN commands', commands'[i] = d
        PROVE  \E j \in DOMAIN commands : commands[j] = d
    BY <1>3, <2>2
  <2> QED
    BY <1>3, <2>1, <2>2
<1> QED
  BY <1>7, <1>8, <1>9 DEF Waiting

LEMMA InterestForm ==
  /\ \A p \in Prefixes, g \in Gens :
       /\ Subscribe(p, g) \in Interest /\ Unsubscribe(p, g) \in Interest
       /\ \A q \in Prefixes, h \in Gens :
            /\ Subscribe(p, g) # Unsubscribe(q, h)
            /\ Subscribe(p, g) = Subscribe(q, h) => p = q /\ g = h
            /\ Unsubscribe(p, g) = Unsubscribe(q, h) => p = q /\ g = h
  /\ \A p \in Prefixes, g, h \in Gens :
       /\ Older(Subscribe(p, g), Subscribe(p, h)) <=> g < h
       /\ Older(Unsubscribe(p, g), Unsubscribe(p, h)) <=> g < h
       /\ Older(Unsubscribe(p, g), Subscribe(p, h)) <=> g < h
       /\ Older(Subscribe(p, g), Unsubscribe(p, h)) <=> g <= h
  /\ \A c \in Interest :
       /\ c.prefix \in Prefixes /\ c.gen \in Gens
       /\ c.kind = "subscribe" => c = Subscribe(c.prefix, c.gen)
       /\ c.kind = "unsubscribe" => c = Unsubscribe(c.prefix, c.gen)
       /\ c.kind \in {"subscribe", "unsubscribe"}
<1>1. \A p \in Prefixes, g \in Gens :
        /\ Subscribe(p, g) \in Interest /\ Unsubscribe(p, g) \in Interest
        /\ Subscribe(p, g).prefix = p /\ Subscribe(p, g).gen = g /\ Subscribe(p, g).kind = "subscribe"
        /\ Unsubscribe(p, g).prefix = p /\ Unsubscribe(p, g).gen = g /\ Unsubscribe(p, g).kind = "unsubscribe"
  BY DEF Subscribe, Unsubscribe, Interest
<1>2. \A p \in Prefixes, g \in Gens, q \in Prefixes, h \in Gens :
        /\ Subscribe(p, g) # Unsubscribe(q, h)
        /\ Subscribe(p, g) = Subscribe(q, h) => p = q /\ g = h
        /\ Unsubscribe(p, g) = Unsubscribe(q, h) => p = q /\ g = h
  BY <1>1
<1>3. \A p \in Prefixes, g, h \in Gens :
        /\ Older(Subscribe(p, g), Subscribe(p, h)) <=> g < h
        /\ Older(Unsubscribe(p, g), Unsubscribe(p, h)) <=> g < h
        /\ Older(Unsubscribe(p, g), Subscribe(p, h)) <=> g < h
        /\ Older(Subscribe(p, g), Unsubscribe(p, h)) <=> g <= h
  <2> HIDE DEF Interest
  <2>1. \A g, h \in Gens : g \in Int /\ h \in Int /\ (g <= h <=> g < h \/ g = h)
    BY DEF Gens
  <2> QED
    BY <1>1, <2>1 DEF Older
<1>4. \A c \in Interest :
        /\ c.prefix \in Prefixes /\ c.gen \in Gens
        /\ c.kind = "subscribe" => c = Subscribe(c.prefix, c.gen)
        /\ c.kind = "unsubscribe" => c = Unsubscribe(c.prefix, c.gen)
        /\ c.kind \in {"subscribe", "unsubscribe"}
  BY DEF Interest, Subscribe, Unsubscribe
<1> QED
  BY <1>1, <1>2, <1>3, <1>4

Settling == InOrder /\ Leased /\ Heads

\* Steps that neither the leases nor the interests see.
LEMMA StillSettling ==
  ASSUME Leased, Heads, Waiting' = Waiting,
         UNCHANGED <<slot, prefixOf, life, active>>
  PROVE  Leased' /\ Heads'
BY DEF Leased, Heads

LEMMA ReleaseSettling ==
  ASSUME Queued, Leased, Heads, Waiting' = Waiting, NEW g \in Gens, Release(g)
  PROVE  Leased' /\ Heads'
<1>1. UNCHANGED <<slot, prefixOf, active>>
  BY DEF Release, runner
<1>2. \A h \in Gens : /\ (life'[h] # "none" <=> life[h] # "none") /\ (life'[h] = "live" => life[h] = "live")
                      /\ (life[h] \in {"live", "dropping"} => life'[h] \in {"live", "dropping"})
  BY DEF Release, Queued
<1>3. Leased'
  <2>1. ASSUME NEW p \in Prefixes, slot[p] # None PROVE life'[slot[p]] \in {"live", "dropping"}
    BY <1>2, <2>1 DEF Leased
  <2>2. PICK n \in 0 .. MaxLeases : \A h \in Gens : life[h] # "none" <=> h <= n
    BY DEF Leased
  <2>3. \E m \in 0 .. MaxLeases : \A h \in Gens : life'[h] # "none" <=> h <= m
    BY <1>2, <2>2
  <2> QED
    BY <1>1, <1>2, <2>1, <2>3 DEF Leased
<1>4. Heads'
  BY <1>1, <1>2 DEF Heads, Queued
<1> QED
  BY <1>3, <1>4

\* subscribe, with a new generation
LEMMA NewSettling ==
  ASSUME UpstreamNamespacesAssumption, Queued, Leased, Heads, InOrder, NEW p \in Prefixes, NewLease(p)
  PROVE  Settling'
<1> DEFINE g == Created + 1
<1>1. PICK n \in 0 .. MaxLeases : \A h \in Gens : life[h] # "none" <=> h <= n
  BY DEF Leased
<1>2. Created = n
  <2>1. {h \in Gens : life[h] # "none"} = 1 .. n
    BY <1>1 DEF Gens, UpstreamNamespacesAssumption
  <2>2. Cardinality(1 .. n) = n
    BY <1>1, FS_Interval DEF UpstreamNamespacesAssumption
  <2> QED
    BY <2>1, <2>2 DEF Created
<1>3. g \in Gens /\ g = n + 1 /\ \A h \in Gens : life[h] # "none" <=> h < g
  <2>1. n \in Nat /\ \A h \in Gens : h \in Nat
    BY <1>1 DEF Gens, UpstreamNamespacesAssumption
  <2> QED
    BY <1>1, <1>2, <2>1 DEF NewLease, Gens
<1>4. /\ slot' = [slot EXCEPT ![p] = g] /\ prefixOf' = [prefixOf EXCEPT ![g] = p]
      /\ life' = [life EXCEPT ![g] = "live"] /\ active' = active /\ deferred' = deferred
      /\ commands' = Append(commands, Subscribe(p, g))
      /\ ~(slot[p] # None /\ life[slot[p]] = "live")
  BY DEF NewLease, runner, Subscribe
<1> HIDE DEF g
<1>5. \A h \in Gens : h \in Nat /\ (h < g \/ h = g \/ g < h)
  BY <1>3 DEF Gens
<1>6. \A q \in Prefixes, h \in Gens : Subscribe(q, h) \in Waiting \/ Unsubscribe(q, h) \in Waiting => h < g
  BY <1>3 DEF Heads, None, Gens
<1>7. \A d \in Waiting : Older(d, Subscribe(p, g))
  <2> SUFFICES ASSUME NEW d \in Waiting PROVE Older(d, Subscribe(p, g))
    OBVIOUS
  <2>1. d \in Interest
    BY DEF Waiting
  <2>2. d = Subscribe(d.prefix, d.gen) \/ d = Unsubscribe(d.prefix, d.gen)
    BY <2>1, InterestForm
  <2>3. d.prefix \in Prefixes /\ d.gen \in Gens
    BY <2>1, InterestForm
  <2>4. d.gen < g
    BY <1>6, <2>2, <2>3
  <2> QED
    BY <1>5, <2>4 DEF Older, Subscribe
<1>8. Subscribe(p, g) \in Interest /\ Subscribe(p, g) \in Commands
  BY <1>3, InterestForm DEF Commands
<1>9. InOrder' /\ Waiting' = Waiting \cup {Subscribe(p, g)}
  BY <1>4, <1>7, <1>8, PutOrder
<1>10. Leased'
  <2>1. slot' \in [Prefixes -> Gens \cup {None}]
    BY <1>3, <1>4 DEF Leased
  <2>2. \A h \in Gens : life'[h] = IF h = g THEN "live" ELSE life[h]
    BY <1>4 DEF Queued
  <2>3. \A h \in Gens : prefixOf'[h] = IF h = g THEN p ELSE prefixOf[h]
    BY <1>4 DEF Queued
  <2>4. \A q \in Prefixes : slot'[q] = IF q = p THEN g ELSE slot[q]
    BY <1>4 DEF Leased
  <2>5. \A h \in Gens : life'[h] # "none" <=> h <= g
    BY <1>3, <1>5, <2>2
  <2>6. g \in 0 .. MaxLeases
    BY <1>3 DEF Gens
  <2>7. \A q \in Prefixes : slot'[q] # None => life'[slot'[q]] \in {"live", "dropping"} /\ prefixOf'[slot'[q]] = q
    <3> SUFFICES ASSUME NEW q \in Prefixes, slot'[q] # None
                 PROVE  life'[slot'[q]] \in {"live", "dropping"} /\ prefixOf'[slot'[q]] = q
      OBVIOUS
    <3>1. CASE q = p
      BY <1>3, <2>2, <2>3, <2>4, <3>1
    <3>2. CASE q # p
      <4>1. slot[q] \in Gens /\ slot'[q] = slot[q] /\ life[slot[q]] \in {"live", "dropping"} /\ prefixOf[slot[q]] = q
        BY <2>4, <3>2 DEF Leased
      <4>2. slot[q] # g
        BY <1>3, <1>5, <4>1
      <4> QED
        BY <2>2, <2>3, <4>1, <4>2
    <3> QED
      BY <3>1, <3>2
  <2>8. \A h \in Gens : life'[h] = "live" => slot'[prefixOf'[h]] = h
    <3> SUFFICES ASSUME NEW h \in Gens, life'[h] = "live" PROVE slot'[prefixOf'[h]] = h
      OBVIOUS
    <3>1. CASE h = g
      BY <2>3, <2>4, <3>1
    <3>2. CASE h # g
      <4>1. life[h] = "live" /\ prefixOf'[h] = prefixOf[h] /\ slot[prefixOf[h]] = h /\ prefixOf[h] \in Prefixes
        BY <2>2, <2>3, <3>2 DEF Leased, Queued
      <4>2. prefixOf[h] # p
        BY <1>4, <1>5, <4>1 DEF None, Gens
      <4> QED
        BY <2>4, <4>1, <4>2
    <3> QED
      BY <3>1, <3>2
  <2> QED
    BY <2>1, <2>5, <2>6, <2>7, <2>8 DEF Leased
<1>11. Heads'
  <2>1. \A q \in Prefixes : slot'[q] = IF q = p THEN g ELSE slot[q]
    BY <1>4 DEF Leased
  <2>2. \A h \in Gens : life[h] # "none" => life'[h] # "none"
    BY <1>4 DEF Queued
  <2>3. \A q \in Prefixes, h \in Gens :
          /\ Unsubscribe(q, h) \in Waiting' <=> Unsubscribe(q, h) \in Waiting
          /\ Subscribe(q, h) \in Waiting' <=> Subscribe(q, h) \in Waiting \/ (q = p /\ h = g)
    BY <1>3, <1>9, InterestForm
  <2>4. \A q \in Prefixes : active[q] # None => active[q] \in Gens /\ active[q] < g
    BY <1>3 DEF Heads, Queued
  <2>5. ASSUME NEW q \in Prefixes, active[q] # None PROVE life'[active[q]] # "none"
    BY <2>2, <2>4, <2>5 DEF Heads
  <2>6. ASSUME NEW q \in Prefixes, NEW h \in Gens, Subscribe(q, h) \in Waiting'
        PROVE  life'[h] # "none" /\ active[q] < h
    <3>1. CASE h = g /\ q = p
      BY <1>3, <1>4, <2>4, <3>1 DEF Queued, None, Gens
    <3>2. CASE ~(h = g /\ q = p)
      BY <2>2, <2>3, <2>6, <3>2 DEF Heads
    <3> QED
      BY <3>1, <3>2
  <2>7. ASSUME NEW q \in Prefixes, NEW h \in Gens, Unsubscribe(q, h) \in Waiting'
        PROVE  Subscribe(q, h) \in Waiting' \/ active[q] = h
    BY <2>3, <2>7 DEF Heads
  <2>8. ASSUME NEW q \in Prefixes, NEW h \in Gens, slot'[q] = h
        PROVE  /\ Subscribe(q, h) \in Waiting' \/ active[q] = h
               /\ Unsubscribe(q, h) \notin Waiting'
               /\ \A j \in Gens : Subscribe(q, j) \in Waiting' => j <= h
    <3>1. CASE q = p
      <4>1. h = g
        BY <2>1, <2>8, <3>1
      <4>2. \A j \in Gens : Subscribe(q, j) \in Waiting' => j <= h
        BY <1>5, <1>6, <2>3, <4>1
      <4>3. Unsubscribe(q, h) \notin Waiting'
        BY <1>5, <1>6, <2>3, <4>1
      <4> QED
        BY <2>3, <3>1, <4>1, <4>2, <4>3
    <3>2. CASE q # p
      BY <2>1, <2>3, <2>8, <3>2 DEF Heads
    <3> QED
      BY <3>1, <3>2
  <2>9. ASSUME NEW q \in Prefixes, NEW h \in Gens, slot'[q] = None,
               Subscribe(q, h) \in Waiting' \/ active[q] = h
        PROVE  \E j \in Gens : h <= j /\ Unsubscribe(q, j) \in Waiting'
    <3>1. q # p /\ slot[q] = None
      BY <1>3, <2>1, <2>9 DEF None, Gens
    <3> QED
      BY <2>3, <2>9, <3>1 DEF Heads
  <2> QED
    BY <1>4, <2>5, <2>6, <2>7, <2>8, <2>9 DEF Heads
<1> QED
  BY <1>9, <1>10, <1>11 DEF Settling

\* PrefixInterest::drop
LEMMA DropSettling ==
  ASSUME UpstreamNamespacesAssumption, Queued, Leased, Heads, InOrder, NEW g \in Gens, DropInterest(g)
  PROVE  Settling'
<1> DEFINE p == prefixOf[g]
<1>1. p \in Prefixes /\ life' = [life EXCEPT ![g] = "dead"] /\ life[g] = "dropping"
      /\ UNCHANGED <<prefixOf, active, deferred>>
  BY DEF DropInterest, Queued, runner
<1>2. \A h \in Gens : life'[h] = IF h = g THEN "dead" ELSE life[h]
  BY <1>1 DEF Queued
<1>3. \A h \in Gens : life'[h] # "none" <=> life[h] # "none"
  BY <1>1, <1>2
<1>4. \E n \in 0 .. MaxLeases : \A h \in Gens : life'[h] # "none" <=> h <= n
  BY <1>3 DEF Leased
<1>5. CASE ~IsCurrent(g)
  <2>1. UNCHANGED <<slot, commands>> /\ slot[p] # g
    BY <1>5 DEF DropInterest, IsCurrent
  <2>2. Waiting' = Waiting /\ InOrder'
    BY <1>1, <2>1 DEF Waiting, InOrder, Older
  <2>3. ASSUME NEW q \in Prefixes, slot[q] # None
        PROVE  life'[slot[q]] \in {"live", "dropping"} /\ prefixOf'[slot[q]] = q
    BY <1>1, <1>2, <2>1, <2>3 DEF Leased
  <2>4. Leased'
    BY <1>1, <1>2, <1>4, <2>1, <2>3 DEF Leased
  <2>5. Heads'
    BY <1>1, <1>3, <2>1, <2>2 DEF Heads, Queued
  <2> QED
    BY <2>2, <2>4, <2>5 DEF Settling
<1>6. CASE IsCurrent(g)
  <2>1. /\ slot' = [slot EXCEPT ![p] = None] /\ slot[p] = g
        /\ commands' = Append(commands, Unsubscribe(p, g))
    BY <1>6 DEF DropInterest, IsCurrent, Unsubscribe
  <2> HIDE DEF p
  <2>2. /\ Subscribe(p, g) \in Waiting \/ active[p] = g
        /\ Unsubscribe(p, g) \notin Waiting
        /\ \A h \in Gens : Subscribe(p, h) \in Waiting => h <= g
        /\ Subscribe(p, g) \in Waiting => active[p] < g
    BY <1>1, <2>1 DEF Heads
  <2>3. \A h \in Gens : h \in Nat /\ h # None
    BY DEF Gens, None
  <2>4. active[p] = None \/ (active[p] \in Gens /\ active[p] <= g)
    BY <1>1, <2>2, <2>3 DEF Queued
  <2>5. \A h \in Gens : Unsubscribe(p, h) \in Waiting => h < g
    <3> SUFFICES ASSUME NEW h \in Gens, Unsubscribe(p, h) \in Waiting PROVE h < g
      OBVIOUS
    <3>1. Subscribe(p, h) \in Waiting \/ active[p] = h
      BY <1>1 DEF Heads
    <3>2. h # g
      BY <2>2
    <3>3. h <= g
      BY <2>2, <2>3, <2>4, <3>1
    <3> QED
      BY <2>3, <3>2, <3>3
  <2>6. \A d \in Waiting : Older(d, Unsubscribe(p, g))
    <3> SUFFICES ASSUME NEW d \in Waiting PROVE Older(d, Unsubscribe(p, g))
      OBVIOUS
    <3>1. d \in Interest
      BY DEF Waiting
    <3>2. d = Subscribe(d.prefix, d.gen) \/ d = Unsubscribe(d.prefix, d.gen)
      BY <3>1, InterestForm
    <3>3. d.prefix \in Prefixes /\ d.gen \in Gens
      BY <3>1, InterestForm
    <3>4. CASE d.prefix = p
      <4>1. Older(Subscribe(p, d.gen), Unsubscribe(p, g)) <=> d.gen <= g
        BY <1>1, <3>3, InterestForm
      <4>2. Older(Unsubscribe(p, d.gen), Unsubscribe(p, g)) <=> d.gen < g
        BY <1>1, <3>3, InterestForm
      <4> QED
        BY <2>2, <2>5, <3>2, <3>3, <3>4, <4>1, <4>2
    <3>5. CASE d.prefix # p
      BY <3>5 DEF Older, Unsubscribe
    <3> QED
      BY <3>4, <3>5
  <2>7. Unsubscribe(p, g) \in Interest /\ Unsubscribe(p, g) \in Commands
    BY <1>1, InterestForm DEF Commands
  <2>8. InOrder' /\ Waiting' = Waiting \cup {Unsubscribe(p, g)}
    BY <1>1, <2>1, <2>6, <2>7, PutOrder
  <2>9. \A q \in Prefixes, h \in Gens :
          /\ Subscribe(q, h) \in Waiting' <=> Subscribe(q, h) \in Waiting
          /\ Unsubscribe(q, h) \in Waiting' <=> Unsubscribe(q, h) \in Waiting \/ (q = p /\ h = g)
    BY <1>1, <2>8, InterestForm
  <2>10. \A q \in Prefixes : slot'[q] = IF q = p THEN None ELSE slot[q]
    BY <2>1 DEF Leased
  <2>11. Leased'
    <3>1. slot' \in [Prefixes -> Gens \cup {None}]
      BY <2>1 DEF Leased
    <3>2. ASSUME NEW q \in Prefixes, slot'[q] # None
          PROVE  life'[slot'[q]] \in {"live", "dropping"} /\ prefixOf'[slot'[q]] = q
      <4>1. q # p /\ slot'[q] = slot[q] /\ slot[q] \in Gens /\ life[slot[q]] \in {"live", "dropping"}
            /\ prefixOf[slot[q]] = q
        BY <2>10, <3>2 DEF Leased
      <4>2. slot[q] # g
        BY <4>1 DEF p
      <4> QED
        BY <1>1, <1>2, <4>1, <4>2
    <3>3. ASSUME NEW h \in Gens, life'[h] = "live" PROVE slot'[prefixOf'[h]] = h
      <4>1. h # g /\ life[h] = "live" /\ prefixOf'[h] = prefixOf[h] /\ prefixOf[h] \in Prefixes
        BY <1>1, <1>2, <3>3 DEF Queued
      <4>2. slot[prefixOf[h]] = h
        BY <4>1 DEF Leased
      <4>3. prefixOf[h] # p
        BY <2>1, <4>1, <4>2
      <4> QED
        BY <2>10, <4>1, <4>2, <4>3
    <3> QED
      BY <1>4, <3>1, <3>2, <3>3 DEF Leased
  <2>12. Heads'
    <3>1. ASSUME NEW q \in Prefixes, active[q] # None PROVE life'[active[q]] # "none"
      BY <1>3, <3>1 DEF Heads, Queued
    <3>2. ASSUME NEW q \in Prefixes, NEW h \in Gens, Subscribe(q, h) \in Waiting'
          PROVE  life'[h] # "none" /\ active[q] < h
      BY <1>3, <2>9, <3>2 DEF Heads
    <3>3. ASSUME NEW q \in Prefixes, NEW h \in Gens, Unsubscribe(q, h) \in Waiting'
          PROVE  Subscribe(q, h) \in Waiting' \/ active[q] = h
      BY <2>2, <2>9, <3>3 DEF Heads
    <3>4. ASSUME NEW q \in Prefixes, NEW h \in Gens, slot'[q] = h
          PROVE  /\ Subscribe(q, h) \in Waiting' \/ active[q] = h
                 /\ Unsubscribe(q, h) \notin Waiting'
                 /\ \A j \in Gens : Subscribe(q, j) \in Waiting' => j <= h
      <4>1. q # p /\ slot[q] = h
        BY <2>3, <2>10, <3>4
      <4> QED
        BY <2>9, <4>1 DEF Heads
    <3>5. ASSUME NEW q \in Prefixes, NEW h \in Gens, slot'[q] = None,
                 Subscribe(q, h) \in Waiting' \/ active[q] = h
          PROVE  \E j \in Gens : h <= j /\ Unsubscribe(q, j) \in Waiting'
      <4>1. CASE q = p
        <5>1. h <= g
          BY <2>2, <2>3, <2>4, <2>9, <3>5, <4>1
        <5> QED
          BY <1>1, <2>9, <4>1, <5>1
      <4>2. CASE q # p
        BY <2>9, <2>10, <3>5, <4>2 DEF Heads
      <4> QED
        BY <4>1, <4>2
    <3> QED
      BY <1>1, <3>1, <3>2, <3>3, <3>4, <3>5 DEF Heads
  <2> QED
    BY <2>8, <2>11, <2>12 DEF Settling
<1> QED
  BY <1>5, <1>6

\* add_interest
LEMMA AddSettling ==
  ASSUME UpstreamNamespacesAssumption, Queued, Leased, Heads, InOrder, AddInterest
  PROVE  Settling'
<1> DEFINE p == Command.prefix
           g == Command.gen
<1>1. InOrder' /\ Command \in Waiting /\ Waiting' = Waiting \ {Command} /\ \A d \in Waiting' : Older(Command, d)
  BY TakeOrder DEF AddInterest
<1>2. Command \in Interest /\ Command.kind = "subscribe"
  BY <1>1 DEF Waiting, AddInterest
<1>3. Command = Subscribe(p, g) /\ p \in Prefixes /\ g \in Gens
  BY <1>2, InterestForm
<1>4. active[p] < g /\ life[g] # "none"
  BY <1>1, <1>3 DEF Heads
<1>5. active' = [active EXCEPT ![p] = g] /\ UNCHANGED <<slot, prefixOf, life>>
  BY <1>4 DEF AddInterest, IsNew, leases
<1> HIDE DEF p, g
<1>6. \A q \in Prefixes : active'[q] = IF q = p THEN g ELSE active[q]
  BY <1>5 DEF Queued
<1>7. \A h \in Gens : h \in Nat /\ h # None
  BY DEF Gens, None
<1>8. \A q \in Prefixes, h \in Gens :
        /\ Unsubscribe(q, h) \in Waiting' <=> Unsubscribe(q, h) \in Waiting
        /\ Subscribe(q, h) \in Waiting' <=> Subscribe(q, h) \in Waiting /\ ~(q = p /\ h = g)
  BY <1>1, <1>3, InterestForm
<1>9. \A h \in Gens : /\ Subscribe(p, h) \in Waiting' => g < h
                      /\ Unsubscribe(p, h) \in Waiting' => g <= h
  BY <1>1, <1>3, InterestForm
<1>10. Leased'
  BY <1>5 DEF Leased
<1>11. Heads'
  <2>1. ASSUME NEW q \in Prefixes, active'[q] # None PROVE life'[active'[q]] # "none"
    BY <1>4, <1>5, <1>6, <2>1 DEF Heads
  <2>2. ASSUME NEW q \in Prefixes, NEW h \in Gens, Subscribe(q, h) \in Waiting'
        PROVE  life'[h] # "none" /\ active'[q] < h
    BY <1>5, <1>6, <1>8, <1>9, <2>2 DEF Heads
  <2>3. ASSUME NEW q \in Prefixes, NEW h \in Gens, Unsubscribe(q, h) \in Waiting'
        PROVE  Subscribe(q, h) \in Waiting' \/ active'[q] = h
    <3>1. CASE q = p
      <4>1. g <= h /\ (Subscribe(p, h) \in Waiting \/ active[p] = h)
        BY <1>3, <1>8, <1>9, <2>3, <3>1 DEF Heads
      <4>2. Subscribe(p, h) \in Waiting
        BY <1>3, <1>4, <1>7, <4>1
      <4> QED
        BY <1>3, <1>6, <1>8, <3>1, <4>2
    <3>2. CASE q # p
      BY <1>6, <1>8, <2>3, <3>2 DEF Heads
    <3> QED
      BY <3>1, <3>2
  <2>4. ASSUME NEW q \in Prefixes, NEW h \in Gens, slot'[q] = h
        PROVE  /\ Subscribe(q, h) \in Waiting' \/ active'[q] = h
               /\ Unsubscribe(q, h) \notin Waiting'
               /\ \A j \in Gens : Subscribe(q, j) \in Waiting' => j <= h
    <3>1. /\ Subscribe(q, h) \in Waiting \/ active[q] = h
          /\ Unsubscribe(q, h) \notin Waiting
          /\ \A j \in Gens : Subscribe(q, j) \in Waiting => j <= h
      BY <1>5, <2>4 DEF Heads
    <3>2. Subscribe(q, h) \in Waiting' \/ active'[q] = h
      <4>1. CASE q = p
        <5>1. g <= h
          BY <1>1, <1>3, <3>1, <4>1
        <5>2. Subscribe(p, h) \in Waiting
          BY <1>3, <1>4, <1>7, <3>1, <4>1, <5>1
        <5> QED
          BY <1>3, <1>6, <1>8, <4>1, <5>2
      <4>2. CASE q # p
        BY <1>6, <1>8, <3>1, <4>2
      <4> QED
        BY <4>1, <4>2
    <3> QED
      BY <1>8, <3>1, <3>2
  <2>5. ASSUME NEW q \in Prefixes, NEW h \in Gens, slot'[q] = None,
               Subscribe(q, h) \in Waiting' \/ active'[q] = h
        PROVE  \E j \in Gens : h <= j /\ Unsubscribe(q, j) \in Waiting'
    <3>1. slot[q] = None /\ (Subscribe(q, h) \in Waiting \/ active[q] = h)
      BY <1>1, <1>3, <1>5, <1>6, <1>8, <2>5
    <3> QED
      BY <1>8, <3>1 DEF Heads
  <2> QED
    BY <2>1, <2>2, <2>3, <2>4, <2>5 DEF Heads
<1> QED
  BY <1>1, <1>10, <1>11 DEF Settling

\* remove_interest
LEMMA RemoveSettling ==
  ASSUME UpstreamNamespacesAssumption, Queued, Leased, Heads, InOrder, RemoveInterest
  PROVE  Settling'
<1> DEFINE p == Command.prefix
           g == Command.gen
<1>1. InOrder' /\ Command \in Waiting /\ Waiting' = Waiting \ {Command} /\ \A d \in Waiting' : Older(Command, d)
  BY TakeOrder DEF RemoveInterest
<1>2. Command \in Interest /\ Command.kind = "unsubscribe"
  BY <1>1 DEF Waiting, RemoveInterest
<1>3. Command = Unsubscribe(p, g) /\ p \in Prefixes /\ g \in Gens
  BY <1>2, InterestForm
<1>4. \A q \in Prefixes, h \in Gens :
        /\ Subscribe(q, h) \in Waiting' <=> Subscribe(q, h) \in Waiting
        /\ Unsubscribe(q, h) \in Waiting' <=> Unsubscribe(q, h) \in Waiting /\ ~(q = p /\ h = g)
  BY <1>1, <1>3, InterestForm
<1>5. \A h \in Gens : /\ Subscribe(p, h) \in Waiting' => g < h
                      /\ Unsubscribe(p, h) \in Waiting' => g < h
  BY <1>1, <1>3, InterestForm
<1>6. \A h \in Gens : h \in Nat /\ h # None
  BY DEF Gens, None
<1>7. active[p] = g
  <2>1. Subscribe(p, g) \notin Waiting
    BY <1>3, <1>4, <1>5, <1>6
  <2> QED
    BY <1>1, <1>3, <2>1 DEF Heads
<1>8. active' = [active EXCEPT ![p] = None] /\ UNCHANGED <<slot, prefixOf, life>>
  BY <1>7 DEF RemoveInterest, leases
<1> HIDE DEF p, g
<1>9. \A q \in Prefixes : active'[q] = IF q = p THEN None ELSE active[q]
  BY <1>8 DEF Queued
<1>10. Leased'
  BY <1>8 DEF Leased
<1>11. Heads'
  <2>1. ASSUME NEW q \in Prefixes, active'[q] # None PROVE life'[active'[q]] # "none"
    BY <1>8, <1>9, <2>1 DEF Heads
  <2>2. ASSUME NEW q \in Prefixes, NEW h \in Gens, Subscribe(q, h) \in Waiting'
        PROVE  life'[h] # "none" /\ active'[q] < h
    <3>1. life[h] # "none" /\ active[q] < h
      BY <1>4, <2>2 DEF Heads
    <3>2. None < h
      BY DEF None, Gens
    <3> QED
      BY <1>8, <1>9, <3>1, <3>2
  <2>3. ASSUME NEW q \in Prefixes, NEW h \in Gens, Unsubscribe(q, h) \in Waiting'
        PROVE  Subscribe(q, h) \in Waiting' \/ active'[q] = h
    <3>1. Subscribe(q, h) \in Waiting \/ active[q] = h
      BY <1>4, <2>3 DEF Heads
    <3>2. CASE q = p
      BY <1>3, <1>4, <1>7, <2>3, <3>1, <3>2
    <3>3. CASE q # p
      BY <1>4, <1>9, <3>1, <3>3
    <3> QED
      BY <3>2, <3>3
  <2>4. ASSUME NEW q \in Prefixes, NEW h \in Gens, slot'[q] = h
        PROVE  /\ Subscribe(q, h) \in Waiting' \/ active'[q] = h
               /\ Unsubscribe(q, h) \notin Waiting'
               /\ \A j \in Gens : Subscribe(q, j) \in Waiting' => j <= h
    <3>1. /\ Subscribe(q, h) \in Waiting \/ active[q] = h
          /\ Unsubscribe(q, h) \notin Waiting
          /\ \A j \in Gens : Subscribe(q, j) \in Waiting => j <= h
      BY <1>8, <2>4 DEF Heads
    <3>2. q = p => h # g
      BY <1>1, <1>3, <3>1
    <3> QED
      BY <1>4, <1>7, <1>9, <3>1, <3>2
  <2>5. ASSUME NEW q \in Prefixes, NEW h \in Gens, slot'[q] = None,
               Subscribe(q, h) \in Waiting' \/ active'[q] = h
        PROVE  \E j \in Gens : h <= j /\ Unsubscribe(q, j) \in Waiting'
    <3>1. slot[q] = None /\ (Subscribe(q, h) \in Waiting \/ active[q] = h) /\ (q = p => Subscribe(q, h) \in Waiting')
      BY <1>4, <1>6, <1>8, <1>9, <2>5
    <3>2. PICK j \in Gens : h <= j /\ Unsubscribe(q, j) \in Waiting
      BY <3>1 DEF Heads
    <3>3. ~(q = p /\ j = g)
      BY <1>3, <1>5, <1>6, <3>1, <3>2
    <3> QED
      BY <1>4, <3>2, <3>3
  <2> QED
    BY <2>1, <2>2, <2>3, <2>4, <2>5 DEF Heads
<1> QED
  BY <1>1, <1>10, <1>11 DEF Settling

\* What a pull sends is not of this queue.
LEMMA PullSends ==
  ASSUME Queued, InOrder, NEW c \in Commands, c.kind \in {"ended", "event"},
         commands' = Append(commands, c), deferred' = deferred
  PROVE  InOrder' /\ Waiting' = Waiting
<1>1. c \notin Interest
  BY InterestForm
<1>2. \A d \in Waiting : Older(d, c)
  BY <1>1 DEF Older
<1> QED
  BY <1>1, <1>2, PutOrder

LEMMA SettlingStep ==
  ASSUME UpstreamNamespacesAssumption, Queued, Settling, [Next]_vars
  PROVE  Settling'
<1> USE DEF Settling
<1>1. ASSUME NEW p \in Prefixes, NewLease(p) PROVE Settling'
  BY <1>1, NewSettling
<1>2. ASSUME NEW g \in Gens, DropInterest(g) PROVE Settling'
  BY <1>2, DropSettling
<1>3. ASSUME AddInterest PROVE Settling'
  BY <1>3, AddSettling
<1>4. ASSUME RemoveInterest PROVE Settling'
  BY <1>4, RemoveSettling
<1>5. ASSUME Defer PROVE Settling'
  <2>1. UNCHANGED <<slot, prefixOf, life, active>>
    BY <1>5 DEF Defer, leases
  <2> QED
    BY <1>5, <2>1, DeferOrder, StillSettling
<1>6. ASSUME PullEvent \/ PullEnded PROVE Settling'
  <2>1. /\ commands # <<>> /\ Command = Head(commands) /\ Command.kind \in {"event", "ended"}
        /\ commands' = Tail(commands) /\ deferred' = deferred
        /\ UNCHANGED <<slot, prefixOf, life, active>>
    BY <1>6 DEF PullEvent, PullEnded, Command, leases
  <2>2. Head(commands) \notin Interest
    BY <2>1, InterestForm
  <2> QED
    BY <2>1, <2>2, SkipOrder, StillSettling
<1>7. ASSUME NEW g \in Gens, Release(g) PROVE Settling'
  <2>1. UNCHANGED <<commands, deferred>>
    BY <1>7 DEF Release, runner
  <2>2. InOrder' /\ Waiting' = Waiting
    BY <2>1 DEF InOrder, Waiting, Older
  <2> QED
    BY <1>7, <2>2, ReleaseSettling
<1>8. ASSUME NEW k \in Pulls, Cancelled(k) \/ Drained(k) \/ StreamEnds(k) PROVE Settling'
  <2>1. UNCHANGED <<slot, prefixOf, life, active, deferred>>
    BY <1>8 DEF Cancelled, Drained, StreamEnds, leases, runner
  <2>2. commands' = commands \/ commands' = Append(commands, [kind |-> "ended", pull |-> k])
    BY <1>8 DEF Cancelled, Drained, StreamEnds, Send
  <2>3. InOrder' /\ Waiting' = Waiting
    <3>1. CASE commands' = commands
      BY <2>1, <3>1 DEF InOrder, Waiting, Older
    <3>2. CASE commands' = Append(commands, [kind |-> "ended", pull |-> k])
      <4> DEFINE c == [kind |-> "ended", pull |-> k]
      <4>1. c \in Commands /\ c.kind = "ended"
        BY DEF Commands
      <4> HIDE DEF c
      <4> QED
        BY <2>1, <3>2, <4>1, PullSends DEF c
    <3> QED
      BY <2>2, <3>1, <3>2
  <2> QED
    BY <2>1, <2>3, StillSettling
<1>9. ASSUME NEW k \in Pulls, NEW n \in Namespaces, Event(k, n) PROVE Settling'
  <2>1. UNCHANGED <<slot, prefixOf, life, active, deferred>>
    BY <1>9 DEF Event, leases, runner
  <2>2. commands' = Append(commands, [kind |-> "event", pull |-> k, ns |-> n, added |-> n \notin told[k]])
    BY <1>9 DEF Event, Send
  <2> DEFINE c == [kind |-> "event", pull |-> k, ns |-> n, added |-> n \notin told[k]]
  <2>3. c \in Commands /\ c.kind = "event"
    BY DEF Commands
  <2> HIDE DEF c
  <2>4. InOrder' /\ Waiting' = Waiting
    BY <2>1, <2>2, <2>3, PullSends DEF c
  <2> QED
    BY <2>1, <2>4, StillSettling
<1>10. ASSUME \/ \E p \in Prefixes : ShareLease(p)
              \/ \E k \in Pulls : Accepted(k) \/ Retry(k) \/ Rejected(k)
              \/ \E r \in Relays, n \in Namespaces : UpstreamChanges(r, n)
              \/ UNCHANGED vars
       PROVE  Settling'
  <2>1. UNCHANGED <<slot, prefixOf, life, active, commands, deferred>>
    BY <1>10 DEF ShareLease, Accepted, Retry, Rejected, UpstreamChanges, vars, leases, runner
  <2>2. InOrder' /\ Waiting' = Waiting
    BY <2>1 DEF InOrder, Waiting, Older
  <2> QED
    BY <2>1, <2>2, StillSettling
<1> QED
  BY <1>1, <1>2, <1>3, <1>4, <1>5, <1>6, <1>7, <1>8, <1>9, <1>10 DEF Next, Runner, Pull

LEMMA SettlingHolds ==
  ASSUME UpstreamNamespacesAssumption
  PROVE  Spec => []Settling
<1>1. Init => Settling
  <2> SUFFICES ASSUME Init PROVE Settling
    OBVIOUS
  <2>1. commands = <<>> /\ deferred = <<>> /\ Waiting = {}
    BY DEF Init, Waiting
  <2>2. Leased
    <3>1. 0 \in 0 .. MaxLeases /\ \A g \in Gens : ~(g <= 0)
      BY DEF Gens, UpstreamNamespacesAssumption
    <3> QED
      BY <3>1 DEF Init, Leased
  <2>3. \A g \in Gens : g # None
    BY DEF Gens, None
  <2> QED
    BY <2>1, <2>2, <2>3 DEF Init, Settling, InOrder, Heads
<1>2. Queued /\ Settling /\ [Next]_vars => Settling'
  BY SettlingStep
<1> QED
  BY <1>1, <1>2, InvHolds, PTL DEF Spec

(* When the runner has nothing left to do it is interested in exactly the    *)
(* prefixes that are leased, however the last drop of a lease races the next *)
(* subscribe of its prefix, and whatever was deferred meanwhile (subscribe,  *)
(* PrefixInterest::drop, add_interest, remove_interest).                     *)
THEOREM Follows == UpstreamNamespacesAssumption /\ Spec => []InterestsFollowLeases
<1> SUFFICES ASSUME UpstreamNamespacesAssumption PROVE Spec => []InterestsFollowLeases
  OBVIOUS
<1>1. Queued /\ Settling => InterestsFollowLeases
  <2> SUFFICES ASSUME Queued, Settling, commands = <<>>, deferred = <<>>, \A g \in Gens : life[g] # "dropping"
               PROVE  Interests = {p \in Prefixes : \E g \in Gens : life[g] = "live" /\ prefixOf[g] = p}
    BY DEF InterestsFollowLeases
  <2>1. Waiting = {}
    BY DEF Waiting
  <2>2. ASSUME NEW p \in Prefixes, active[p] # None PROVE \E g \in Gens : life[g] = "live" /\ prefixOf[g] = p
    <3>1. slot[p] # None
      BY <2>1, <2>2 DEF Settling, Heads, Queued
    <3> QED
      BY <3>1 DEF Settling, Leased
  <2>3. ASSUME NEW g \in Gens, life[g] = "live" PROVE active[prefixOf[g]] # None
    <3>1. slot[prefixOf[g]] = g /\ prefixOf[g] \in Prefixes
      BY <2>3 DEF Settling, Leased, Queued
    <3> QED
      BY <2>1, <3>1 DEF Settling, Heads, Gens, None
  <2> QED
    BY <2>2, <2>3 DEF Interests
<1> QED
  BY <1>1, InvHolds, SettlingHolds, PTL

-----------------------------------------------------------------------------
(* What is registered for a pull is what it was told                         *)

IsEvent(c, k, n) == c.kind = "event" /\ c.pull = k /\ c.ns = n

\* The last event about n that waits agrees with what the pull was told, and
\* without one the sources do.
Caught(cmds, k, n, src, tld) ==
  /\ (\A i \in DOMAIN cmds : ~IsEvent(cmds[i], k, n)) => (n \in src <=> n \in tld)
  /\ \A i \in DOMAIN cmds :
       ( IsEvent(cmds[i], k, n) /\ \A j \in DOMAIN cmds : i < j => ~IsEvent(cmds[j], k, n) )
         => (cmds[i].added <=> n \in tld)

Heard ==
  /\ told \in [Pulls -> SUBSET Namespaces] /\ cancelled \in [Pulls -> BOOLEAN]
  /\ transition.old \subseteq {k \in Pulls : cancelled[k]}
  /\ \A k \in Pulls : ~Born(k) => told[k] = {}
  /\ \A k \in Pulls : sources[k] # {} => k \in pulls[pullRoot[k]]
  /\ \A k \in Pulls, n \in Namespaces :
       Active(k) /\ ~cancelled[k] => Caught(commands, k, n, sources[k], told[k])

LEMMA CaughtPut ==
  ASSUME NEW cmds \in Seq(Commands), NEW c \in Commands, NEW k, NEW n, NEW src, NEW tld, NEW tld2,
         Caught(cmds, k, n, src, tld),
         IF IsEvent(c, k, n) THEN c.added <=> n \in tld2 ELSE n \in tld2 <=> n \in tld
  PROVE  Caught(Append(cmds, c), k, n, src, tld2)
<1> HIDE DEF Commands
<1> DEFINE cmds2 == Append(cmds, c)
           m == Len(cmds) + 1
<1>1. /\ Len(cmds) \in Nat /\ m \in DOMAIN cmds2 /\ cmds2[m] = c
      /\ \A i \in DOMAIN cmds : i \in DOMAIN cmds2 /\ cmds2[i] = cmds[i]
      /\ \A i \in DOMAIN cmds2 : i \in Nat /\ (i \in DOMAIN cmds \/ i = m) /\ i <= m
      /\ \A i \in DOMAIN cmds : i <= Len(cmds) /\ i < m
  BY AppendFacts
<1> HIDE DEF cmds2, m
<1>2. CASE IsEvent(c, k, n)
  <2>1. ASSUME NEW i \in DOMAIN cmds2, \A j \in DOMAIN cmds2 : i < j => ~IsEvent(cmds2[j], k, n)
        PROVE  i = m
    BY <1>1, <1>2, <2>1
  <2> QED
    BY <1>1, <1>2, <2>1 DEF Caught, cmds2
<1>3. CASE ~IsEvent(c, k, n)
  <2>1. (\A i \in DOMAIN cmds2 : ~IsEvent(cmds2[i], k, n)) => \A i \in DOMAIN cmds : ~IsEvent(cmds[i], k, n)
    BY <1>1
  <2>2. ASSUME NEW i \in DOMAIN cmds2, IsEvent(cmds2[i], k, n),
               \A j \in DOMAIN cmds2 : i < j => ~IsEvent(cmds2[j], k, n)
        PROVE  cmds2[i].added <=> n \in tld2
    <3>1. i \in DOMAIN cmds /\ cmds2[i] = cmds[i]
      BY <1>1, <1>3, <2>2
    <3>2. \A j \in DOMAIN cmds : i < j => ~IsEvent(cmds[j], k, n)
      BY <1>1, <2>2
    <3> QED
      BY <1>3, <2>2, <3>1, <3>2 DEF Caught
  <2> QED
    BY <1>3, <2>1, <2>2 DEF Caught, cmds2
<1> QED
  BY <1>2, <1>3

LEMMA CaughtTail ==
  ASSUME NEW cmds \in Seq(Commands), cmds # <<>>, NEW k, NEW n, NEW src, NEW src2, NEW tld,
         Caught(cmds, k, n, src, tld),
         IF IsEvent(Head(cmds), k, n) THEN n \in src2 <=> Head(cmds).added ELSE n \in src2 <=> n \in src
  PROVE  Caught(Tail(cmds), k, n, src2, tld)
<1> HIDE DEF Commands
<1> DEFINE cmds2 == Tail(cmds)
<1>1. /\ 1 \in DOMAIN cmds /\ Head(cmds) = cmds[1]
      /\ \A i \in DOMAIN cmds2 : i \in Nat \ {0} /\ i + 1 \in DOMAIN cmds /\ cmds2[i] = cmds[i + 1]
      /\ \A j \in DOMAIN cmds : j \in Nat /\ (j = 1 \/ (j > 1 /\ j - 1 \in DOMAIN cmds2 /\ cmds2[j - 1] = cmds[j]))
  BY TailFacts
<1> HIDE DEF cmds2
<1>2. (\A i \in DOMAIN cmds2 : ~IsEvent(cmds2[i], k, n)) =>
        \A j \in DOMAIN cmds : 1 < j => ~IsEvent(cmds[j], k, n)
  <2> SUFFICES ASSUME \A i \in DOMAIN cmds2 : ~IsEvent(cmds2[i], k, n), NEW j \in DOMAIN cmds, 1 < j
               PROVE  ~IsEvent(cmds[j], k, n)
    OBVIOUS
  <2>1. j - 1 \in DOMAIN cmds2 /\ cmds2[j - 1] = cmds[j]
    BY <1>1
  <2> QED
    BY <2>1
<1>3. (\A i \in DOMAIN cmds2 : ~IsEvent(cmds2[i], k, n)) => (n \in src2 <=> n \in tld)
  <2> SUFFICES ASSUME \A j \in DOMAIN cmds : 1 < j => ~IsEvent(cmds[j], k, n)
               PROVE  n \in src2 <=> n \in tld
    BY <1>2
  <2>1. CASE IsEvent(Head(cmds), k, n)
    BY <1>1, <2>1 DEF Caught
  <2>2. CASE ~IsEvent(Head(cmds), k, n)
    <3>1. \A j \in DOMAIN cmds : ~IsEvent(cmds[j], k, n)
      BY <1>1, <2>2
    <3> QED
      BY <2>2, <3>1 DEF Caught
  <2> QED
    BY <2>1, <2>2
<1>4. ASSUME NEW i \in DOMAIN cmds2, IsEvent(cmds2[i], k, n),
             \A j \in DOMAIN cmds2 : i < j => ~IsEvent(cmds2[j], k, n)
      PROVE  cmds2[i].added <=> n \in tld
  <2>1. ASSUME NEW j \in DOMAIN cmds, i + 1 < j PROVE ~IsEvent(cmds[j], k, n)
    <3>1. j - 1 \in DOMAIN cmds2 /\ i < j - 1 /\ cmds2[j - 1] = cmds[j]
      BY <1>1, <2>1
    <3> QED
      BY <1>4, <3>1
  <2> QED
    BY <1>1, <1>4, <2>1 DEF Caught
<1> QED
  BY <1>3, <1>4 DEF Caught, cmds2

\* A step of which pull k hears nothing new.
LEMMA HeardKeeps ==
  ASSUME UpstreamNamespacesAssumption, Queued, Rooted, Sent, Heard,
         told' = told, cancelled' \in [Pulls -> BOOLEAN], \A k \in Pulls : cancelled[k] => cancelled'[k],
         transition'.old \subseteq {k \in Pulls : cancelled'[k]},
         \/ commands' = commands
         \/ commands # <<>> /\ Head(commands).kind # "event" /\ commands' = Tail(commands)
         \/ \E c \in Commands : c.kind # "event" /\ commands' = Append(commands, c),
         \A k \in Pulls : Born(k) => Born(k)' /\ pullRoot'[k] = pullRoot[k] /\ (Active(k)' => Active(k)),
         \A k \in Pulls :
           \/ sources'[k] = sources[k] /\ (Born(k) /\ k \in pulls[pullRoot[k]] => k \in pulls'[pullRoot[k]])
           \/ sources'[k] = {} /\ Born(k) /\ (~Active(k)' \/ cancelled'[k])
  PROVE  Heard'
<1>1. commands \in Seq(Commands)
  BY DEF Queued
<1>2. \A k \in Pulls : ~Born(k)' => told'[k] = {}
  BY DEF Heard
<1>3. \A k \in Pulls : ~Born(k) => sources[k] = {} /\ told[k] = {}
  BY DEF Heard, Rooted, Placed
<1>4. \A k \in Pulls : sources'[k] # {} => k \in pulls'[pullRoot'[k]]
  BY <1>3 DEF Heard
<1>5. ASSUME NEW k \in Pulls, NEW n \in Namespaces, Active(k)', ~cancelled'[k]
      PROVE  Caught(commands', k, n, sources'[k], told'[k])
  <2>1. Caught(commands, k, n, sources[k], told[k])
    <3>1. CASE Born(k)
      BY <1>5, <3>1 DEF Heard
    <3>2. CASE ~Born(k)
      <4> HIDE DEF Commands
      <4>1. \A i \in DOMAIN commands : ~IsEvent(commands[i], k, n)
        BY <3>2 DEF Sent, Fits, IsEvent, Born
      <4> QED
        BY <1>3, <3>2, <4>1 DEF Caught
    <3> QED
      BY <3>1, <3>2
  <2>2. sources'[k] = sources[k]
    BY <1>5
  <2>3. CASE commands' = commands
    BY <2>1, <2>2, <2>3
  <2>4. CASE commands # <<>> /\ Head(commands).kind # "event" /\ commands' = Tail(commands)
    <3>1. ~IsEvent(Head(commands), k, n)
      BY <2>4 DEF IsEvent
    <3> HIDE DEF Commands
    <3> QED
      BY <1>1, <2>1, <2>2, <2>4, <3>1, CaughtTail
  <2>5. ASSUME NEW c \in Commands, c.kind # "event", commands' = Append(commands, c)
        PROVE  Caught(commands', k, n, sources'[k], told'[k])
    <3>1. ~IsEvent(c, k, n)
      BY <2>5 DEF IsEvent
    <3> HIDE DEF Commands
    <3> QED
      BY <1>1, <2>1, <2>2, <2>5, <3>1, CaughtPut
  <2> QED
    BY <2>3, <2>4, <2>5
<1> QED
  BY <1>2, <1>4, <1>5 DEF Heard

\* apply_delta cancels the pulls whose sources it takes.
LEMMA ApplyCancels ==
  ASSUME UpstreamNamespacesAssumption, Rooted, Heard, NEW delta, delta.added \subseteq Prefixes,
         delta.removed \subseteq Prefixes, ApplyDelta(delta)
  PROVE  /\ told' = told /\ cancelled' \in [Pulls -> BOOLEAN] /\ \A k \in Pulls : cancelled[k] => cancelled'[k]
         /\ transition'.old \subseteq {k \in Pulls : cancelled'[k]}
         /\ \A k \in Pulls :
              \/ sources'[k] = sources[k] /\ (Born(k) /\ k \in pulls[pullRoot[k]] => k \in pulls'[pullRoot[k]])
              \/ sources'[k] = {} /\ Born(k) /\ (phase[k] = "gone" \/ cancelled'[k])
<1> DEFINE A == delta.added
           R == {p \in delta.removed : root[p] = "live"}
           old == UNION {pulls[p] : p \in R}
           root1 == [p \in Prefixes |-> IF p \in A THEN "live"
                                       ELSE IF p \in R THEN "retiring" ELSE root[p]]
<1>1. PICK named \in [A -> SUBSET Relays], late \in SUBSET Ending :
        LET sent == {k \in old : phase[k] # "gone"} \cup late IN
        /\ late \subseteq old
        /\ cancelled' = [k \in Pulls |-> cancelled[k] \/ k \in sent]
        /\ sources' = [k \in Pulls |-> IF k \in old THEN {} ELSE sources[k]]
        /\ Advance([old     |-> sent,
                    started |-> {},
                    targets |-> [r \in Relays |-> {p \in A : r \in named[p]}],
                    removed |-> R],
                   [p \in Prefixes |-> IF p \in R THEN pulls[p] \cap sent ELSE pulls[p]],
                   phase, root1, [p \in Prefixes |-> Transfer(p, R, A)])
        /\ told' = told
  BY DEF ApplyDelta
<1> DEFINE sent == {k \in old : phase[k] # "gone"} \cup late
           t == [old |-> sent, started |-> {},
                 targets |-> [r \in Relays |-> {p \in A : r \in named[p]}], removed |-> R]
           pulls1 == [p \in Prefixes |-> IF p \in R THEN pulls[p] \cap sent ELSE pulls[p]]
           T == {pr \in Prefixes \X Relays : pr[2] \in Ready(t) /\ pr[1] \in t.targets[pr[2]]}
<1>2. old \subseteq Pulls /\ sent \subseteq old /\ \A k \in old : Born(k)
  BY <1>1 DEF Rooted, PullTypes
<1>3. cancelled' \in [Pulls -> BOOLEAN] /\ \A k \in Pulls : cancelled'[k] <=> cancelled[k] \/ k \in sent
  BY <1>1 DEF Heard
<1>4. transition' = (IF t.old = {} THEN NoTransition ELSE [t EXCEPT !.started = @ \cup Ready(t)])
      /\ StartPulls(T, pulls1, phase)
  BY <1>1 DEF Advance
<1>5. transition'.old \subseteq sent
  BY <1>4 DEF NoTransition
<1>6. pulls1 \in [Prefixes -> SUBSET Pulls] /\ T \in SUBSET (Prefixes \X Relays) /\ PullTypes
  BY DEF Rooted, PullTypes
<1>7. \A p \in Prefixes : pulls1[p] \subseteq pulls'[p]
  <2> HIDE DEF T, pulls1
  <2> QED
    BY <1>4, <1>6, StartFacts
<1>8. \A k \in Pulls : sources'[k] = IF k \in old THEN {} ELSE sources[k]
  BY <1>1
<1>9. ASSUME NEW k \in Pulls, k \notin old, Born(k), k \in pulls[pullRoot[k]] PROVE k \in pulls'[pullRoot[k]]
  <2>1. pullRoot[k] \in Prefixes
    BY <1>9 DEF Rooted, PullTypes
  <2>2. pullRoot[k] \notin R
    BY <1>9
  <2> QED
    BY <1>7, <1>9, <2>1, <2>2
<1>10. \A k \in old : phase[k] = "gone" \/ k \in sent
  OBVIOUS
<1> HIDE DEF old, sent
<1> QED
  BY <1>1, <1>2, <1>3, <1>5, <1>8, <1>9, <1>10

LEMMA AddHeard ==
  ASSUME UpstreamNamespacesAssumption, Queued, Rooted, Sent, Broad, Broad', Heard,
         AddInterest \/ RemoveInterest
  PROVE  Heard'
<1>1. \A k \in Pulls : Born(k) => phase'[k] = phase[k] /\ pullRoot'[k] = pullRoot[k]
  BY AddRooted
<1>2. \A k \in Pulls : Born(k) => Born(k)' /\ pullRoot'[k] = pullRoot[k] /\ (Active(k)' => Active(k))
  BY <1>1 DEF Born, Active
<1>3. \/ commands' = commands
      \/ commands # <<>> /\ Head(commands).kind # "event" /\ commands' = Tail(commands)
  BY DEF AddInterest, RemoveInterest, Take, HasCommand, Command
<1>4. CASE Ignored
  BY <1>2, <1>3, <1>4, HeardKeeps DEF Ignored, tasks, Heard
<1>5. ASSUME NEW delta, delta.added \subseteq Prefixes, delta.removed \subseteq Prefixes, Apply(delta)
      PROVE  Heard'
  <2>1. CASE delta = Covering!NoDelta
    BY <1>2, <1>3, <1>5, <2>1, HeardKeeps DEF Apply, tasks, Heard
  <2>2. CASE delta # Covering!NoDelta
    <3>1. ApplyDelta(delta)
      BY <1>5, <2>2 DEF Apply
    <3>2. /\ told' = told /\ cancelled' \in [Pulls -> BOOLEAN] /\ \A k \in Pulls : cancelled[k] => cancelled'[k]
          /\ transition'.old \subseteq {k \in Pulls : cancelled'[k]}
          /\ \A k \in Pulls :
               \/ sources'[k] = sources[k] /\ (Born(k) /\ k \in pulls[pullRoot[k]] => k \in pulls'[pullRoot[k]])
               \/ sources'[k] = {} /\ Born(k) /\ (phase[k] = "gone" \/ cancelled'[k])
      BY <1>5, <3>1, ApplyCancels
    <3>3. \A k \in Pulls : Born(k) /\ phase[k] = "gone" => ~Active(k)'
      BY <1>1 DEF Active
    <3>4. \A k \in Pulls :
            \/ sources'[k] = sources[k] /\ (Born(k) /\ k \in pulls[pullRoot[k]] => k \in pulls'[pullRoot[k]])
            \/ sources'[k] = {} /\ Born(k) /\ (~Active(k)' \/ cancelled'[k])
      BY <3>2, <3>3
    <3> QED
      BY <1>2, <1>3, <3>2, <3>4, HeardKeeps
  <2> QED
    BY <2>1, <2>2
<1>6. roots \subseteq Prefixes /\ Interests \subseteq Prefixes
  BY DEF Rooted, Served, Interests
<1>7. \A p \in Prefixes : /\ Covering!AddDelta(Interests, roots, p).added \subseteq Prefixes
                          /\ Covering!AddDelta(Interests, roots, p).removed \subseteq Prefixes
                          /\ Covering!RemoveDelta(Interests, roots, p).added \subseteq Prefixes
                          /\ Covering!RemoveDelta(Interests, roots, p).removed \subseteq Prefixes
  BY <1>6 DEF Covering!AddDelta, Covering!RemoveDelta, Covering!NoDelta
<1>8. \/ Ignored
      \/ \E p \in Prefixes \ Interests : Apply(Covering!AddDelta(Interests, roots, p))
      \/ \E p \in Interests : Apply(Covering!RemoveDelta(Interests, roots, p))
  BY AddStep, RemoveStep
<1> QED
  BY <1>4, <1>5, <1>6, <1>7, <1>8

LEMMA EndedHeard ==
  ASSUME UpstreamNamespacesAssumption, Queued, Rooted, Sent, Broad, Heard, PullEnded
  PROVE  Heard'
<1> DEFINE k == Command.pull
           p == pullRoot[k]
<1>1. Command = commands[1] /\ 1 \in DOMAIN commands /\ Command \in Commands /\ Command = Head(commands)
  <2>1. commands \in Seq(Commands) /\ commands # <<>> /\ Command = Head(commands)
    BY DEF PullEnded, Queued, Command
  <2> HIDE DEF Commands
  <2> QED
    BY <2>1
<1>2. k \in Pulls
  BY <1>1 DEF PullEnded, Commands, Interest
<1>3. Born(k) /\ phase[k] = "gone" /\ p \in Prefixes
  BY <1>1, <1>2 DEF PullEnded, Sent, Fits, Born, Rooted, PullTypes
<1>4. \A l \in Pulls : Born(l) => phase'[l] = phase[l] /\ pullRoot'[l] = pullRoot[l]
  BY BroadFacts, EndedRooted
<1>5. \A l \in Pulls : Born(l) => Born(l)' /\ pullRoot'[l] = pullRoot[l] /\ (Active(l)' => Active(l))
  BY <1>4 DEF Born, Active
<1>6. commands # <<>> /\ Head(commands).kind # "event" /\ commands' = Tail(commands)
  BY <1>1 DEF PullEnded
<1>7. CASE root[p] = "none"
  <2>1. Ignored
    BY <1>7 DEF PullEnded
  <2> QED
    BY <1>5, <1>6, <2>1, HeardKeeps DEF Ignored, tasks, Heard
<1>8. CASE root[p] # "none"
  <2> DEFINE pulls1 == [pulls EXCEPT ![p] = @ \ {k}]
             t == [transition EXCEPT !.old = @ \ {k}]
             T == {pr \in Prefixes \X Relays : pr[2] \in Ready(t) /\ pr[1] \in t.targets[pr[2]]}
  <2>1. /\ sources' = [sources EXCEPT ![k] = {}] /\ told' = told /\ cancelled' = cancelled
        /\ \/ Advance(t, pulls1, phase, root, retained)
           \/ pulls' = pulls1 /\ transition' = transition
    BY <1>8 DEF PullEnded
  <2>2. pulls1 \in [Prefixes -> SUBSET Pulls] /\ T \in SUBSET (Prefixes \X Relays) /\ PullTypes
        /\ \A q \in Prefixes : pulls[q] \ {k} \subseteq pulls1[q]
    BY DEF Rooted, PullTypes
  <2>3. \A q \in Prefixes : pulls1[q] \subseteq pulls'[q]
    <3>1. CASE Advance(t, pulls1, phase, root, retained)
      <4>1. StartPulls(T, pulls1, phase)
        BY <3>1 DEF Advance
      <4> HIDE DEF T, pulls1
      <4> QED
        BY <2>2, <4>1, StartFacts
    <3>2. CASE pulls' = pulls1
      BY <3>2
    <3> QED
      BY <2>1, <3>1, <3>2
  <2>4. transition'.old \subseteq transition.old
    <3>1. t.old \subseteq transition.old /\ t \in Transitions
      BY DEF Rooted, PullTypes, Transitions
    <3> HIDE DEF t
    <3> QED
      BY <2>1, <3>1 DEF Advance, NoTransition, Transitions
  <2> HIDE DEF pulls1, T, t, k, p
  <2>5. \A l \in Pulls :
          \/ sources'[l] = sources[l] /\ (Born(l) /\ l \in pulls[pullRoot[l]] => l \in pulls'[pullRoot[l]])
          \/ sources'[l] = {} /\ Born(l) /\ (~Active(l)' \/ cancelled'[l])
    <3>1. sources \in [Pulls -> SUBSET Namespaces]
      BY DEF Rooted, Placed
    <3>2. \A l \in Pulls : l = k => sources'[l] = {} /\ ~Active(l)'
      BY <1>2, <1>3, <1>4, <2>1, <3>1 DEF Active
    <3>3. ASSUME NEW l \in Pulls, l # k
          PROVE  sources'[l] = sources[l] /\ (Born(l) /\ l \in pulls[pullRoot[l]] => l \in pulls'[pullRoot[l]])
      <4>1. Born(l) => pullRoot[l] \in Prefixes
        BY DEF Rooted, PullTypes
      <4> QED
        BY <2>1, <2>2, <2>3, <3>1, <3>3, <4>1
    <3> QED
      BY <1>3, <3>2, <3>3
  <2>6. transition'.old \subseteq {l \in Pulls : cancelled'[l]} /\ cancelled' \in [Pulls -> BOOLEAN]
    BY <2>1, <2>4 DEF Heard
  <2> QED
    BY <1>5, <1>6, <2>1, <2>5, <2>6, HeardKeeps
<1> QED
  BY <1>7, <1>8

\* handle_pull_event, of a pull that was not cancelled: its root has it.
LEMMA EventHeard ==
  ASSUME UpstreamNamespacesAssumption, Queued, Rooted, Sent, Heard, PullEvent
  PROVE  Heard'
<1> DEFINE k == Command.pull
           n == Command.ns
           p == pullRoot[k]
<1>1. Command = commands[1] /\ 1 \in DOMAIN commands /\ Command \in Commands /\ Command = Head(commands)
      /\ commands \in Seq(Commands) /\ commands # <<>>
  <2>1. commands \in Seq(Commands) /\ commands # <<>> /\ Command = Head(commands)
    BY DEF PullEvent, Queued, Command
  <2> HIDE DEF Commands
  <2> QED
    BY <2>1
<1>2. k \in Pulls /\ n \in Namespaces /\ Command.kind = "event" /\ Command.added \in BOOLEAN
  BY <1>1 DEF PullEvent, Commands, Interest
<1>3. Born(k) /\ p \in Prefixes
  BY <1>1, <1>2 DEF PullEvent, Sent, Fits, Born, Rooted, PullTypes
<1>4. UNCHANGED <<pulls, transition, pullRoot, phase, cancelled, told>> /\ commands' = Tail(commands)
  BY DEF PullEvent, tasks
<1>5. Active(k) /\ ~cancelled[k] => Accepts(k)
  BY <1>2, <1>3 DEF Heard, Rooted, Homes, Served, Accepts
<1>6. sources \in [Pulls -> SUBSET Namespaces]
  BY DEF Rooted, Placed
<1>7. /\ \A l \in Pulls : l # k => sources'[l] = sources[l]
      /\ \A m : m # n => (m \in sources'[k] <=> m \in sources[k])
      /\ Accepts(k) => (n \in sources'[k] <=> Command.added)
      /\ sources'[k] # sources[k] => k \in pulls[p]
  <2>1. \/ Accepts(k) /\ Command.added /\ sources' = [sources EXCEPT ![k] = @ \cup {n}]
        \/ Accepts(k) /\ ~Command.added /\ sources' = [sources EXCEPT ![k] = @ \ {n}]
        \/ ~Accepts(k) /\ sources' = sources
    BY <1>2 DEF PullEvent
  <2>2. Accepts(k) => k \in pulls[p]
    BY DEF Accepts
  <2> HIDE DEF k, n, p
  <2> QED
    BY <1>2, <1>6, <2>1, <2>2
<1>8. ASSUME NEW l \in Pulls, NEW m \in Namespaces, Active(l), ~cancelled[l]
      PROVE  Caught(commands', l, m, sources'[l], told[l])
  <2>1. Caught(commands, l, m, sources[l], told[l])
    BY <1>8 DEF Heard
  <2>2. IsEvent(Head(commands), l, m) <=> l = k /\ m = n
    BY <1>1, <1>2 DEF IsEvent
  <2>3. IF IsEvent(Head(commands), l, m) THEN m \in sources'[l] <=> Head(commands).added
        ELSE m \in sources'[l] <=> m \in sources[l]
    BY <1>1, <1>5, <1>7, <1>8, <2>2
  <2> HIDE DEF Commands
  <2> QED
    BY <1>1, <1>4, <2>1, <2>3, CaughtTail
<1>9. \A l \in Pulls : sources'[l] # {} => l \in pulls'[pullRoot'[l]]
  BY <1>4, <1>7 DEF Heard
<1>10. \A l \in Pulls : (Active(l)' <=> Active(l)) /\ (Born(l)' <=> Born(l))
  BY <1>4 DEF Active, Born
<1> QED
  BY <1>4, <1>8, <1>9, <1>10 DEF Heard

\* A pull moves on, or somebody else does.
LEMMA OthersHeard ==
  ASSUME UpstreamNamespacesAssumption, Queued, Rooted, Sent, Heard,
         UNCHANGED <<pulls, sources, transition, pullRoot, cancelled, told>>,
         \A k \in Pulls : (Born(k)' <=> Born(k)) /\ (Active(k)' => Active(k)),
         \/ commands' = commands
         \/ commands # <<>> /\ Head(commands).kind # "event" /\ commands' = Tail(commands)
         \/ \E c \in Commands : c.kind # "event" /\ commands' = Append(commands, c)
  PROVE  Heard'
<1>1. cancelled' \in [Pulls -> BOOLEAN] /\ transition'.old \subseteq {k \in Pulls : cancelled'[k]}
  BY DEF Heard
<1> HIDE DEF Commands
<1> QED
  BY <1>1, HeardKeeps

\* handle.next(): the event is sent as the pull is told.
LEMMA TellHeard ==
  ASSUME Queued, Heard, NEW k \in Pulls, NEW n \in Namespaces, Event(k, n)
  PROVE  Heard'
<1> DEFINE c == [kind |-> "event", pull |-> k, ns |-> n, added |-> n \notin told[k]]
<1>1. c \in Commands /\ c.kind = "event" /\ c.pull = k /\ c.ns = n /\ (c.added <=> n \notin told[k])
  BY DEF Commands
<1>2. /\ UNCHANGED <<pulls, sources, transition, pullRoot, phase, cancelled>>
      /\ commands' = Append(commands, c) /\ commands \in Seq(Commands)
      /\ told' = [told EXCEPT ![k] = IF n \in @ THEN @ \ {n} ELSE @ \cup {n}]
      /\ told \in [Pulls -> SUBSET Namespaces] /\ phase[k] = "open"
  BY DEF Event, runner, Send, Queued, Heard
<1> HIDE DEF c, Commands
<1>3. told' \in [Pulls -> SUBSET Namespaces] /\ \A l \in Pulls, m \in Namespaces :
        m \in told'[l] <=> IF l = k /\ m = n THEN m \notin told[l] ELSE m \in told[l]
  BY <1>2
<1>4. ASSUME NEW l \in Pulls, NEW m \in Namespaces, Active(l), ~cancelled[l]
      PROVE  Caught(commands', l, m, sources[l], told'[l])
  <2>1. Caught(commands, l, m, sources[l], told[l])
    BY <1>4 DEF Heard
  <2>2. IsEvent(c, l, m) <=> l = k /\ m = n
    BY <1>1 DEF IsEvent
  <2>3. IF IsEvent(c, l, m) THEN c.added <=> m \in told'[l] ELSE m \in told'[l] <=> m \in told[l]
    BY <1>1, <1>3, <2>2
  <2> QED
    BY <1>1, <1>2, <2>1, <2>3, CaughtPut
<1>5. \A l \in Pulls : (Active(l)' <=> Active(l)) /\ (Born(l)' <=> Born(l))
  BY <1>2 DEF Active, Born
<1>6. \A l \in Pulls : ~Born(l) => told'[l] = {}
  BY <1>2 DEF Heard, Born
<1> QED
  BY <1>2, <1>3, <1>4, <1>5, <1>6 DEF Heard

LEMMA HeardStep ==
  ASSUME UpstreamNamespacesAssumption, Queued, Rooted, Sent, Broad, Broad', Heard, [Next]_vars
  PROVE  Heard'
<1>1. ASSUME AddInterest \/ RemoveInterest PROVE Heard'
  BY <1>1, AddHeard
<1>2. ASSUME PullEnded PROVE Heard'
  BY <1>2, EndedHeard
<1>3. ASSUME PullEvent PROVE Heard'
  BY <1>3, EventHeard
<1>4. ASSUME NEW k \in Pulls, NEW n \in Namespaces, Event(k, n) PROVE Heard'
  BY <1>4, TellHeard
<1>5. ASSUME Defer PROVE Heard'
  <2>1. /\ UNCHANGED <<pulls, sources, transition, pullRoot, cancelled, told, phase>>
        /\ commands # <<>> /\ Head(commands).kind # "event" /\ commands' = Tail(commands)
    BY <1>5 DEF Defer, tasks, Command, FromDeferred
  <2>2. \A k \in Pulls : (Born(k)' <=> Born(k)) /\ (Active(k)' => Active(k))
    BY <2>1 DEF Born, Active
  <2> QED
    BY <2>1, <2>2, OthersHeard
<1>6. ASSUME NEW k \in Pulls, Accepted(k) \/ Retry(k) \/ Rejected(k) \/ Cancelled(k) \/ Drained(k) \/ StreamEnds(k)
      PROVE  Heard'
  <2> DEFINE c == [kind |-> "ended", pull |-> k]
  <2>1. PICK to \in Phases \ {"none"} : OnlyPhase(k, to) /\ Active(k)
    BY <1>6 DEF Accepted, Retry, Rejected, Cancelled, Hears, Drained, StreamEnds, Phases, Active
  <2>2. UNCHANGED <<pulls, sources, transition, pullRoot, cancelled, told>>
    BY <1>6 DEF Accepted, Retry, Rejected, Cancelled, Drained, StreamEnds, OnlyPhase, runner
  <2>3. commands' = commands \/ commands' = Append(commands, c)
    BY <1>6 DEF Accepted, Retry, Rejected, Cancelled, Drained, StreamEnds, Send
  <2>4. c \in Commands /\ c.kind # "event"
    BY DEF Commands
  <2>5. \A l \in Pulls : phase'[l] = IF l = k THEN to ELSE phase[l]
    BY <2>1 DEF OnlyPhase, Rooted, PullTypes
  <2>6. \A l \in Pulls : (Born(l)' <=> Born(l)) /\ (Active(l)' => Active(l))
    BY <2>1, <2>5 DEF Born, Active
  <2> HIDE DEF c, Commands
  <2> QED
    BY <2>2, <2>3, <2>4, <2>6, OthersHeard
<1>7. ASSUME \/ \E p \in Prefixes : ShareLease(p) \/ NewLease(p)
             \/ \E g \in Gens : Release(g) \/ DropInterest(g)
             \/ \E r \in Relays, n \in Namespaces : UpstreamChanges(r, n)
             \/ UNCHANGED vars
      PROVE  Heard'
  <2>1. UNCHANGED <<pulls, sources, transition, pullRoot, cancelled, told, phase>>
    BY <1>7 DEF ShareLease, NewLease, Release, DropInterest, UpstreamChanges, vars, runner, tasks
  <2>2. commands' = commands \/ \E c \in Interest : commands' = Append(commands, c)
    <3>1. ASSUME NEW p \in Prefixes, NewLease(p) PROVE \E c \in Interest : commands' = Append(commands, c)
      <4>1. Created + 1 \in Gens
        BY <3>1, CreatedNat DEF NewLease, Gens, UpstreamNamespacesAssumption
      <4>2. [kind |-> "subscribe", prefix |-> p, gen |-> Created + 1] \in Interest
        BY <4>1 DEF Interest
      <4> QED
        BY <3>1, <4>2 DEF NewLease
    <3>2. ASSUME NEW g \in Gens, DropInterest(g)
          PROVE  commands' = commands \/ \E c \in Interest : commands' = Append(commands, c)
      <4>1. [kind |-> "unsubscribe", prefix |-> prefixOf[g], gen |-> g] \in Interest
        BY <3>2 DEF DropInterest, Queued, Interest
      <4> QED
        BY <3>2, <4>1 DEF DropInterest
    <3> QED
      BY <1>7, <3>1, <3>2 DEF ShareLease, Release, UpstreamChanges, vars
  <2>3. \A c \in Interest : c \in Commands /\ c.kind # "event"
    BY InterestForm DEF Commands
  <2>4. \A k \in Pulls : (Born(k)' <=> Born(k)) /\ (Active(k)' => Active(k))
    BY <2>1 DEF Born, Active
  <2> HIDE DEF Commands
  <2> QED
    BY <2>1, <2>2, <2>3, <2>4, OthersHeard
<1> QED
  BY <1>1, <1>2, <1>3, <1>4, <1>5, <1>6, <1>7 DEF Next, Runner, Pull

LEMMA HeardHolds ==
  ASSUME UpstreamNamespacesAssumption
  PROVE  Spec => []Heard
<1>1. Init => Heard
  <2> SUFFICES ASSUME Init PROVE Heard
    OBVIOUS
  <2>1. \A k \in Pulls : ~Active(k) /\ sources[k] = {} /\ told[k] = {}
    BY DEF Init, Active
  <2> QED
    BY <2>1 DEF Init, Heard, NoTransition
<1>2. Queued /\ Rooted /\ Sent /\ Broad /\ Broad' /\ Heard /\ [Next]_vars => Heard'
  BY HeardStep
<1> QED
  BY <1>1, <1>2, InvHolds, PTL DEF Spec

(* When nothing of a pull is on its way, what it was told is registered for  *)
(* it, and nothing else is (handle_pull_event, transfer_registration).       *)
THEOREM SourcesFollow == UpstreamNamespacesAssumption /\ Spec => []SourcesFollowPull
<1> SUFFICES ASSUME UpstreamNamespacesAssumption PROVE Spec => []SourcesFollowPull
  OBVIOUS
<1>1. Rooted /\ Heard => SourcesFollowPull
  <2> SUFFICES ASSUME Rooted, Heard, NEW k \in Pulls, phase[k] = "open", ~cancelled[k],
                      \A i \in DOMAIN commands : commands[i].kind = "event" => commands[i].pull # k
               PROVE  sources[k] = told[k]
    BY DEF SourcesFollowPull
  <2>1. \A n \in Namespaces : Caught(commands, k, n, sources[k], told[k])
    BY DEF Heard, Active
  <2>2. \A n \in Namespaces : \A i \in DOMAIN commands : ~IsEvent(commands[i], k, n)
    BY DEF IsEvent
  <2>3. \A n \in Namespaces : n \in sources[k] <=> n \in told[k]
    BY <2>1, <2>2 DEF Caught
  <2>4. sources[k] \subseteq Namespaces /\ told[k] \subseteq Namespaces
    BY DEF Rooted, Placed, Heard
  <2> QED
    BY <2>3, <2>4
<1> QED
  BY <1>1, InvHolds, HeardHolds, PTL

\* An interest that lives has a holder.
Counts ==
  /\ holders \in [Gens -> 0 .. MaxHolders]
  /\ \A g \in Gens : life[g] = "live" => holders[g] # 0

LEMMA CountsStep ==
  ASSUME UpstreamNamespacesAssumption, Queued, Leased, Counts, [Next]_vars
  PROVE  Counts'
<1> USE DEF UpstreamNamespacesAssumption
<1>1. ASSUME NEW p \in Prefixes, ShareLease(p) PROVE Counts'
  <2>1. slot[p] \in Gens
    BY <1>1 DEF ShareLease, Leased
  <2> QED
    BY <1>1, <2>1 DEF ShareLease, Counts
<1>2. ASSUME NEW p \in Prefixes, NewLease(p) PROVE Counts'
  <2>1. Created + 1 \in Gens
    BY <1>2, CreatedNat DEF NewLease, Gens
  <2> HIDE DEF Created
  <2> QED
    BY <1>2, <2>1 DEF NewLease, Counts, Queued
<1>3. ASSUME NEW g \in Gens, Release(g) PROVE Counts'
  BY <1>3 DEF Release, Counts, Queued
<1>4. ASSUME NEW g \in Gens, DropInterest(g) PROVE Counts'
  BY <1>4 DEF DropInterest, Counts, Queued
<1>5. ASSUME UNCHANGED <<holders, life>> PROVE Counts'
  BY <1>5 DEF Counts
<1>6. Runner \/ UNCHANGED vars \/ (\E r \in Relays, n \in Namespaces : UpstreamChanges(r, n))
        => UNCHANGED <<holders, life>>
  BY DEF Runner, Defer, AddInterest, RemoveInterest, PullEvent, PullEnded, UpstreamChanges, vars, leases
<1>7. \A k \in Pulls :
        Pull(k) \/ Rejected(k) \/ StreamEnds(k) \/ (\E n \in Namespaces : Event(k, n))
          => UNCHANGED <<holders, life>>
  BY DEF Pull, Accepted, Retry, Cancelled, Drained, Rejected, StreamEnds, Event, leases
<1> QED
  BY <1>1, <1>2, <1>3, <1>4, <1>5, <1>6, <1>7 DEF Next

(* Types, with which root a pull belongs to and which pulls are cancelled    *)
(* (LeaseRegistry, RootState, Transition).                                   *)
THEOREM TypeCorrect == UpstreamNamespacesAssumption /\ Spec => []TypeOK
<1> SUFFICES ASSUME UpstreamNamespacesAssumption PROVE Spec => []TypeOK
  OBVIOUS
<1>1. Init => Counts
  BY DEF Init, Counts, UpstreamNamespacesAssumption
<1>2. Queued /\ Settling /\ Counts /\ [Next]_vars => Counts'
  BY CountsStep DEF Settling
<1>3. Queued /\ Rooted /\ Settling /\ Heard /\ Counts => TypeOK
  <2> SUFFICES ASSUME Queued, Rooted, Settling, Heard, Counts PROVE TypeOK
    OBVIOUS
  <2>1. slot \in [Prefixes -> Gens \cup {None}] /\ holders \in [Gens -> 0 .. MaxHolders]
        /\ life \in [Gens -> {"none", "live", "dropping", "dead"}] /\ active \in [Prefixes -> Gens \cup {None}]
    BY DEF Settling, Leased, Counts, Queued
  <2>2. roots \subseteq Prefixes /\ root \in [Prefixes -> {"none", "live", "retiring"}]
        /\ phase \in [Pulls -> {"none", "opening", "open", "backoff", "draining", "gone"}]
    BY DEF Rooted, Served, PullTypes, Phases
  <2>3. \A p \in Prefixes : pulls[p] \subseteq {k \in 1 .. started : pullRoot[k] = p}
    BY DEF Rooted, PullTypes, Pulls
  <2>4. (\A k \in Pulls : sources[k] # {} => k \in pulls[pullRoot[k]])
        /\ transition.old \subseteq {k \in Pulls : cancelled[k]}
    BY DEF Heard
  <2> QED
    BY <2>1, <2>2, <2>3, <2>4 DEF TypeOK
<1> QED
  BY <1>1, <1>2, <1>3, InvHolds, SettlingHolds, HeardHolds, PTL DEF Spec
=============================================================================
