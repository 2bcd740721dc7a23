-------------------------- MODULE PathPolicyProofs --------------------------
(* Theorems about the allowlist, for every finite set of paths and every    *)
(* set of contents and of rules.                                            *)
EXTENDS PathPolicy, FiniteSetTheorems, TLAPS

-----------------------------------------------------------------------------
(* filepath.Clean *)

\* A set of natural numbers that is not empty has a least element.
LEMMA LeastNumber ==
    ASSUME NEW T, T \subseteq Nat, T # {}
    PROVE  \E n \in T : \A m \in T : n <= m
<1>1. PICK n \in T : \A m \in T : ~(<<m, n>> \in OpToRel(<, Nat))
  BY NatLessThanWellFounded, WFMin
<1>2. \A m \in T : ~(m < n)
  BY <1>1 DEF OpToRel
<1> QED
  BY <1>2

\* The values Clean takes after each segment, as it defines them.
IsCleaning(clean, segments) ==
    clean = [i \in 0..Len(segments) |->
                IF i = 0 THEN <<>> ELSE CleanStep(clean[i - 1], segments[i])]

LEMMA CleaningIsUnique ==
    ASSUME NEW segments \in Seq(STRING), NEW p, NEW q,
           IsCleaning(p, segments), IsCleaning(q, segments)
    PROVE  p = q
<1> DEFINE T == {n \in 0..Len(segments) : p[n] # q[n]}
<1>1. \A i \in 0..Len(segments) :
        /\ p[i] = IF i = 0 THEN <<>> ELSE CleanStep(p[i - 1], segments[i])
        /\ q[i] = IF i = 0 THEN <<>> ELSE CleanStep(q[i - 1], segments[i])
  BY DEF IsCleaning
<1>2. T = {}
  <2> SUFFICES ASSUME T # {} PROVE FALSE
      OBVIOUS
  <2>1. T \subseteq Nat
    OBVIOUS
  <2>2. PICK n \in T : \A m \in T : n <= m
    BY <2>1, LeastNumber
  <2>3. n # 0
    BY <1>1
  <2>4. n - 1 \in 0..Len(segments) /\ n - 1 \notin T
    BY <2>2, <2>3
  <2> QED
    BY <1>1, <2>3, <2>4
<1>3. p = [i \in 0..Len(segments) |-> p[i]] /\ q = [i \in 0..Len(segments) |-> q[i]]
  BY DEF IsCleaning
<1> QED
  BY <1>2, <1>3

\* filepath.Clean leaves a path without the segments "." and ".." as it is.
LEMMA CleanPathStays ==
    ASSUME NEW path \in Seq(STRING), \A i \in DOMAIN path : path[i] \notin {".", ".."}
    PROVE  Clean(path) = path
<1> DEFINE prefixes == [i \in 0..Len(path) |-> SubSeq(path, 1, i)]
<1>1. \A i \in 0..Len(path) :
        prefixes[i] = IF i = 0 THEN <<>> ELSE CleanStep(prefixes[i - 1], path[i])
  <2> SUFFICES ASSUME NEW i \in 1..Len(path)
               PROVE  SubSeq(path, 1, i) = CleanStep(SubSeq(path, 1, i - 1), path[i])
      OBVIOUS
  <2>1. path[i] # "." /\ path[i] # ".."
    OBVIOUS
  <2>2. CleanStep(SubSeq(path, 1, i - 1), path[i]) = Append(SubSeq(path, 1, i - 1), path[i])
    BY <2>1 DEF CleanStep
  <2> QED
    BY <2>2
<1>2. IsCleaning(prefixes, path)
  BY <1>1 DEF IsCleaning
<1> HIDE DEF prefixes
<1>3. (CHOOSE clean : IsCleaning(clean, path)) = prefixes
  BY <1>2, CleaningIsUnique
<1>4. Clean(path) = (CHOOSE clean : IsCleaning(clean, path))[Len(path)]
  BY DEF Clean, IsCleaning
<1>5. prefixes[Len(path)] = path
  BY DEF prefixes
<1> QED
  BY <1>3, <1>4, <1>5

-----------------------------------------------------------------------------
(* What the rules permit *)

\* A prefix of a path has no segment "." or ".." either, so that a directory is
\* compared as it was written makes no difference.
LEMMA PermitsOnlyWithin ==
    ASSUME NEW rule \in Rules, NEW path \in Paths, Permits(rule, path)
    PROVE  Within(path, rule)
<1>1. CASE ~rule.slash
  BY <1>1 DEF Permits, Within
<1>2. CASE rule.slash
  <2>1. /\ Len(rule.path) <= Len(path)
        /\ SubSeq(rule.path, 1, Len(rule.path)) = SubSeq(path, 1, Len(rule.path))
    BY <1>2 DEF Permits, IsStrictPrefix, IsPrefix
  <2>2. rule.path \in Seq(STRING) /\ path \in Seq(STRING)
    BY PathsAssumption, RulesAssumption
  <2>3. \A i \in DOMAIN rule.path : rule.path[i] = path[i] /\ i \in DOMAIN path
    <3> SUFFICES ASSUME NEW i \in 1..Len(rule.path) PROVE rule.path[i] = path[i]
        BY <2>1, <2>2
    <3>1. SubSeq(rule.path, 1, Len(rule.path))[i] = rule.path[i]
      BY <2>2
    <3>2. SubSeq(path, 1, Len(rule.path))[i] = path[i]
      BY <2>1, <2>2
    <3> QED
      BY <2>1, <3>1, <3>2
  <2>4. Clean(rule.path) = rule.path
    BY <2>2, <2>3, PathsAssumption, CleanPathStays
  <2> QED
    BY <1>2, <2>4 DEF Permits, Within
<1> QED
  BY <1>1, <1>2

\* Whatever filepath.Clean does, a rule in clean form permits what it denotes.
LEMMA CleanRulePermits ==
    ASSUME NEW rule, NEW path, rule.path = Clean(rule.path), Within(path, rule)
    PROVE  Permits(rule, path)
BY DEF Within, Permits

\* A result that stays inside the rules which are written in clean form is not
\* rejected; neither the writer nor git may change that after the verdict.
THEOREM CleanRulesHonoured == Spec => []CleanRulesAreHonoured
<1>1. Init => CleanRulesAreHonoured
  BY DEF Init, CleanRulesAreHonoured
<1>2. CleanRulesAreHonoured /\ [Next]_vars => CleanRulesAreHonoured'
  <2> SUFFICES ASSUME CleanRulesAreHonoured, [Next]_vars, verdict' = "rejected"
               PROVE  \E path \in Changed' : \A rule \in rules' :
                          rule.path = Clean(rule.path) => ~Within(path, rule)
      BY DEF CleanRulesAreHonoured
  <2>1. CASE InspectPaths
    <3>1. PICK changed \in ChangedPaths : ~ValidateAllowedPaths(changed)
      BY <2>1 DEF InspectPaths
    <3>2. changed \subseteq Changed
      BY DEF ChangedPaths
    <3>3. PICK path \in changed : \A rule \in rules : ~Permits(rule, path)
      BY <3>1 DEF ValidateAllowedPaths
    <3>4. Changed' = Changed /\ rules' = rules
      BY <2>1 DEF InspectPaths, Changed
    <3> QED
      BY <3>2, <3>3, <3>4, CleanRulePermits
  <2>2. CASE UNCHANGED vars
    BY <2>2 DEF vars, Changed, CleanRulesAreHonoured
  <2>3. ASSUME RefuseTask \/ \E path \in Paths, content \in Contents \cup {Absent} :
                                 WriteFile(path, content)
        PROVE  FALSE
    BY <2>3 DEF RefuseTask, WriteFile
  <2> QED
    BY <2>1, <2>2, <2>3 DEF Next, Finished
<1> QED
  BY <1>1, <1>2, PTL DEF Spec

-----------------------------------------------------------------------------
(* What is accepted *)

PolicyTypeOK == rules \subseteq Rules /\ base \in Trees /\ tree \in Trees

\* What git names and does not name of a result that was accepted.
AcceptedInv ==
    verdict = "accepted" =>
        \E hidden \in SUBSET Deleted :
            MovedAway(hidden) /\ ValidateAllowedPaths(Changed \ hidden)

PolicyInv == PolicyTypeOK /\ AcceptedInv

LEMMA PolicyInit == Init => PolicyInv
BY DEF Init, PolicyInv, PolicyTypeOK, AcceptedInv

LEMMA PolicyStep == PolicyInv /\ [Next]_vars => PolicyInv'
<1> SUFFICES ASSUME PolicyInv, [Next]_vars PROVE PolicyInv'
    OBVIOUS
<1> USE DEF PolicyInv
<1>1. CASE RefuseTask
  BY <1>1 DEF RefuseTask, PolicyTypeOK, AcceptedInv
<1>2. ASSUME NEW path \in Paths, NEW content \in Contents \cup {Absent},
             WriteFile(path, content)
      PROVE  PolicyInv'
  BY <1>2 DEF WriteFile, PolicyTypeOK, AcceptedInv, Trees
<1>3. CASE InspectPaths
  <2>1. UNCHANGED <<rules, base, tree>> /\ PolicyTypeOK'
    BY <1>3 DEF InspectPaths, PolicyTypeOK
  <2>2. PICK hidden \in SUBSET Deleted :
        /\ MovedAway(hidden)
        /\ verdict' = "accepted" => ValidateAllowedPaths(Changed \ hidden)
    BY <1>3 DEF InspectPaths, ChangedPaths
  <2>3. Deleted' = Deleted /\ Changed' = Changed /\ Added' = Added
    BY <2>1 DEF Deleted, Changed, Added
  <2>4. MovedAway(hidden)'
    BY <2>1, <2>2, <2>3 DEF MovedAway, With
  <2>5. ValidateAllowedPaths(Changed \ hidden) => ValidateAllowedPaths(Changed \ hidden)'
    BY <2>1, <2>3 DEF ValidateAllowedPaths
  <2> QED
    BY <2>1, <2>2, <2>3, <2>4, <2>5 DEF AcceptedInv
<1>4. CASE UNCHANGED vars
  <2>1. UNCHANGED <<rules, base, tree, verdict>>
    BY <1>4 DEF vars
  <2>2. Deleted' = Deleted /\ Changed' = Changed /\ Added' = Added
    BY <2>1 DEF Deleted, Changed, Added
  <2>3. \A hidden : MovedAway(hidden) => MovedAway(hidden)'
    BY <2>1, <2>2 DEF MovedAway, With
  <2>4. \A changed : ValidateAllowedPaths(changed) => ValidateAllowedPaths(changed)'
    BY <2>1 DEF ValidateAllowedPaths
  <2> QED
    BY <2>1, <2>2, <2>3, <2>4 DEF PolicyTypeOK, AcceptedInv
<1> QED
  BY <1>1, <1>2, <1>3, <1>4 DEF Next, Finished

\* What git names of an accepted result is in the allowlist.
LEMMA NamedIsAllowed ==
    ASSUME PolicyTypeOK, NEW hidden \in SUBSET Deleted,
           ValidateAllowedPaths(Changed \ hidden)
    PROVE  Changed \ hidden \subseteq Allowed
BY PermitsOnlyWithin DEF ValidateAllowedPaths, PolicyTypeOK, Allowed, Changed

\* No file outside the allowlist gets a new content in an accepted result.
THEOREM ContentInside == Spec => []ContentStaysInside
<1>1. PolicyInv => ContentStaysInside
  BY NamedIsAllowed DEF PolicyInv, AcceptedInv, ContentStaysInside
<1> QED
  BY PolicyInit, PolicyStep, <1>1, PTL DEF Spec

\* Every path that git hides has its content in a file that was added.
LEMMA HiddenMoved ==
    ASSUME NEW hidden, MovedAway(hidden), NEW path \in hidden, base[path] \in Contents
    PROVE  \E moved \in Added : tree[moved] = base[path]
<1> DEFINE content == base[path]
           counts == {Cardinality(With(Deleted, base, content)),
                      Cardinality(With(Added, tree, content))}
<1>1. /\ IsFiniteSet(With(hidden, base, content))
      /\ IsFiniteSet(With(Deleted, base, content))
      /\ IsFiniteSet(With(Added, tree, content))
  <2>1. \A paths \in SUBSET Paths : IsFiniteSet(paths)
    BY PathsAssumption, FS_Subset
  <2> QED
    BY <2>1 DEF MovedAway, With, Deleted, Added, Changed
<1>2. Cardinality(With(hidden, base, content)) # 0
  <2>1. path \in With(hidden, base, content)
    BY DEF With
  <2> QED
    BY <1>1, <2>1, FS_EmptySet
<1>3. counts \subseteq Nat
  BY <1>1, FS_CardinalityType
<1>4. \E n \in counts : \A m \in counts : n <= m
  BY <1>3, LeastNumber
<1>5. Min(counts) \in counts /\ \A m \in counts : Min(counts) <= m
  BY <1>4 DEF Min
<1>6. Min(counts) # 0
  BY <1>2 DEF MovedAway
<1>7. Cardinality(With(Added, tree, content)) # 0
  BY <1>3, <1>5, <1>6
<1>8. With(Added, tree, content) # {}
  BY <1>7, FS_EmptySet
<1> QED
  BY <1>8 DEF With

\* A change outside the allowlist that is accepted is the old place of a file
\* that was moved, whatever the rules and whichever files git takes for moved.
THEOREM OnlyMoves == Spec => []OnlyMovesEscape
<1>1. PolicyInv => OnlyMovesEscape
  <2> SUFFICES ASSUME PolicyInv, verdict = "accepted", NEW path \in Changed \ Allowed
               PROVE  \E moved \in Added : tree[moved] = base[path]
      BY DEF OnlyMovesEscape
  <2>1. PICK hidden \in SUBSET Deleted :
        MovedAway(hidden) /\ ValidateAllowedPaths(Changed \ hidden)
    BY DEF PolicyInv, AcceptedInv
  <2>2. path \in hidden
    BY <2>1, NamedIsAllowed DEF PolicyInv
  <2>3. base[path] \in Contents
    BY <2>2 DEF PolicyInv, PolicyTypeOK, Trees, Deleted, Changed
  <2> QED
    BY <2>1, <2>2, <2>3, HiddenMoved
<1> QED
  BY PolicyInit, PolicyStep, <1>1, PTL DEF Spec
=============================================================================
