-------------------------- MODULE SessionRecordsProofs --------------------------
(***************************************************************************)
(* Lemmas about the operators of SessionRecords and PathGlob, for every    *)
(* map of records, and about sequences that are filtered and concatenated; *)
(* the proofs about the stores, the pipeline and the rule engines cite     *)
(* them.                                                                   *)
(***************************************************************************)
EXTENDS SessionRecords, TLAPS, SequencesExt, SequenceTheorems,
        WellFoundedInduction

PathTexts == [rooted : BOOLEAN, segs : Seq(STRING)]

-------------------------------------------------------------------------------
(* Path patterns.                                                          *)

\* The segments before "**" are the first segments of the pattern.
LEMMA PrefixFacts ==
  ASSUME NEW segs \in Seq(STRING)
  PROVE  /\ Prefix(segs) \in Seq(STRING)
         /\ Len(Prefix(segs)) <= Len(segs)
         /\ \A i \in 1..Len(Prefix(segs)) : Prefix(segs)[i] = segs[i]
<1>1. CASE Starred(segs)
  <2>1. Len(segs) \in Nat /\ Len(segs) # 0
    BY <1>1 DEF Starred
  <2>2. Prefix(segs) = SubSeq(segs, 1, Len(segs) - 1)
    BY <1>1 DEF Prefix
  <2> QED BY <2>1, <2>2
<1>2. CASE ~Starred(segs)
  BY <1>2 DEF Prefix
<1> QED BY <1>1, <1>2

\* session.rs:247: a pattern that another subsumes matches no path that the
\* other does not match.
LEMMA GlobSubsumesSound ==
  ASSUME NEW p \in PathTexts, NEW c \in PathTexts, NEW x \in PathTexts,
         glob_subsumes(p, c), path_matches(c, x)
  PROVE  path_matches(p, x)
<1> DEFINE ps == Prefix(p.segs)
           cs == Prefix(c.segs)
<1>1. /\ ps \in Seq(STRING) /\ cs \in Seq(STRING) /\ x.segs \in Seq(STRING)
      /\ \A i \in 1..Len(cs) : cs[i] = c.segs[i]
      /\ Len(cs) <= Len(c.segs)
  BY PrefixFacts DEF PathTexts
<1>2. \A i \in 1..Len(cs) : cs[i] # "" /\ segment_matches(cs[i], x.segs[i])
  <2>1. \A i \in 1..Len(cs) : segment_matches(cs[i], x.segs[i])
    BY DEF path_matches, match_segments
  <2>2. \A i \in 1..Len(c.segs) : c.segs[i] # ""
    BY DEF path_matches, validate_pattern
  <2>3. \A i \in 1..Len(cs) : i \in 1..Len(c.segs)
    BY <1>1 DEF PathTexts
  <2> QED BY <1>1, <2>1, <2>2, <2>3
<1>3. Len(x.segs) >= Len(cs) /\ (~Starred(c.segs) => Len(x.segs) = Len(cs))
  BY <1>1 DEF path_matches, match_segments
<1>4. CASE ps = <<>> /\ Starred(p.segs)
  BY <1>1, <1>4 DEF path_matches, match_segments, glob_subsumes
<1>5. CASE /\ covered_prefix(ps, cs)
           /\ Len(cs) >= Len(ps)
           /\ Starred(p.segs) \/ (~Starred(c.segs) /\ Len(ps) = Len(cs))
  <2>1. \A i \in 1..Len(ps) : segment_matches(ps[i], x.segs[i])
    <3> TAKE i \in 1..Len(ps)
    <3>1. i \in 1..Len(cs)
      BY <1>1, <1>5
    <3>2. ps[i] = "*" \/ ps[i] = cs[i]
      BY <1>1, <1>5, <3>1 DEF covered_prefix
    <3>3. cs[i] # "" /\ segment_matches(cs[i], x.segs[i])
      BY <1>2, <3>1
    <3> HIDE DEF ps, cs
    <3> QED BY <3>2, <3>3 DEF segment_matches
  <2>2. IF Starred(p.segs) THEN Len(x.segs) >= Len(ps) ELSE Len(x.segs) = Len(ps)
    BY <1>1, <1>3, <1>5
  <2> QED BY <2>1, <2>2 DEF path_matches, match_segments, glob_subsumes
<1> QED BY <1>1, <1>4, <1>5 DEF glob_subsumes

-------------------------------------------------------------------------------
(* Constraints.                                                            *)

\* Narrowing yields constraints again.
LEMMA NarrowType ==
  ASSUME NEW a \in Constraints, NEW b \in Constraints
  PROVE  narrow(a, b) \in Constraints
<1>1. \A d \in SetDims : narrow_set(a.sets[d], b.sets[d]) \in Option(SUBSET Names)
  BY DEF Constraints, Option, narrow_set
<1>2. narrow_paths(a.paths, b.paths) \in Option(SUBSET Patterns)
  BY DEF Constraints, Option, narrow_paths
<1>3. narrow_budget(a.remaining, b.remaining) \in Option(Nat)
  BY DEF Constraints, Option, narrow_budget
<1> QED BY <1>1, <1>2, <1>3 DEF Constraints, narrow

\* session.rs:147: a request that passes narrowed constraints passes the
\* constraints they were narrowed from.
LEMMA NarrowContained ==
  ASSUME NEW a \in Constraints, NEW b \in Constraints, NEW q \in Requests,
         check_request(narrow(a, b), q)
  PROVE  check_request(a, q)
<1>1. ASSUME NEW d \in SetDims, a.sets[d] # None
      PROVE  q.names[d] \in a.sets[d]
  <2>1. narrow_set(a.sets[d], b.sets[d]) # None => q.names[d] \in narrow_set(a.sets[d], b.sets[d])
    BY DEF check_request, narrow
  <2>2. CASE b.sets[d] = None
    BY <1>1, <2>1, <2>2 DEF narrow_set
  <2>3. CASE b.sets[d] # None
    <3>1. narrow_set(a.sets[d], b.sets[d]) = a.sets[d] \cap b.sets[d]
      BY <1>1, <2>3 DEF narrow_set
    <3>2. a.sets[d] \cap b.sets[d] \in SUBSET Names
      BY <1>1 DEF Constraints, Option
    <3>3. a.sets[d] \cap b.sets[d] # None
      BY <3>2, NoneIsNoValue
    <3> QED BY <2>1, <3>1, <3>3
  <2> QED BY <2>2, <2>3
<1>2. ASSUME a.paths # None
      PROVE  \E p \in a.paths : path_matches(p, q.path)
  <2>1. narrow_paths(a.paths, b.paths) # None =>
          \E c \in narrow_paths(a.paths, b.paths) : path_matches(c, q.path)
    BY DEF check_request, narrow
  <2>2. CASE b.paths = None
    BY <1>2, <2>1, <2>2 DEF narrow_paths
  <2>3. CASE b.paths # None
    <3>1. narrow_paths(a.paths, b.paths) =
            {c \in b.paths : \E p \in a.paths : glob_subsumes(p, c)}
      BY <1>2, <2>3 DEF narrow_paths
    <3>2. a.paths \in SUBSET Patterns /\ b.paths \in SUBSET Patterns
      BY <1>2, <2>3 DEF Constraints, Option
    <3>3. narrow_paths(a.paths, b.paths) # None
      BY <3>1, <3>2, NoneIsNoValue
    <3>4. PICK c \in b.paths :
             path_matches(c, q.path) /\ \E p \in a.paths : glob_subsumes(p, c)
      BY <2>1, <3>1, <3>3
    <3>5. PICK p \in a.paths : glob_subsumes(p, c)
      BY <3>4
    <3>6. p \in PathTexts /\ c \in PathTexts /\ q.path \in PathTexts
      BY <3>2, PatternsAreTexts, PathsAreTexts DEF PathTexts, Requests
    <3>7. path_matches(p, q.path)
      BY <3>4, <3>5, <3>6, GlobSubsumesSound
    <3> QED BY <3>7
  <2> QED BY <2>2, <2>3
<1> QED BY <1>1, <1>2 DEF check_request

-------------------------------------------------------------------------------
(* The shape of the records the methods store.                             *)

Maps == [SessionIds -> Option(Record)]

\* create_impl stores a whole record, its expiry saturated at the largest u64.
LEMMA CreateType ==
  ASSUME NEW ss \in Maps, NEW s \in SessionIds, NEW agent \in Agents,
         NEW environment \in Environments, NEW ttl \in Ttls, NEW now \in Secs
  PROVE  create_impl(ss, s, agent, environment, ttl, now) \in Maps
<1>1. (IF ttl = None THEN None ELSE saturating_add(now, ttl)) \in Option(Secs)
  BY TtlsAreOptional, MaxSecsIsNat DEF Option, Secs, saturating_add
<1> QED BY <1>1 DEF Maps, Option, Record, create_impl

\* delegate_inner stores a whole record with constraints of the right shape.
LEMMA DelegateType ==
  ASSUME NEW ss \in Maps, NEW s \in SessionIds, NEW p \in SessionIds,
         NEW requested \in Requested, ss[p] # None
  PROVE  /\ narrowed(ss, p, requested) \in Constraints
         /\ delegate_inner(ss, s, p, requested)[s] \in Record
         /\ delegate_inner(ss, s, p, requested) \in Maps
<1>1. ss[p] \in Record
  BY DEF Maps, Option
<1>2. narrowed(ss, p, requested) \in Constraints
  BY <1>1, RequestedAreConstraints, NarrowType DEF Record, Option, narrowed
<1> QED BY <1>1, <1>2 DEF Maps, Option, Record, delegate_inner

\* consume_budget decrements only a budget above zero, and stores constraints
\* of the right shape again.
LEMMA ConsumeType ==
  ASSUME NEW ss \in Maps, NEW s \in SessionIds, NEW now \in Secs,
         consume_verdict(ss, s, now) = "ok", Budget(ss, s) # None
  PROVE  /\ ss[s] \in Record /\ ss[s].constraints \in Constraints
         /\ Budget(ss, s) \in Nat \ {0}
         /\ consume_in(ss, s) \in Maps
<1>1. ss[s] \in Record
  BY DEF Maps, Option, consume_verdict, validate
<1>2. ss[s].constraints \in Constraints
  BY <1>1 DEF Record, Option, Budget
<1>3. Budget(ss, s) \in Nat \ {0}
  BY <1>2, NoneIsNoRecord DEF Constraints, Option, Budget, consume_verdict
<1>4. [ss[s].constraints EXCEPT !.remaining = ss[s].constraints.remaining - 1] \in Constraints
  BY <1>2, <1>3, NoneIsNoRecord DEF Constraints, Option, Budget
<1> DEFINE c == [ss[s].constraints EXCEPT !.remaining = ss[s].constraints.remaining - 1]
<1>5. [ss[s] EXCEPT !.constraints = c] \in Record
  <2> HIDE DEF c
  <2> QED BY <1>1, <1>4 DEF c, Record, Option
<1>6. consume_in(ss, s) = [ss EXCEPT ![s] = [ss[s] EXCEPT !.constraints = c]]
  BY DEF consume_in
<1> HIDE DEF c
<1>7. consume_in(ss, s) \in Maps
  BY <1>5, <1>6 DEF Maps, Option
<1> QED BY <1>1, <1>2, <1>3, <1>7

-------------------------------------------------------------------------------
(* What the methods keep of the records that exist.                        *)

\* A record that exists stays, with its identity, parent and authority, and
\* is never un-revoked.
Kept(ss, tt, s) ==
  ss[s] # None =>
    /\ tt[s] # None
    /\ tt[s].agent = ss[s].agent
    /\ tt[s].environment = ss[s].environment
    /\ tt[s].parent = ss[s].parent
    /\ ss[s].revoked => tt[s].revoked
    /\ Authority(tt, s) = Authority(ss, s)

\* A delegated record was minted from a record that exists, speaks for the
\* same agent and environment, and allows whatever it allows.
Linked(ss, s) ==
  ss[s] # None /\ ss[s].parent # None =>
    /\ ss[ss[s].parent] # None
    /\ ss[ss[s].parent].agent = ss[s].agent
    /\ ss[ss[s].parent].environment = ss[s].environment
    /\ Authority(ss, s) \subseteq Authority(ss, ss[s].parent)

\* Storing a record under a fresh id disturbs no other record.
LEMMA NewRecordKeepsOthers ==
  ASSUME NEW ss \in Maps, NEW s \in SessionIds, ss[s] = None, NEW r
  PROVE  \A x \in SessionIds : Kept(ss, [ss EXCEPT ![s] = r], x)
BY DEF Maps, Kept, Authority

\* revoke sets the revoked bit and nothing else.
LEMMA RevokeKeeps ==
  ASSUME NEW ss \in Maps, NEW s \in SessionIds, ss[s] # None
  PROVE  \A x \in SessionIds : Kept(ss, revoke_in(ss, s), x)
<1> DEFINE tt == revoke_in(ss, s)
<1>1. ss[s] \in Record
  BY DEF Maps, Option
<1>2. /\ \A x \in SessionIds \ {s} : tt[x] = ss[x]
      /\ tt[s] = [ss[s] EXCEPT !.revoked = TRUE]
  BY DEF Maps, revoke_in
<1>3. /\ tt[s] \in Record /\ tt[s].revoked
      /\ tt[s].agent = ss[s].agent /\ tt[s].environment = ss[s].environment
      /\ tt[s].parent = ss[s].parent /\ tt[s].constraints = ss[s].constraints
  BY <1>1, <1>2 DEF Record
<1> HIDE DEF tt
<1>4. \A x \in SessionIds : Kept(ss, tt, x)
  BY <1>2, <1>3, NoneIsNoRecord DEF Kept, Authority
<1> QED BY <1>4 DEF tt

\* consume_budget takes one unit and changes no record otherwise; the requests
\* the session may make stay the same.
LEMMA ConsumeKeeps ==
  ASSUME NEW ss \in Maps, NEW s \in SessionIds, ss[s] \in Record,
         ss[s].constraints \in Constraints, Budget(ss, s) \in Nat \ {0}
  PROVE  /\ \A x \in SessionIds : Kept(ss, consume_in(ss, s), x)
         /\ \A x \in SessionIds \ {s} : consume_in(ss, s)[x] = ss[x]
         /\ Budget(consume_in(ss, s), s) = Budget(ss, s) - 1
<1> DEFINE tt == consume_in(ss, s)
           c == ss[s].constraints
           left == [c EXCEPT !.remaining = c.remaining - 1]
<1>1. /\ \A x \in SessionIds \ {s} : tt[x] = ss[x]
      /\ tt[s] = [ss[s] EXCEPT !.constraints = left]
  BY DEF Maps, consume_in
<1>2. c # None /\ c.remaining \in Nat \ {0} /\ Budget(ss, s) = c.remaining
  BY NoneIsNoRecord DEF Budget
<1>3. /\ left \in Constraints
      /\ left.sets = c.sets /\ left.paths = c.paths /\ left.remaining = c.remaining - 1
  BY <1>2 DEF Constraints, Option
<1> HIDE DEF left
<1>4. left # None
  BY <1>3, NoneIsNoRecord
<1>5. /\ tt[s] \in Record
      /\ tt[s].agent = ss[s].agent /\ tt[s].environment = ss[s].environment
      /\ tt[s].parent = ss[s].parent /\ tt[s].revoked = ss[s].revoked
      /\ tt[s].constraints = left
  BY <1>1, <1>3 DEF Record, Option
<1> HIDE DEF tt, c
<1>6. Authority(tt, s) = Authority(ss, s)
  <2>1. \A q \in Requests : check_request(left, q) <=> check_request(c, q)
    BY <1>3 DEF check_request
  <2>2. ss[s].constraints = c
    BY DEF c
  <2> QED BY <1>2, <1>4, <1>5, <2>1, <2>2 DEF Authority
<1>7. \A x \in SessionIds : Kept(ss, tt, x)
  BY <1>1, <1>5, <1>6, NoneIsNoRecord DEF Kept, Authority
<1>8. Budget(tt, s) = Budget(ss, s) - 1
  BY <1>2, <1>3, <1>4, <1>5 DEF Budget
<1> QED BY <1>1, <1>7, <1>8 DEF tt

-------------------------------------------------------------------------------
(* Chains of parents.                                                      *)

\* A predicate that holds of the parent and is passed on to parents holds of
\* every ancestor: the only induction the proofs need.
LEMMA AncestorsWithin ==
  ASSUME NEW ss, NEW s, NEW S \in SUBSET SessionIds,
         ParentClosed(ss, S), ss[s].parent \in S \cup {None}
  PROVE  Ancestors(ss, s) \subseteq S
BY DEF Ancestors

\* Ancestors of a session that exists stay its ancestors.
LEMMA AncestorsKept ==
  ASSUME NEW ss, NEW tt, NEW s \in SessionIds, ss[s] # None,
         \A x \in SessionIds : Kept(ss, tt, x)
  PROVE  Ancestors(ss, s) \subseteq Ancestors(tt, s)
<1> SUFFICES ASSUME NEW a \in Ancestors(ss, s), NEW S \in SUBSET SessionIds,
                    ParentClosed(tt, S), tt[s].parent \in S \cup {None}
             PROVE  a \in S
  BY DEF Ancestors
<1>1. ParentClosed(ss, S)
  BY DEF ParentClosed, Kept
<1>2. ss[s].parent \in S \cup {None}
  BY DEF Kept
<1> QED BY <1>1, <1>2 DEF Ancestors

-------------------------------------------------------------------------------
(* Sequences that are filtered and concatenated.                          *)

\* A set of numbers that is not empty has a least member.
LEMMA LeastNumber ==
  ASSUME NEW T \in SUBSET Nat, T # {}
  PROVE  \E n \in T : \A m \in T : n <= m
<1>1. PICK n \in T : \A m \in T : <<m, n>> \notin OpToRel(<, Nat)
  BY NatLessThanWellFounded, WFMin
<1>2. \A m \in T : ~(m < n)
  BY <1>1 DEF OpToRel
<1> QED BY <1>2

\* One more element of s.
FilterStep(f, s, S, k) == IF s[k] \in S THEN Append(f[k - 1], s[k]) ELSE f[k - 1]

\* What filtering the first k elements leaves, for each k up to n.
Filtering(f, n, s, S) ==
  f = [k \in 0..n |-> IF k = 0 THEN << >>
                      ELSE IF s[k] \in S THEN Append(f[k - 1], s[k]) ELSE f[k - 1]]

\* What the equation says step by step.
LEMMA FilteringSteps ==
  ASSUME NEW f, NEW n \in Nat, NEW s, NEW S, Filtering(f, n, s, S)
  PROVE  f[0] = << >> /\ \A k \in 1..n : f[k] = FilterStep(f, s, S, k)
<1>1. \A k \in 0..n : f[k] = IF k = 0 THEN << >> ELSE FilterStep(f, s, S, k)
  BY DEF Filtering, FilterStep
<1> QED BY <1>1

\* The equation has a solution for every n.
LEMMA FilteringExists ==
  ASSUME NEW n \in Nat, NEW s, NEW S
  PROVE  \E f : Filtering(f, n, s, S)
<1> DEFINE Bad == {m \in Nat : ~ \E f : Filtering(f, m, s, S)}
<1>1. SUFFICES ASSUME Bad # {} PROVE FALSE
  OBVIOUS
<1>2. PICK m \in Bad : \A k \in Bad : m <= k
  <2>1. Bad \in SUBSET Nat
    OBVIOUS
  <2> HIDE DEF Bad
  <2> QED BY <1>1, <2>1, LeastNumber
<1>3. m # 0
  <2>1. SUFFICES ASSUME m = 0 PROVE FALSE
    OBVIOUS
  <2>2. PICK f : f = [k \in 0..0 |-> << >>]
    OBVIOUS
  <2>3. Filtering(f, 0, s, S)
    BY <2>2 DEF Filtering
  <2> QED BY <1>2, <2>1, <2>3
<1>4. PICK f : Filtering(f, m - 1, s, S)
  BY <1>2, <1>3
<1>5. PICK g : g = [k \in 0..m |-> IF k = m THEN FilterStep(f, s, S, m) ELSE f[k]]
  OBVIOUS
<1>6. \A k \in 0..m : g[k] = IF k = 0 THEN << >> ELSE FilterStep(g, s, S, k)
  <2>1. m - 1 \in Nat
    BY <1>2, <1>3
  <2>2. f[0] = << >> /\ \A k \in 1..(m - 1) : f[k] = FilterStep(f, s, S, k)
    BY <1>4, <2>1, FilteringSteps
  <2>3. \A k \in 0..(m - 1) : g[k] = f[k]
    BY <1>5, <2>1
  <2>4. g[m] = FilterStep(f, s, S, m)
    BY <1>5, <2>1
  <2>5. \A k \in 1..m : FilterStep(g, s, S, k) = FilterStep(f, s, S, k)
    BY <2>1, <2>3 DEF FilterStep
  <2> QED BY <1>3, <2>1, <2>2, <2>3, <2>4, <2>5
<1>7. g = [k \in 0..m |-> g[k]]
  BY <1>5
<1>8. Filtering(g, m, s, S)
  BY <1>6, <1>7 DEF Filtering, FilterStep
<1> QED BY <1>2, <1>8

\* f has what is left of the first k elements of s, for each k up to n.
LeftOf(f, X, s, S, n) ==
  /\ f[0] = << >> /\ Filtered(s, S) = f[n]
  /\ \A k \in 1..n : f[k] = FilterStep(f, s, S, k)
  /\ \A k \in 0..n : f[k] \in Seq(X \cap S)

\* What filtering leaves, step by step.
LEMMA FilteredFrom ==
  ASSUME NEW X, NEW s \in Seq(X), NEW S, NEW n \in Nat, n = Len(s)
  PROVE  \E f : LeftOf(f, X, s, S, n)
<1>1. n = Len(s) /\ n \in Nat
  OBVIOUS
<1>2. \E f : Filtering(f, Len(s), s, S)
  BY <1>1, FilteringExists
<1>3. PICK f : f = CHOOSE g : Filtering(g, Len(s), s, S)
  OBVIOUS
<1>4. Filtering(f, Len(s), s, S)
  BY <1>2, <1>3, Zenon
<1>5. Filtered(s, S) = f[Len(s)]
  BY <1>3, Zenon DEF Filtered, Filtering
<1>6. f[0] = << >> /\ \A k \in 1..n : f[k] = FilterStep(f, s, S, k)
  BY <1>1, <1>4, FilteringSteps
<1> DEFINE Bad == {k \in 0..n : f[k] \notin Seq(X \cap S)}
<1>7. Bad = {}
  <2>1. SUFFICES ASSUME Bad # {} PROVE FALSE
    OBVIOUS
  <2>2. PICK m \in Bad : \A k \in Bad : m <= k
    <3>1. Bad \in SUBSET Nat
      BY <1>1
    <3> HIDE DEF Bad
    <3> QED BY <2>1, <3>1, LeastNumber
  <2>3. f[0] \in Seq(X \cap S)
    BY <1>6
  <2>4. m \in 1..n /\ m - 1 \in 0..n /\ m - 1 \notin Bad
    BY <1>1, <2>2, <2>3
  <2>5. PICK t : t = f[m - 1] /\ t \in Seq(X \cap S)
    BY <2>4
  <2>6. f[m] = IF s[m] \in S THEN Append(t, s[m]) ELSE t
    BY <1>6, <2>4, <2>5 DEF FilterStep
  <2>7. s[m] \in X
    BY <1>1, <2>4
  <2>8. f[m] \in Seq(X \cap S)
    BY <2>5, <2>6, <2>7
  <2> QED BY <2>2, <2>8
<1>8. \A k \in 0..n : f[k] \in Seq(X \cap S)
  BY <1>7
<1> HIDE DEF Bad
<1> QED BY <1>1, <1>5, <1>6, <1>8, Zenon DEF LeftOf

\* Filtering leaves a sequence of elements that pass the filter.
LEMMA FilteredIs ==
  ASSUME NEW X, NEW s \in Seq(X), NEW S
  PROVE  Filtered(s, S) \in Seq(X \cap S)
<1>1. PICK n \in Nat : n = Len(s)
  OBVIOUS
<1>2. n \in 0..n
  OBVIOUS
<1>3. PICK f : LeftOf(f, X, s, S, n)
  BY <1>1, FilteredFrom, Zenon
<1> QED BY <1>2, <1>3, Zenon DEF LeftOf


\* One more sequence.
FlattenStep(f, s, k) == IF k = 1 THEN s[k] ELSE f[k - 1] \o s[k]

\* The concatenation of the first k sequences, for each k up to n.
Flattening(f, n, s) == f = [k \in 1..n |-> IF k = 1 THEN s[k] ELSE f[k - 1] \o s[k]]

\* What the equation says step by step.
LEMMA FlatteningSteps ==
  ASSUME NEW f, NEW n \in Nat, NEW s, Flattening(f, n, s)
  PROVE  \A k \in 1..n : f[k] = FlattenStep(f, s, k)
  BY DEF Flattening, FlattenStep

\* The equation has a solution for every n.
LEMMA FlatteningExists ==
  ASSUME NEW n \in Nat, NEW s
  PROVE  \E f : Flattening(f, n, s)
<1> DEFINE Bad == {m \in Nat : ~ \E f : Flattening(f, m, s)}
<1>1. SUFFICES ASSUME Bad # {} PROVE FALSE
  OBVIOUS
<1>2. PICK m \in Bad : \A k \in Bad : m <= k
  <2>1. Bad \in SUBSET Nat
    OBVIOUS
  <2> HIDE DEF Bad
  <2> QED BY <1>1, <2>1, LeastNumber
<1>3. m # 0
  <2>1. SUFFICES ASSUME m = 0 PROVE FALSE
    OBVIOUS
  <2>2. PICK f : f = [k \in 1..0 |-> s[k]]
    OBVIOUS
  <2>3. Flattening(f, 0, s)
    BY <2>2 DEF Flattening
  <2> QED BY <1>2, <2>1, <2>3
<1>4. PICK f : Flattening(f, m - 1, s)
  BY <1>2, <1>3
<1>5. PICK g : g = [k \in 1..m |-> IF k = m THEN FlattenStep(f, s, m) ELSE f[k]]
  OBVIOUS
<1>6. \A k \in 1..m : g[k] = FlattenStep(g, s, k)
  <2>1. m - 1 \in Nat
    BY <1>2, <1>3
  <2>2. \A k \in 1..(m - 1) : f[k] = FlattenStep(f, s, k)
    BY <1>4, <2>1, FlatteningSteps
  <2>3. \A k \in 1..(m - 1) : g[k] = f[k]
    BY <1>5, <2>1
  <2>4. g[m] = FlattenStep(f, s, m)
    BY <1>5, <2>1
  <2>5. \A k \in 1..m : FlattenStep(g, s, k) = FlattenStep(f, s, k)
    BY <2>1, <2>3 DEF FlattenStep
  <2> QED BY <1>3, <2>1, <2>2, <2>3, <2>4, <2>5
<1>7. g = [k \in 1..m |-> g[k]]
  BY <1>5
<1>8. Flattening(g, m, s)
  BY <1>6, <1>7 DEF Flattening, FlattenStep
<1> QED BY <1>2, <1>8

\* What FlattenSeq computes.
LEMMA FlattenIs ==
  ASSUME NEW s, NEW n \in Nat, n = Len(s), n # 0
  PROVE  \E f : (\A k \in 1..n : f[k] = FlattenStep(f, s, k)) /\ FlattenSeq(s) = f[n]
<1>1. \E f : Flattening(f, Len(s), s)
  BY FlatteningExists
<1>2. PICK f : f = CHOOSE g : Flattening(g, Len(s), s)
  OBVIOUS
<1>3. Flattening(f, Len(s), s)
  BY <1>1, <1>2, Zenon
<1>4. FlattenSeq(s) = f[Len(s)]
  BY <1>2, Zenon DEF FlattenSeq, Flattening
<1> QED BY <1>3, <1>4, FlatteningSteps

\* A sequence more is concatenated last.
LEMMA FlattenAppend ==
  ASSUME NEW X, NEW Y, NEW s \in Seq(Y), NEW x \in Y, \A y \in Y : y \in Seq(X)
  PROVE  FlattenSeq(s) \in Seq(X) /\ FlattenSeq(Append(s, x)) = FlattenSeq(s) \o x
<1>0. PICK n \in Nat : n = Len(s)
  OBVIOUS
<1>1. PICK t : n = Len(s) /\ t = Append(s, x)
  BY <1>0
<1>2. /\ Len(t) = n + 1 /\ t[n + 1] = x /\ \A k \in 1..n : t[k] = s[k] /\ s[k] \in Y
      /\ n + 1 \in Nat /\ n + 1 # 0
  BY <1>1
<1>3. PICK g : (\A k \in 1..(n + 1) : g[k] = FlattenStep(g, t, k)) /\ FlattenSeq(t) = g[n + 1]
  BY <1>2, FlattenIs
<1>4. CASE n = 0
  <2>1. s = << >> /\ FlattenSeq(s) = << >>
    <3>1. Len(s) = 0
      BY <1>1, <1>4
    <3>2. FlattenSeq(s) = s
      BY <3>1, Zenon DEF FlattenSeq
    <3>3. s = << >>
      BY <3>1, EmptySeq
    <3> QED BY <3>2, <3>3
  <2>2. FlattenSeq(t) = x
    BY <1>2, <1>3, <1>4 DEF FlattenStep
  <2>3. << >> \in Seq(X) /\ x \in Seq(X) /\ << >> \o x = x
    OBVIOUS
  <2> QED BY <1>1, <2>1, <2>2, <2>3
<1>5. CASE n # 0
  <2>1. PICK f : (\A k \in 1..n : f[k] = FlattenStep(f, s, k)) /\ FlattenSeq(s) = f[n]
    BY <1>1, <1>5, FlattenIs
  <2> DEFINE Bad == {k \in 1..n : ~(f[k] = g[k] /\ f[k] \in Seq(X))}
  <2>2. Bad = {}
    <3>1. SUFFICES ASSUME Bad # {} PROVE FALSE
      OBVIOUS
    <3>2. PICK m \in Bad : \A k \in Bad : m <= k
      <4>1. Bad \in SUBSET Nat
        BY <1>1
      <4> HIDE DEF Bad
      <4> QED BY <3>1, <4>1, LeastNumber
    <3>3. m \in 1..n /\ m \in 1..(n + 1) /\ ~(f[m] = g[m] /\ f[m] \in Seq(X))
      BY <3>2
    <3>4. f[m] = FlattenStep(f, s, m) /\ g[m] = FlattenStep(g, t, m)
      BY <1>3, <2>1, <3>3
    <3>5. t[m] = s[m] /\ s[m] \in Seq(X)
      BY <1>2, <3>3
    <3>6. CASE m = 1
      BY <3>3, <3>4, <3>5, <3>6 DEF FlattenStep
    <3>7. CASE m # 1
      <4>1. m - 1 \in 1..n /\ m - 1 \notin Bad
        BY <3>2, <3>3, <3>7
      <4>2. PICK h : h = f[m - 1] /\ h = g[m - 1] /\ h \in Seq(X)
        BY <4>1
      <4>3. f[m] = h \o s[m] /\ g[m] = h \o s[m]
        BY <3>4, <3>5, <3>7, <4>2 DEF FlattenStep
      <4>4. h \o s[m] \in Seq(X)
        BY <3>5, <4>2
      <4> QED BY <3>3, <4>3, <4>4
    <3> QED BY <3>6, <3>7
  <2>3. n \in 1..n /\ n + 1 \in 1..(n + 1)
    BY <1>5
  <2>4. f[n] = g[n] /\ f[n] \in Seq(X)
    BY <2>2, <2>3
  <2>5. g[n + 1] = g[n] \o x
    <3>1. g[n + 1] = FlattenStep(g, t, n + 1)
      BY <1>3, <2>3
    <3>2. n + 1 # 1 /\ (n + 1) - 1 = n
      BY <1>5
    <3>3. FlattenStep(g, t, n + 1) = g[(n + 1) - 1] \o t[n + 1]
      BY <3>2, Zenon DEF FlattenStep
    <3> QED BY <1>2, <3>1, <3>2, <3>3
  <2> QED BY <1>1, <1>3, <2>1, <2>4, <2>5
<1> QED BY <1>4, <1>5

-------------------------------------------------------------------------------
(* Sequences put together from pieces of one element or none.              *)

Piece(x) == \A i \in DOMAIN x : i = 1
Alike(x, y) == x = << >> <=> y = << >>

\* A piece that is not empty has one element.
LEMMA PieceIsOne ==
  ASSUME NEW X, NEW z \in Seq(X), Piece(z), z # << >>
  PROVE  Len(z) = 1
<1>1. Len(z) \in Nat /\ Len(z) # 0 /\ DOMAIN z = 1..Len(z)
  OBVIOUS
<1>2. Len(z) \in DOMAIN z
  BY <1>1
<1> QED BY <1>2 DEF Piece

\* One more element at the end.
Extends(c, a, x, l) == /\ DOMAIN c = 1..(l + 1) /\ \A i \in 1..l : c[i] = a[i]
                       /\ c[l + 1] = x[1]

\* A sequence of one element goes to the end.
LEMMA OneMore ==
  ASSUME NEW X, NEW a \in Seq(X), NEW x \in Seq(X), NEW l, l = Len(a), Len(x) = 1
  PROVE  a \o x \in Seq(X) /\ Extends(a \o x, a, x, l)
<1>1. l \in Nat
  OBVIOUS
<1>2. PICK c \in Seq(X) : c = a \o x
  BY ConcatProperties
<1>3. Len(c) = l + 1 /\ \A i \in 1..(l + 1) : c[i] = IF i <= l THEN a[i] ELSE x[i - l]
  BY <1>2, ConcatProperties
<1>4. DOMAIN c = 1..(l + 1)
  BY <1>3
<1>5. \A i \in 1..l : i \in 1..(l + 1) /\ i <= l
  BY <1>1
<1>6. l + 1 \in 1..(l + 1) /\ ~(l + 1 <= l) /\ (l + 1) - l = 1
  BY <1>1
<1>7. c[l + 1] = x[1] /\ \A i \in 1..l : c[i] = a[i]
  BY <1>3, <1>5, <1>6
<1> QED BY <1>2, <1>4, <1>7 DEF Extends

\* Sequences with one domain are of one length.
LEMMA DomainsTell ==
  ASSUME NEW X, NEW b \in Seq(X), NEW l \in Nat, DOMAIN b = 1..l
  PROVE  Len(b) = l
<1>1. PICK m \in Nat : m = Len(b) /\ DOMAIN b = 1..m
  OBVIOUS
<1>2. 1..l = 1..m
  BY <1>1
<1>3. (l # 0 => l \in 1..m) /\ (m # 0 => m \in 1..l)
  BY <1>2
<1>4. l <= m /\ m <= l
  BY <1>3
<1> QED BY <1>1, <1>4

\* A function on 1..l is a sequence of what it has.
LEMMA IsSequence ==
  ASSUME NEW l \in Nat, NEW a, a = [i \in 1..l |-> a[i]]
  PROVE  a \in Seq(ToSet(a)) /\ Len(a) = l /\ DOMAIN a = 1..l
<1>1. DOMAIN a = 1..l
  OBVIOUS
<1>2. PICK Y : Y = {a[i] : i \in 1..l} /\ Y = ToSet(a)
  BY <1>1, Zenon DEF ToSet
<1>3. a \in [1..l -> Y]
  BY <1>1, <1>2
<1>4. a \in Seq(Y)
  BY <1>3
<1> QED BY <1>1, <1>2, <1>4, DomainsTell

\* a and b are the first k pieces of S and of T put together: p says which
\* pieces their elements are, and misses none.
Placing(p, a, b, S, T, k) ==
  /\ \A i \in DOMAIN a : p[i] \in 1..k /\ S[p[i]] # << >> /\ a[i] = S[p[i]][1] /\ b[i] = T[p[i]][1]
  /\ \A i, j \in DOMAIN a : p[i] = p[j] => i = j
  /\ \A j \in 1..k : S[j] # << >> => \E i \in DOMAIN a : p[i] = j
Placed(a, b, S, T, k) == DOMAIN a = DOMAIN b /\ \E p : Placing(p, a, b, S, T, k)

\* One more piece.
LEMMA PlacedStep ==
  ASSUME NEW X, NEW k \in Nat \ {0}, NEW S, NEW T, NEW a \in Seq(X), NEW b \in Seq(X),
         NEW x \in Seq(X), NEW y \in Seq(X), x = S[k], y = T[k], Piece(x), Piece(y), Alike(x, y),
         Placed(a, b, S, T, k - 1)
  PROVE  a \o x \in Seq(X) /\ b \o y \in Seq(X) /\ Placed(a \o x, b \o y, S, T, k)
<1>1. PICK l \in Nat : l = Len(a) /\ DOMAIN a = 1..l
  OBVIOUS
<1>2. DOMAIN b = 1..l /\ Len(b) = l
  <2>1. DOMAIN b = 1..l
    BY <1>1 DEF Placed
  <2> QED BY <2>1, DomainsTell
<1>3. PICK p : Placing(p, a, b, S, T, k - 1)
  BY DEF Placed
<1>4. 1..k = (1..(k - 1)) \cup {k} /\ k \notin 1..(k - 1)
  OBVIOUS
<1>5. CASE x = << >>
  <2>1. y = << >>
    BY <1>5 DEF Alike
  <2>3. a \o x = a /\ b \o y = b
    BY <1>5, <2>1
  <2>2. Placing(p, a, b, S, T, k)
    BY <1>3, <1>4, <1>5, Zenon DEF Placing
  <2> QED BY <2>3, <2>2, Zenon DEF Placed
<1>6. CASE x # << >>
  <2>1. Len(x) = 1 /\ Len(y) = 1
    <3>1. y # << >>
      BY <1>6 DEF Alike
    <3> QED BY <1>6, <3>1, PieceIsOne
  <2>2. PICK c, d : c = a \o x /\ d = b \o y
    OBVIOUS
  <2>3. /\ c \in Seq(X) /\ d \in Seq(X) /\ DOMAIN c = 1..(l + 1) /\ DOMAIN d = 1..(l + 1)
        /\ \A i \in 1..l : c[i] = a[i] /\ d[i] = b[i]
        /\ c[l + 1] = x[1] /\ d[l + 1] = y[1]
    <3>1. a \o x \in Seq(X) /\ Extends(a \o x, a, x, l)
      BY <1>1, <2>1, OneMore
    <3>2. b \o y \in Seq(X) /\ Extends(b \o y, b, y, l)
      BY <1>2, <2>1, OneMore
    <3> QED BY <2>2, <3>1, <3>2, Zenon DEF Extends
  <2>4. 1..(l + 1) = (1..l) \cup {l + 1} /\ l + 1 \notin 1..l /\ l + 1 \in 1..(l + 1)
    OBVIOUS
  <2>5. PICK q : q = [i \in 1..(l + 1) |-> IF i = l + 1 THEN k ELSE p[i]]
    OBVIOUS
  <2>6. q[l + 1] = k /\ \A i \in 1..l : q[i] = p[i]
    BY <2>4, <2>5
  <2>7. /\ \A i \in 1..l : p[i] \in 1..(k - 1) /\ S[p[i]] # << >> /\ a[i] = S[p[i]][1] /\ b[i] = T[p[i]][1]
        /\ \A i, j \in 1..l : p[i] = p[j] => i = j
        /\ \A j \in 1..(k - 1) : S[j] # << >> => \E i \in 1..l : p[i] = j
    BY <1>1, <1>3, Zenon DEF Placing
  <2>8. ASSUME NEW i \in 1..(l + 1)
        PROVE  q[i] \in 1..k /\ S[q[i]] # << >> /\ c[i] = S[q[i]][1] /\ d[i] = T[q[i]][1]
    <3>1. CASE i \in 1..l
      <4>1. /\ q[i] = p[i] /\ c[i] = a[i] /\ d[i] = b[i]
            /\ p[i] \in 1..k /\ S[p[i]] # << >> /\ a[i] = S[p[i]][1] /\ b[i] = T[p[i]][1]
        BY <1>4, <2>3, <2>6, <2>7, <3>1, Zenon
      <4> QED BY <4>1, Zenon
    <3>2. CASE i = l + 1
      <4>1. q[i] = k /\ c[i] = x[1] /\ d[i] = y[1] /\ k \in 1..k
        BY <1>4, <2>3, <2>6, <3>2, Zenon
      <4>2. S[q[i]] = x /\ T[q[i]] = y
        BY <4>1, Zenon
      <4> QED BY <1>6, <4>1, <4>2, Zenon
    <3> QED BY <2>4, <3>1, <3>2, Zenon
  <2>9. ASSUME NEW i \in 1..(l + 1), NEW j \in 1..(l + 1), q[i] = q[j] PROVE i = j
    <3>1. \A h \in 1..l : q[h] # q[l + 1]
      <4>1. \A h \in 1..l : q[h] \in 1..(k - 1)
        BY <2>6, <2>7, Zenon
      <4> QED BY <1>4, <2>6, <4>1, Zenon
    <3>2. \A g, h \in 1..l : q[g] = q[h] => g = h
      <4> SUFFICES ASSUME NEW g \in 1..l, NEW h \in 1..l, q[g] = q[h] PROVE g = h
        OBVIOUS
      <4>1. p[g] = p[h]
        BY <2>6, Zenon
      <4> QED BY <2>7, <4>1, Zenon
    <3>3. i \in 1..l \/ i = l + 1
      BY <2>4, Zenon
    <3>4. j \in 1..l \/ j = l + 1
      BY <2>4, Zenon
    <3> QED BY <2>9, <3>1, <3>2, <3>3, <3>4, Zenon
  <2>10. ASSUME NEW j \in 1..k, S[j] # << >> PROVE \E i \in 1..(l + 1) : q[i] = j
    <3>1. CASE j = k
      BY <2>4, <2>6, <3>1, Zenon
    <3>2. CASE j \in 1..(k - 1)
      <4>1. PICK i \in 1..l : p[i] = j
        BY <2>7, <2>10, <3>2, Zenon
      <4> QED BY <2>4, <2>6, <4>1, Zenon
    <3> QED BY <1>4, <3>1, <3>2, Zenon
  <2>11. Placing(q, c, d, S, T, k)
    BY <2>3, <2>8, <2>9, <2>10, Zenon DEF Placing
  <2> QED BY <2>2, <2>3, <2>11, Zenon DEF Placed
<1> QED BY <1>5, <1>6

\* Putting pieces together one by one puts every element in its place.
LEMMA PiecesPlaced ==
  ASSUME NEW X, NEW n \in Nat, NEW S, NEW T, NEW F, NEW G, F[0] = << >>, G[0] = << >>,
         \A k \in 1..n : /\ S[k] \in Seq(X) /\ T[k] \in Seq(X) /\ Piece(S[k]) /\ Piece(T[k])
                         /\ Alike(S[k], T[k])
                         /\ F[k] = F[k - 1] \o S[k] /\ G[k] = G[k - 1] \o T[k]
  PROVE  F[n] \in Seq(X) /\ G[n] \in Seq(X) /\ Placed(F[n], G[n], S, T, n)
<1> DEFINE Good(k) == F[k] \in Seq(X) /\ G[k] \in Seq(X) /\ Placed(F[k], G[k], S, T, k)
           Bad == {k \in 0..n : ~Good(k)}
<1>1. Good(0)
  <2>1. << >> \in Seq(X) /\ DOMAIN << >> = {} /\ 1..0 = {}
    OBVIOUS
  <2>2. Placing(<< >>, << >>, << >>, S, T, 0)
    BY <2>1, Zenon DEF Placing
  <2> QED BY <2>1, <2>2, Zenon DEF Placed
<1>2. ASSUME NEW k \in 1..n, Good(k - 1) PROVE Good(k)
  <2>1. k \in Nat \ {0}
    OBVIOUS
  <2>2. PICK a \in Seq(X), b \in Seq(X), x \in Seq(X), y \in Seq(X) :
          a = F[k - 1] /\ b = G[k - 1] /\ x = S[k] /\ y = T[k]
    BY <1>2, Zenon
  <2>3. Piece(x) /\ Piece(y) /\ Alike(x, y) /\ Placed(a, b, S, T, k - 1)
    BY <1>2, <2>2, Zenon
  <2>4. a \o x \in Seq(X) /\ b \o y \in Seq(X) /\ Placed(a \o x, b \o y, S, T, k)
    BY <2>1, <2>2, <2>3, PlacedStep
  <2>5. F[k] = a \o x /\ G[k] = b \o y
    BY <2>2, Zenon
  <2> QED BY <2>4, <2>5, Zenon
<1> HIDE DEF Good
<1>3. Bad = {}
  <2>1. SUFFICES ASSUME Bad # {} PROVE FALSE
    OBVIOUS
  <2>2. PICK m \in Bad : \A k \in Bad : m <= k
    <3>1. Bad \in SUBSET Nat
      OBVIOUS
    <3> HIDE DEF Bad
    <3> QED BY <2>1, <3>1, LeastNumber
  <2>3. m \in 0..n /\ ~Good(m)
    BY <2>2
  <2>4. m # 0
    BY <1>1, <2>3
  <2>5. m \in 1..n /\ m - 1 \in 0..n /\ m \in Nat
    BY <2>3, <2>4
  <2>6. m - 1 \notin Bad
    <3> HIDE DEF Bad
    <3>1. ~(m <= m - 1)
      BY <2>5
    <3> QED BY <2>2, <3>1
  <2>7. Good(m - 1)
    BY <2>5, <2>6
  <2> QED BY <1>2, <2>3, <2>5, <2>7
<1>4. n \in 0..n
  OBVIOUS
<1>5. Good(n)
  BY <1>3, <1>4
<1> QED BY <1>5 DEF Good

\* F has the first k sequences of R put together, for each k up to n.
Sums(F, R, n) ==
  F[0] = << >> /\ (\A k \in 1..n : F[k] = F[k - 1] \o R[k]) /\ FlattenSeq(R) = F[n]

\* Sequences are put together one by one.
LEMMA FlattenSums ==
  ASSUME NEW X, NEW n \in Nat, NEW R, Len(R) = n, n = 0 => R = << >>, \A k \in 1..n : R[k] \in Seq(X)
  PROVE  \E F : Sums(F, R, n)
<1>1. CASE n = 0
  <2>1. FlattenSeq(R) = << >>
    BY <1>1 DEF FlattenSeq
  <2>2. PICK F : F = [k \in {0} |-> << >>]
    OBVIOUS
  <2>3. F[0] = << >> /\ 1..0 = {}
    BY <2>2
  <2> QED BY <1>1, <2>1, <2>3 DEF Sums
<1>2. CASE n # 0
  <2>1. PICK f : (\A k \in 1..n : f[k] = FlattenStep(f, R, k)) /\ FlattenSeq(R) = f[n]
    BY <1>2, FlattenIs
  <2>2. PICK F : F = [k \in 0..n |-> IF k = 0 THEN << >> ELSE f[k]]
    OBVIOUS
  <2>3. F[0] = << >> /\ \A k \in 1..n : F[k] = f[k]
    BY <2>2
  <2>4. ASSUME NEW k \in 1..n PROVE F[k] = F[k - 1] \o R[k]
    <3>1. CASE k = 1
      <4>1. F[k] = R[k]
        BY <2>1, <2>3, <3>1 DEF FlattenStep
      <4>2. PICK r \in Seq(X) : r = R[k]
        OBVIOUS
      <4>3. << >> \o r = r
        BY <4>2
      <4>4. F[k - 1] = << >>
        BY <2>3, <3>1
      <4> QED BY <4>1, <4>2, <4>3, <4>4
    <3>2. CASE k # 1
      <4>1. k - 1 \in 1..n
        BY <3>2
      <4>2. f[k] = f[k - 1] \o R[k]
        BY <2>1, <3>2 DEF FlattenStep
      <4> QED BY <2>3, <4>1, <4>2, Zenon
    <3> QED BY <3>1, <3>2
  <2>5. n \in 1..n
    BY <1>2
  <2> QED BY <2>1, <2>3, <2>4, <2>5, Zenon DEF Sums
<1> QED BY <1>1, <1>2

\* Two lists of pieces that are empty in the same places are put together alike.
LEMMA FlattenPlaced ==
  ASSUME NEW X, NEW n \in Nat, NEW S, NEW T, Len(S) = n, Len(T) = n, n = 0 => S = << >> /\ T = << >>,
         \A k \in 1..n : /\ S[k] \in Seq(X) /\ T[k] \in Seq(X) /\ Piece(S[k]) /\ Piece(T[k])
                         /\ Alike(S[k], T[k])
  PROVE  /\ FlattenSeq(S) \in Seq(X) /\ FlattenSeq(T) \in Seq(X)
         /\ Placed(FlattenSeq(S), FlattenSeq(T), S, T, n)
<1>2. PICK F : Sums(F, S, n)
  BY FlattenSums, Zenon
<1>3. PICK G : Sums(G, T, n)
  BY FlattenSums, Zenon
<1>4. F[n] \in Seq(X) /\ G[n] \in Seq(X) /\ Placed(F[n], G[n], S, T, n)
  BY <1>2, <1>3, PiecesPlaced, Zenon DEF Sums
<1> QED BY <1>2, <1>3, <1>4, Zenon DEF Sums

\* r has the elements of s that are in S: p says which they are, and misses none.
Choosing(p, r, s, S, n) ==
  /\ \A i \in DOMAIN r : p[i] \in 1..n /\ s[p[i]] \in S /\ r[i] = s[p[i]]
  /\ \A i, j \in DOMAIN r : p[i] = p[j] => i = j
  /\ \A j \in 1..n : s[j] \in S => \E i \in DOMAIN r : p[i] = j

\* Filtering puts together what it keeps.
LEMMA FilteredPlaced ==
  ASSUME NEW X, NEW s \in Seq(X), NEW S, NEW n \in Nat, n = Len(s)
  PROVE  \E p : Choosing(p, Filtered(s, S), s, S, n)
<1>1. PICK f : LeftOf(f, X, s, S, n)
  BY FilteredFrom, Zenon
<1>2. PICK Q : Q = [k \in 1..n |-> IF s[k] \in S THEN <<s[k]>> ELSE << >>]
  OBVIOUS
<1>3. ASSUME NEW k \in 1..n
      PROVE  /\ Q[k] \in Seq(X) /\ Piece(Q[k]) /\ f[k] = f[k - 1] \o Q[k]
             /\ Q[k] # << >> <=> s[k] \in S
             /\ s[k] \in S => Q[k][1] = s[k]
  <2>1. s[k] \in X /\ k - 1 \in 0..n
    OBVIOUS
  <2>2. PICK e : e = s[k]
    OBVIOUS
  <2>3. f[k] = IF e \in S THEN Append(f[k - 1], e) ELSE f[k - 1]
    BY <1>1, <2>2, Zenon DEF LeftOf, FilterStep
  <2>4. f[k - 1] \in Seq(X \cap S)
    BY <1>1, <2>1, Zenon DEF LeftOf
  <2>5. PICK t \in Seq(X \cap S) : t = f[k - 1]
    BY <2>4
  <2>6. CASE e \in S
    <3>1. Q[k] = <<e>>
      BY <1>2, <2>2, <2>6
    <3>2. Append(t, e) = t \o <<e>>
      BY <2>1, <2>2, <2>6
    <3>3. <<e>> \in Seq(X) /\ Piece(<<e>>) /\ <<e>> # << >> /\ <<e>>[1] = e
      BY <2>1, <2>2 DEF Piece
    <3> QED BY <2>2, <2>3, <2>5, <2>6, <3>1, <3>2, <3>3, Zenon
  <2>7. CASE e \notin S
    <3>1. Q[k] = << >>
      BY <1>2, <2>2, <2>7
    <3>2. t = t \o << >>
      BY <2>5
    <3>3. << >> \in Seq(X) /\ Piece(<< >>)
      BY DEF Piece
    <3> QED BY <2>2, <2>3, <2>5, <2>7, <3>1, <3>2, <3>3, Zenon
  <2> QED BY <2>6, <2>7
<1>4. \A k \in 1..n : Alike(Q[k], Q[k])
  BY DEF Alike
<1>5. Placed(f[n], f[n], Q, Q, n)
  <2>1. f[0] = << >>
    BY <1>1, Zenon DEF LeftOf
  <2> QED BY <1>3, <1>4, <2>1, PiecesPlaced, Zenon
<1>6. PICK r : r = f[n] /\ r = Filtered(s, S)
  BY <1>1, Zenon DEF LeftOf
<1>7. PICK p : Placing(p, r, r, Q, Q, n)
  BY <1>5, <1>6, Zenon DEF Placed
<1>8. Choosing(p, r, s, S, n)
  <2>1. ASSUME NEW i \in DOMAIN r PROVE p[i] \in 1..n /\ s[p[i]] \in S /\ r[i] = s[p[i]]
    <3>1. p[i] \in 1..n /\ Q[p[i]] # << >> /\ r[i] = Q[p[i]][1]
      BY <1>7, Zenon DEF Placing
    <3>2. PICK k \in 1..n : k = p[i]
      BY <3>1
    <3>3. s[k] \in S /\ Q[k][1] = s[k]
      BY <1>3, <3>1, <3>2, Zenon
    <3> QED BY <3>1, <3>2, <3>3, Zenon
  <2>2. \A i, j \in DOMAIN r : p[i] = p[j] => i = j
    BY <1>7, Zenon DEF Placing
  <2>3. ASSUME NEW j \in 1..n, s[j] \in S PROVE \E i \in DOMAIN r : p[i] = j
    <3>1. Q[j] # << >>
      BY <1>3, <2>3, Zenon
    <3> QED BY <1>7, <3>1, Zenon DEF Placing
  <2> QED BY <2>1, <2>2, <2>3, Zenon DEF Choosing
<1> QED BY <1>6, <1>8, Zenon

\* It has the elements of s that are in S, and each once if s has.
LEMMA FilteredSet ==
  ASSUME NEW X, NEW s \in Seq(X), NEW S
  PROVE  /\ ToSet(Filtered(s, S)) = ToSet(s) \cap S
         /\ IsInjective(s) => IsInjective(Filtered(s, S))
<1>1. PICK n \in Nat : n = Len(s) /\ DOMAIN s = 1..n
  OBVIOUS
<1>2. PICK r : r = Filtered(s, S)
  OBVIOUS
<1>3. PICK p : Choosing(p, r, s, S, n)
  BY <1>1, <1>2, FilteredPlaced, Zenon
<1>4. ToSet(r) = {r[i] : i \in DOMAIN r} /\ ToSet(s) = {s[i] : i \in DOMAIN s}
  BY DEF ToSet
<1>5. ToSet(r) \subseteq ToSet(s) \cap S
  <2> SUFFICES ASSUME NEW e \in ToSet(r) PROVE e \in ToSet(s) /\ e \in S
    BY Zenon
  <2>1. PICK i \in DOMAIN r : e = r[i]
    BY <1>4, Zenon
  <2>2. PICK j : j = p[i] /\ j \in 1..n /\ s[j] \in S /\ e = s[j]
    BY <1>3, <2>1, Zenon DEF Choosing
  <2> QED BY <1>1, <1>4, <2>2, Zenon
<1>6. ToSet(s) \cap S \subseteq ToSet(r)
  <2> SUFFICES ASSUME NEW e, e \in ToSet(s), e \in S PROVE e \in ToSet(r)
    BY Zenon
  <2>1. PICK j \in 1..n : e = s[j]
    BY <1>1, <1>4, Zenon
  <2>2. PICK i \in DOMAIN r : p[i] = j
    BY <1>3, <2>1, Zenon DEF Choosing
  <2>3. r[i] = e
    BY <1>3, <2>1, <2>2, Zenon DEF Choosing
  <2> QED BY <1>4, <2>3, Zenon
<1>7. ASSUME IsInjective(s) PROVE IsInjective(r)
  <2> SUFFICES ASSUME NEW i \in DOMAIN r, NEW j \in DOMAIN r, r[i] = r[j] PROVE i = j
    BY Zenon DEF IsInjective
  <2>1. p[i] \in 1..n /\ p[j] \in 1..n /\ s[p[i]] = s[p[j]]
    BY <1>3, Zenon DEF Choosing
  <2>2. p[i] = p[j]
    BY <1>1, <1>7, <2>1, Zenon DEF IsInjective
  <2> QED BY <1>3, <2>2, Zenon DEF Choosing
<1> QED BY <1>2, <1>5, <1>6, <1>7, Zenon

\* The elements of two sequences put together.
LEMMA ConcatSet ==
  ASSUME NEW X, NEW a \in Seq(X), NEW x \in Seq(X)
  PROVE  a \o x \in Seq(X) /\ ToSet(a \o x) = ToSet(a) \cup ToSet(x)
<1>1. PICK c \in Seq(X) : c = a \o x
  BY ConcatProperties
<1>2. PICK l \in Nat, m \in Nat : l = Len(a) /\ m = Len(x) /\ DOMAIN a = 1..l /\ DOMAIN x = 1..m
  OBVIOUS
<1>3. Len(c) = l + m /\ \A i \in 1..(l + m) : c[i] = IF i <= l THEN a[i] ELSE x[i - l]
  BY <1>1, <1>2, ConcatProperties
<1>4. DOMAIN c = 1..(l + m)
  BY <1>3
<1>5. /\ ToSet(c) = {c[i] : i \in 1..(l + m)} /\ ToSet(a) = {a[i] : i \in 1..l}
      /\ ToSet(x) = {x[i] : i \in 1..m}
  BY <1>2, <1>4 DEF ToSet
<1>6. ASSUME NEW i \in 1..(l + m) PROVE c[i] \in ToSet(a) \cup ToSet(x)
  <2>1. i <= l => i \in 1..l
    OBVIOUS
  <2>2. ~(i <= l) => i - l \in 1..m
    OBVIOUS
  <2> QED BY <1>3, <1>5, <2>1, <2>2, Zenon
<1>7. ASSUME NEW i \in 1..l PROVE a[i] \in ToSet(c)
  <2>1. i \in 1..(l + m) /\ i <= l
    OBVIOUS
  <2> QED BY <1>3, <1>5, <2>1, Zenon
<1>8. ASSUME NEW i \in 1..m PROVE x[i] \in ToSet(c)
  <2>1. PICK h \in 1..(l + m) : h = i + l /\ ~(h <= l) /\ h - l = i
    OBVIOUS
  <2>2. c[h] = x[i]
    BY <1>3, <2>1, Zenon
  <2> QED BY <1>5, <2>2, Zenon
<1>9. ToSet(c) = ToSet(a) \cup ToSet(x)
  BY <1>5, <1>6, <1>7, <1>8, Zenon
<1> QED BY <1>1, <1>9, Zenon

\* f is a sequence of the elements of R's sequences.
Gathers(f, X, R, n) == f \in Seq(X) /\ ToSet(f) = UNION {ToSet(R[k]) : k \in 1..n}

\* What is put together has the elements of the sequences and no others.
LEMMA FlattenMembers ==
  ASSUME NEW X, NEW n \in Nat, NEW R, Len(R) = n, n = 0 => R = << >>, \A k \in 1..n : R[k] \in Seq(X)
  PROVE  Gathers(FlattenSeq(R), X, R, n)
<1>1. PICK F : Sums(F, R, n)
  BY FlattenSums, Zenon
<1> DEFINE Good(k) == F[k] \in Seq(X) /\ ToSet(F[k]) = UNION {ToSet(R[j]) : j \in 1..k}
           Bad == {k \in 0..n : ~Good(k)}
<1>2. Good(0)
  <2>1. << >> \in Seq(X) /\ ToSet(<< >>) = {} /\ 1..0 = {}
    BY DEF ToSet
  <2> QED BY <1>1, <2>1, Zenon DEF Sums
<1>3. ASSUME NEW k \in 1..n, Good(k - 1) PROVE Good(k)
  <2>1. 1..k = (1..(k - 1)) \cup {k}
    OBVIOUS
  <2>2. PICK a \in Seq(X), x \in Seq(X) : a = F[k - 1] /\ x = R[k]
    BY <1>3, Zenon
  <2>3. F[k] = a \o x
    BY <1>1, <2>2, Zenon DEF Sums
  <2>4. a \o x \in Seq(X) /\ ToSet(a \o x) = ToSet(a) \cup ToSet(x)
    BY ConcatSet
  <2>5. ToSet(a) = UNION {ToSet(R[j]) : j \in 1..(k - 1)}
    BY <1>3, <2>2, Zenon
  <2>6. UNION {ToSet(R[j]) : j \in 1..k} = ToSet(a) \cup ToSet(x)
    BY <2>1, <2>2, <2>5, Zenon
  <2> QED BY <2>3, <2>4, <2>6, Zenon
<1> HIDE DEF Good
<1>4. Bad = {}
  <2>1. SUFFICES ASSUME Bad # {} PROVE FALSE
    OBVIOUS
  <2>2. PICK m \in Bad : \A k \in Bad : m <= k
    <3>1. Bad \in SUBSET Nat
      OBVIOUS
    <3> HIDE DEF Bad
    <3> QED BY <2>1, <3>1, LeastNumber
  <2>3. m \in 0..n /\ ~Good(m)
    BY <2>2
  <2>4. m # 0
    BY <1>2, <2>3
  <2>5. m \in 1..n /\ m - 1 \in 0..n /\ m \in Nat
    BY <2>3, <2>4
  <2>6. m - 1 \notin Bad
    <3> HIDE DEF Bad
    <3>1. ~(m <= m - 1)
      BY <2>5
    <3> QED BY <2>2, <3>1
  <2>7. Good(m - 1)
    BY <2>5, <2>6
  <2> QED BY <1>3, <2>3, <2>5, <2>7
<1>5. n \in 0..n
  OBVIOUS
<1>6. Good(n)
  BY <1>4, <1>5
<1> QED BY <1>1, <1>6, Zenon DEF Good, Sums, Gathers

-------------------------------------------------------------------------------
(* Sequences with an element put in, taken out or replaced.                *)

Inserted(t, s, i, e, n) ==
  Len(t) = n + 1 /\ \A j \in 1..(n + 1) : t[j] = IF j < i THEN s[j] ELSE IF j = i THEN e ELSE s[j - 1]
Removed(t, s, i, n) ==
  Len(t) = n /\ \A j \in 1..n : t[j] = IF j < i THEN s[j] ELSE s[j + 1]
PutLine(L, i, e) == [L EXCEPT ![i] = e]
Replaced(t, s, i, e, n) == Len(t) = n /\ t[i] = e /\ \A j \in 1..n : j # i => t[j] = s[j]

\* InsertAt puts one element in.
LEMMA InsertIs ==
  ASSUME NEW X, NEW s \in Seq(X), NEW n \in Nat, n = Len(s), NEW i \in 1..(n + 1), NEW e \in X
  PROVE  InsertAt(s, i, e) \in Seq(X) /\ Inserted(InsertAt(s, i, e), s, i, e, n)
<1>1. \A j \in 1..n : s[j] \in X
  OBVIOUS
<1>2. PICK a \in Seq(X) : a = SubSeq(s, 1, i - 1) /\ Len(a) = i - 1 /\ \A j \in 1..(i - 1) : a[j] = s[j]
  <2>1. \A j \in 1..(i - 1) : j \in 1..n
    OBVIOUS
  <2>2. SubSeq(s, 1, i - 1) \in Seq(X) /\ Len(SubSeq(s, 1, i - 1)) = i - 1
    BY <1>1, <2>1
  <2>3. \A j \in 1..(i - 1) : SubSeq(s, 1, i - 1)[j] = s[j]
    OBVIOUS
  <2> QED BY <2>2, <2>3, Zenon
<1>3. PICK z \in Seq(X) : z = SubSeq(s, i, n) /\ Len(z) = n - i + 1 /\ \A j \in 1..(n - i + 1) : z[j] = s[i + j - 1]
  <2>1. SubSeq(s, i, n) \in Seq(X) /\ Len(SubSeq(s, i, n)) = n - i + 1
    BY <1>1
  <2>2. \A j \in 1..(n - i + 1) : SubSeq(s, i, n)[j] = s[i + j - 1]
    OBVIOUS
  <2> QED BY <2>1, <2>2, Zenon
<1>4. PICK y \in Seq(X) : y = <<e>> /\ Len(y) = 1 /\ y[1] = e
  <2>1. <<e>> \in Seq(X) /\ Len(<<e>>) = 1 /\ <<e>>[1] = e
    OBVIOUS
  <2> QED BY <2>1, Zenon
<1>5. PICK c \in Seq(X) : c = a \o y /\ Len(c) = i /\ \A j \in 1..i : c[j] = IF j < i THEN s[j] ELSE e
  <2>1. PICK l \in Nat : l = Len(a) /\ i = l + 1
    BY <1>2
  <2>2. a \o y \in Seq(X) /\ Extends(a \o y, a, y, l)
    BY <1>4, <2>1, OneMore, Zenon
  <2>3. PICK c \in Seq(X) : c = a \o y /\ DOMAIN c = 1..i /\ (\A j \in 1..l : c[j] = a[j]) /\ c[i] = e
    BY <1>4, <2>1, <2>2, Zenon DEF Extends
  <2>4. Len(c) = i
    BY <2>3, DomainsTell
  <2>5. ASSUME NEW j \in 1..i PROVE c[j] = IF j < i THEN s[j] ELSE e
    <3>1. j < i => j \in 1..l /\ j \in 1..(i - 1)
      BY <2>1
    <3>2. ~(j < i) => j = i
      OBVIOUS
    <3> QED BY <1>2, <2>3, <3>1, <3>2, Zenon
  <2> QED BY <2>3, <2>4, <2>5, Zenon
<1>6. PICK t \in Seq(X) : t = c \o z
  BY ConcatProperties
<1>7. InsertAt(s, i, e) = t
  BY <1>2, <1>3, <1>4, <1>5, <1>6, Zenon DEF InsertAt
<1>8. Len(t) = i + (n - i + 1) /\ \A j \in 1..(i + (n - i + 1)) : t[j] = IF j <= i THEN c[j] ELSE z[j - i]
  <2>1. Len(t) = Len(c) + Len(z) /\ \A j \in 1..(Len(c) + Len(z)) : t[j] = IF j <= Len(c) THEN c[j] ELSE z[j - Len(c)]
    BY <1>6, ConcatProperties
  <2> QED BY <1>3, <1>5, <2>1, Zenon
<1>9. i + (n - i + 1) = n + 1
  OBVIOUS
<1>10. ASSUME NEW j \in 1..(n + 1) PROVE t[j] = IF j < i THEN s[j] ELSE IF j = i THEN e ELSE s[j - 1]
  <2>1. t[j] = IF j <= i THEN c[j] ELSE z[j - i]
    BY <1>8, <1>9, Zenon
  <2>2. CASE j <= i
    <3>1. j \in 1..i /\ (~(j < i) => j = i)
      BY <2>2
    <3> QED BY <1>5, <2>1, <2>2, <3>1, Zenon
  <2>3. CASE ~(j <= i)
    <3>1. j - i \in 1..(n - i + 1) /\ i + (j - i) - 1 = j - 1 /\ ~(j < i) /\ j # i
      BY <2>3
    <3> QED BY <1>3, <2>1, <2>3, <3>1, Zenon
  <2> QED BY <2>2, <2>3
<1> QED BY <1>7, <1>8, <1>9, <1>10, Zenon DEF Inserted

\* RemoveAt takes one element out.
LEMMA RemoveIs ==
  ASSUME NEW X, NEW s \in Seq(X), NEW n \in Nat, n + 1 = Len(s), NEW i \in 1..(n + 1)
  PROVE  RemoveAt(s, i) \in Seq(X) /\ Removed(RemoveAt(s, i), s, i, n)
<1>1. \A j \in 1..(n + 1) : s[j] \in X
  OBVIOUS
<1>2. PICK a \in Seq(X) : a = SubSeq(s, 1, i - 1) /\ Len(a) = i - 1 /\ \A j \in 1..(i - 1) : a[j] = s[j]
  <2>1. \A j \in 1..(i - 1) : j \in 1..(n + 1)
    OBVIOUS
  <2>2. SubSeq(s, 1, i - 1) \in Seq(X) /\ Len(SubSeq(s, 1, i - 1)) = i - 1
    BY <1>1, <2>1
  <2>3. \A j \in 1..(i - 1) : SubSeq(s, 1, i - 1)[j] = s[j]
    OBVIOUS
  <2> QED BY <2>2, <2>3, Zenon
<1>3. PICK z \in Seq(X) : /\ z = SubSeq(s, i + 1, n + 1) /\ Len(z) = n + 1 - i
                         /\ \A j \in 1..(n + 1 - i) : z[j] = s[i + j]
  <2>1. SubSeq(s, i + 1, n + 1) \in Seq(X) /\ Len(SubSeq(s, i + 1, n + 1)) = n + 1 - i
    BY <1>1
  <2>2. \A j \in 1..(n + 1 - i) : SubSeq(s, i + 1, n + 1)[j] = s[i + j]
    OBVIOUS
  <2> QED BY <2>1, <2>2, Zenon
<1>4. PICK t \in Seq(X) : t = a \o z
  BY ConcatProperties
<1>5. RemoveAt(s, i) = t
  BY <1>2, <1>3, <1>4, Zenon DEF RemoveAt
<1>6. /\ Len(t) = (i - 1) + (n + 1 - i)
      /\ \A j \in 1..((i - 1) + (n + 1 - i)) : t[j] = IF j <= i - 1 THEN a[j] ELSE z[j - (i - 1)]
  <2>1. Len(t) = Len(a) + Len(z) /\ \A j \in 1..(Len(a) + Len(z)) : t[j] = IF j <= Len(a) THEN a[j] ELSE z[j - Len(a)]
    BY <1>4, ConcatProperties
  <2> QED BY <1>2, <1>3, <2>1, Zenon
<1>7. (i - 1) + (n + 1 - i) = n
  OBVIOUS
<1>8. ASSUME NEW j \in 1..n PROVE t[j] = IF j < i THEN s[j] ELSE s[j + 1]
  <2>1. t[j] = IF j <= i - 1 THEN a[j] ELSE z[j - (i - 1)]
    BY <1>6, <1>7, Zenon
  <2>2. CASE j < i
    <3>1. j <= i - 1 /\ j \in 1..(i - 1)
      BY <2>2
    <3> QED BY <1>2, <2>1, <2>2, <3>1, Zenon
  <2>3. CASE ~(j < i)
    <3>1. ~(j <= i - 1) /\ j - (i - 1) \in 1..(n + 1 - i) /\ i + (j - (i - 1)) = j + 1
      BY <2>3
    <3> QED BY <1>3, <2>1, <2>3, <3>1, Zenon
  <2> QED BY <2>2, <2>3
<1> QED BY <1>5, <1>6, <1>7, <1>8, Zenon DEF Removed

\* EXCEPT replaces one element.
LEMMA ReplaceIs ==
  ASSUME NEW X, NEW s \in Seq(X), NEW n \in Nat, n = Len(s), NEW i \in 1..n, NEW e \in X
  PROVE  PutLine(s, i, e) \in Seq(X) /\ Replaced(PutLine(s, i, e), s, i, e, n)
<1>1. PICK t : t = [s EXCEPT ![i] = e]
  OBVIOUS
<1>2. t \in Seq(X) /\ Len(t) = n
  BY <1>1
<1>3. t[i] = e /\ \A j \in 1..n : j # i => t[j] = s[j]
  BY <1>1
<1> QED BY <1>1, <1>2, <1>3, Zenon DEF Replaced, PutLine

\* Sequences with the same elements are the same.
LEMMA SameSequence ==
  ASSUME NEW X, NEW s \in Seq(X), NEW t \in Seq(X), NEW n \in Nat, Len(s) = n, Len(t) = n,
         \A j \in 1..n : s[j] = t[j]
  PROVE  s = t
BY SeqEqual
===============================================================================
