-------------------------- MODULE RegionCache_proofs --------------------------
(***************************************************************************)
(* Proofs about RegionCache, for any number of callers, accounts, modes    *)
(* and regions, any resources and any time to live.                        *)
(***************************************************************************)
EXTENDS RegionCache, TLAPS

USE KeyAssumption, NoneAssumption, TimeAssumption

\* What is read from the cache file has the type of an entry, or is None.
LEMMA LoadedType ==
    ASSUME TypeOK, NEW p \in Callers
    PROVE  /\ Loaded \in Maps
           /\ KeyOf[p] \in Keys
           /\ FreshEntry(p) \in Entries \cup {None}
<1>1. Loaded \in Maps
  BY DEF TypeOK, Loaded, NoEntries, Maps
<1>2. KeyOf[p] \in Keys
  BY DEF Keys
<1> QED
  BY <1>1, <1>2 DEF FreshEntry, CacheKey, Maps

\* Every step, and a stutter, keeps the types.
LEMMA TypeStep == TypeOK /\ [Next]_vars => TypeOK'
<1> SUFFICES ASSUME TypeOK, [Next]_vars PROVE TypeOK'
  OBVIOUS
<1>0. NoEntries \in Maps
  BY DEF NoEntries, Maps
<1> USE DEF TypeOK, Phases, Goto
<1>1. ASSUME NEW p \in Callers, Identify(p) \/ LookUpFails(p) \/ ListFails(p) PROVE TypeOK'
  BY <1>1 DEF Identify, LookUpFails, ListFails
<1>2. ASSUME NEW p \in Callers, LookUp(p) PROVE TypeOK'
  <2>1. FreshEntry(p) \in Entries \cup {None}
    BY LoadedType
  <2>2. FreshEntry(p) # None => FreshEntry(p).regions \in SUBSET Regions
    BY <2>1 DEF Entries
  <2> QED
    BY <1>2, <2>1, <2>2 DEF LookUp
<1>3. ASSUME NEW p \in Callers, ListRegions(p) PROVE TypeOK'
  BY <1>3 DEF ListRegions
<1>4. ASSUME NEW p \in Callers, NEW r \in Regions, NEW d \in SUBSET Services, Probe(p, r, d)
      PROVE  TypeOK'
  <2>1. (~Seen(p, r, d) /\ "strict" \in d) \in BOOLEAN
    OBVIOUS
  <2>2. errors' \in [Callers -> BOOLEAN]
    BY <1>4, <2>1 DEF Probe
  <2>3. active' \in [Callers -> SUBSET Regions] /\ unprobed' \in [Callers -> SUBSET Regions]
    BY <1>4 DEF Probe
  <2> QED
    BY <1>4, <2>2, <2>3 DEF Probe
<1>5. ASSUME NEW p \in Callers, FinishProbing(p) PROVE TypeOK'
  BY <1>5 DEF FinishProbing
<1>6. ASSUME NEW p \in Callers, Merge(p) PROVE TypeOK'
  <2>1. [regions |-> active[p], at |-> now] \in Entries
    BY DEF Entries
  <2>2. [Loaded EXCEPT ![CacheKey(p)] = [regions |-> active[p], at |-> now]] \in Maps
    BY <2>1, LoadedType DEF Maps
  <2> QED
    BY <1>6, <2>2 DEF Merge
<1>7. ASSUME NEW p \in Callers, Truncate(p) \/ Write(p) \/ WriteFails(p) PROVE TypeOK'
  BY <1>0, <1>7 DEF Truncate, Write, WriteFails, Unreadable, Dumped
<1>8. ASSUME NEW p \in Callers, Crash(p) \/ ScanAgain(p) PROVE TypeOK'
  BY <1>0, <1>8 DEF Crash, ScanAgain
<1>9. CASE Tick
  BY <1>9 DEF Tick, callerVars
<1>10. CASE UNCHANGED vars
  BY <1>10 DEF vars, callerVars
<1> QED
  BY <1>1, <1>2, <1>3, <1>4, <1>5, <1>6, <1>7, <1>8, <1>9, <1>10 DEF Next, Step

\* The initial states have the types.
LEMMA TypeInit == Init => TypeOK
BY DEF Init, TypeOK, Phases, Unreadable, NoEntries, Maps

\* Type correctness of every reachable state.
THEOREM TypeCorrect == Spec => []TypeOK
BY TypeInit, TypeStep, PTL DEF Spec

-----------------------------------------------------------------------------
(***************************************************************************)
(* The inductive invariant. A map of entries is genuine when each entry is *)
(* a detection of its key; so is what can be read, and what any caller is  *)
(* about to write. A caller that is still probing has found no region too  *)
(* many, and unless an error is on record it still has before it every     *)
(* region with a strict resource that it has not found yet.                *)
(***************************************************************************)
Genuine(m) == \A k \in Keys : m[k] # None => IsDetection(k, m[k].regions)

ProbingOK(p) ==
    /\ \A r \in active[p] : HasResources(KeyOf[p], r)
    /\ ~errors[p] => \A r \in Regions : HasStrict(KeyOf[p], r) => r \in active[p] \cup unprobed[p]

CallerOK(p) ==
    /\ pc[p] \in {"identify", "lookup", "list"} => active[p] = {} /\ ~errors[p]
    /\ pc[p] = "probe" => ProbingOK(p)
    /\ pc[p] = "merge" => IsDetection(KeyOf[p], active[p])
    /\ Genuine(data[p])
    /\ hit[p] # None =>
          /\ pc[p] \in {"returned", "dead"}
          /\ active[p] = hit[p].regions
          /\ IsDetection(KeyOf[p], active[p])

IInv == TypeOK /\ Genuine(Loaded) /\ \A p \in Callers : CallerOK(p)

\* The caches of a file that does not parse, or that nobody wrote, are genuine.
LEMMA NoEntriesGenuine == Genuine(NoEntries)
BY DEF Genuine, NoEntries

\* What a detection is depends on the resources only, and these do not change.
LEMMA DetectionStable ==
    ASSUME holds' = holds
    PROVE  /\ \A k, r : HasResources(k, r)' = HasResources(k, r)
           /\ \A k, r : HasStrict(k, r)' = HasStrict(k, r)
           /\ \A k, rs : IsDetection(k, rs)' = IsDetection(k, rs)
           /\ \A m : Genuine(m)' = Genuine(m)
BY DEF Genuine, IsDetection, HasResources, HasStrict

\* A caller's invariant looks at its own variables only.
LEMMA OtherCaller ==
    ASSUME NEW p \in Callers, CallerOK(p), holds' = holds,
           pc'[p] = pc[p], unprobed'[p] = unprobed[p], active'[p] = active[p],
           errors'[p] = errors[p], data'[p] = data[p], hit'[p] = hit[p]
    PROVE  CallerOK(p)'
BY DetectionStable DEF CallerOK, ProbingOK

\* A region is seen only if it has a resource the caller's rules look at, and one
\* with a strict resource is seen unless an error is recorded.
LEMMA SeenFacts ==
    ASSUME TypeOK, NEW p \in Callers, NEW r \in Regions, NEW d \in SUBSET Services
    PROVE  /\ Seen(p, r, d) => HasResources(KeyOf[p], r)
           /\ HasStrict(KeyOf[p], r) /\ "strict" \notin d => Seen(p, r, d)
BY DEF Seen, HasResources, HasStrict, Probed, Services, TypeOK

\* A step of a caller keeps its own invariant.
LEMMA OwnStep ==
    ASSUME IInv, NEW p \in Callers, Step(p) \/ Crash(p) \/ ScanAgain(p)
    PROVE  CallerOK(p)'
<1>0. TypeOK /\ CallerOK(p) /\ Genuine(Loaded) /\ KeyOf[p] \in Keys
  BY DEF IInv, Keys
<1>1. holds' = holds
  BY DEF Step, Identify, LookUp, LookUpFails, ListRegions, ListFails, Probe, FinishProbing, Merge,
     Truncate, Write, WriteFails, Crash, ScanAgain
<1> USE <1>0, <1>1, DetectionStable, NoEntriesGenuine DEF Goto, TypeOK
<1>2. CASE Identify(p) \/ LookUpFails(p) \/ ListFails(p)
  BY <1>2 DEF Identify, LookUpFails, ListFails, CallerOK
<1>3. CASE LookUp(p)
  <2>1. FreshEntry(p) # None => IsDetection(KeyOf[p], FreshEntry(p).regions)
    BY DEF FreshEntry, CacheKey, Genuine
  <2>2. /\ UNCHANGED <<errors, data>>
        /\ hit'[p] = FreshEntry(p)
        /\ FreshEntry(p) # None => pc'[p] = "returned" /\ active'[p] = FreshEntry(p).regions
        /\ FreshEntry(p) = None => pc'[p] = "list" /\ active'[p] = active[p]
        /\ pc[p] = "lookup"
    BY <1>3 DEF LookUp
  <2> QED
    BY <2>1, <2>2 DEF CallerOK
<1>4. CASE ListRegions(p)
  BY <1>4 DEF ListRegions, CallerOK, ProbingOK
<1>5. ASSUME NEW r \in Regions, NEW d \in SUBSET Services, Probe(p, r, d) PROVE CallerOK(p)'
  <2>1. /\ pc[p] = "probe" /\ UNCHANGED <<pc, data, hit>>
        /\ unprobed'[p] = unprobed[p] \ {r}
        /\ active'[p] = IF Seen(p, r, d) THEN active[p] \cup {r} ELSE active[p]
        /\ errors'[p] <=> errors[p] \/ (~Seen(p, r, d) /\ "strict" \in d)
    BY <1>5 DEF Probe
  <2>2. ProbingOK(p)
    BY <2>1 DEF CallerOK
  <2>3. ProbingOK(p)'
    <3>1. \A q \in active'[p] : HasResources(KeyOf[p], q)
      BY <2>1, <2>2, SeenFacts DEF ProbingOK
    <3>2. ASSUME ~errors'[p], NEW q \in Regions, HasStrict(KeyOf[p], q)
          PROVE  q \in active'[p] \cup unprobed'[p]
      BY <2>1, <2>2, <3>2, SeenFacts DEF ProbingOK
    <3> QED
      BY <3>1, <3>2 DEF ProbingOK
  <2> QED
    BY <2>1, <2>3 DEF CallerOK
<1>6. CASE FinishProbing(p)
  <2>1. /\ pc[p] = "probe" /\ unprobed[p] = {} /\ UNCHANGED <<active, errors, data, hit>>
        /\ pc'[p] \in {"merge", "returned"}
        /\ pc'[p] = "merge" => active[p] # {} /\ ~errors[p]
    BY <1>6 DEF FinishProbing, Cacheable
  <2>2. pc'[p] = "merge" => IsDetection(KeyOf[p], active[p])
    BY <2>1 DEF CallerOK, ProbingOK, IsDetection
  <2> QED
    BY <2>1, <2>2 DEF CallerOK
<1>7. CASE Merge(p)
  <2> DEFINE merged == [Loaded EXCEPT ![KeyOf[p]] = [regions |-> active[p], at |-> now]]
  <2>1. /\ pc[p] = "merge" /\ pc'[p] = "truncate" /\ UNCHANGED <<active, errors, hit>>
        /\ data'[p] = merged
    BY <1>7 DEF Merge, CacheKey
  <2>2. IsDetection(KeyOf[p], active[p])
    BY <2>1 DEF CallerOK
  <2>3. Genuine(merged)
    BY <2>2, LoadedType DEF Genuine, Maps
  <2> QED
    BY <2>1, <2>3 DEF CallerOK
<1>8. CASE Truncate(p) \/ Write(p) \/ WriteFails(p)
  BY <1>8 DEF Truncate, Write, WriteFails, CallerOK
<1>9. CASE Crash(p) \/ ScanAgain(p)
  BY <1>9 DEF Crash, ScanAgain, CallerOK
<1> QED
  BY <1>2, <1>3, <1>4, <1>5, <1>6, <1>7, <1>8, <1>9 DEF Step

\* What can be read stays genuine: a step empties the file, tears it, or writes
\* what its caller merged, however old that is.
LEMMA FileStep ==
    ASSUME IInv, NEW p \in Callers, Step(p) \/ Crash(p) \/ ScanAgain(p)
    PROVE  Genuine(Loaded)'
<1>1. holds' = holds
  BY DEF Step, Identify, LookUp, LookUpFails, ListRegions, ListFails, Probe, FinishProbing, Merge,
     Truncate, Write, WriteFails, Crash, ScanAgain
<1>2. \/ file' = file
      \/ \E t \in {"empty", "torn"} : file' = Unreadable(t)
      \/ file' = Dumped(data[p])
  BY DEF Step, Identify, LookUp, LookUpFails, ListRegions, ListFails, Probe, FinishProbing, Merge,
     Truncate, Write, WriteFails, Crash, ScanAgain
<1>3. Loaded' \in {Loaded, NoEntries, data[p]}
  BY <1>2 DEF Loaded, Unreadable, Dumped
<1>4. Genuine(data[p])
  BY DEF IInv, CallerOK
<1>5. \A m \in {Loaded, NoEntries, data[p]} : Genuine(m)'
  BY <1>1, <1>4, NoEntriesGenuine, DetectionStable DEF IInv
<1> QED
  BY <1>1, <1>3, <1>5 DEF Genuine, IsDetection, HasResources, HasStrict

\* At first nothing can be read, and nobody has found anything.
LEMMA IInvInit == Init => IInv
BY TypeInit, NoEntriesGenuine
   DEF Init, IInv, CallerOK, ProbingOK, Loaded, Unreadable

\* Every step keeps the invariant.
LEMMA IInvStep == IInv /\ [Next]_vars => IInv'
<1> SUFFICES ASSUME IInv, [Next]_vars PROVE IInv'
  OBVIOUS
<1>1. TypeOK /\ TypeOK' /\ Genuine(Loaded) /\ \A p \in Callers : CallerOK(p)
  BY TypeStep DEF IInv
<1>2. ASSUME NEW p \in Callers, Step(p) \/ Crash(p) \/ ScanAgain(p) PROVE IInv'
  <2>1. /\ holds' = holds
        /\ \A q \in Callers : q # p =>
              /\ pc'[q] = pc[q] /\ unprobed'[q] = unprobed[q] /\ active'[q] = active[q]
              /\ errors'[q] = errors[q] /\ data'[q] = data[q] /\ hit'[q] = hit[q]
    BY <1>1, <1>2 DEF Step, Identify, LookUp, LookUpFails, ListRegions, ListFails, Probe,
       FinishProbing, Merge, Truncate, Write, WriteFails, Crash, ScanAgain, Goto, TypeOK
  <2>2. \A q \in Callers : CallerOK(q)'
    BY <1>1, <1>2, <2>1, OwnStep, OtherCaller
  <2> QED
    BY <1>1, <1>2, <2>2, FileStep DEF IInv
<1>3. CASE Tick \/ UNCHANGED vars
  <2>1. holds' = holds /\ Loaded' = Loaded /\ UNCHANGED callerVars
    BY <1>3 DEF Tick, vars, Loaded
  <2>2. \A q \in Callers : CallerOK(q)'
    BY <1>1, <2>1, OtherCaller DEF callerVars
  <2>3. Genuine(Loaded)'
    BY <1>1, <2>1, DetectionStable DEF Genuine
  <2> QED
    BY <1>1, <2>2, <2>3 DEF IInv
<1> QED
  BY <1>2, <1>3 DEF Next

\* The invariant holds of every reachable state.
LEMMA IInvHolds == Spec => []IInv
BY IInvInit, IInvStep, PTL DEF Spec

\* However many scans overlap, crash or fail while writing the file, every entry
\* that can be read is a complete detection of its own account and mode.
THEOREM CacheIsGenuine == Spec => []EntriesAreGenuine
<1>1. IInv => EntriesAreGenuine
  BY DEF IInv, Genuine, EntriesAreGenuine
<1> QED
  BY <1>1, IInvHolds, PTL

\* Whoever is served from the cache gets the regions of its own account and mode.
THEOREM HitsGenuine == Spec => []HitsAreGenuine
<1>1. IInv => HitsAreGenuine
  BY DEF IInv, CallerOK, HitsAreGenuine
<1> QED
  BY <1>1, IInvHolds, PTL

\* Nobody is served an entry that is older than the time to live.
THEOREM HitsFresh == Spec => HitsAreFresh
<1>1. TypeOK /\ [Next]_vars =>
        [\A p \in Callers : hit'[p] \notin {hit[p], None} => now - hit'[p].at <= TTL]_vars
  <2> SUFFICES ASSUME TypeOK, Next, NEW q \in Callers, hit'[q] \notin {hit[q], None}
               PROVE  now - hit'[q].at <= TTL
    OBVIOUS
  <2>1. PICK p \in Callers : LookUp(p)
    BY DEF Next, Step, Identify, LookUpFails, ListRegions, ListFails, Probe, FinishProbing,
       Merge, Truncate, Write, WriteFails, Crash, ScanAgain, Tick, callerVars, TypeOK
  <2>2. hit'[q] = FreshEntry(q)
    BY <2>1 DEF LookUp, TypeOK
  <2> QED
    BY <2>2 DEF FreshEntry
<1> QED
  BY <1>1, TypeCorrect, PTL DEF Spec, HitsAreFresh
=============================================================================
