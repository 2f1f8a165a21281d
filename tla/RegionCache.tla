----------------------------- MODULE RegionCache -----------------------------
(***************************************************************************)
(* Active region discovery of AWS scans (_get_active_aws_regions and       *)
(* _region_has_cleancloud_resources, providers/aws/scan.py) with the cache *)
(* file it shares with every other scan of the same user                   *)
(* (providers/aws/region_cache.py): ~/.cleancloud/region_cache.json, read, *)
(* modified and rewritten without a lock.                                  *)
(*                                                                         *)
(* A caller is a thread or process discovering the regions of one account  *)
(* for one mode (with or without the AI probes). The many API probes of a  *)
(* region are reduced to one service of each kind the code treats apart:   *)
(* "strict" (an error fails the region), "lenient" (Redshift, OpenSearch:  *)
(* an error is ignored) and "ai" (as lenient, only probed in AI mode).     *)
(***************************************************************************)
EXTENDS Naturals, FiniteSets

CONSTANTS
    Callers,     \* concurrent calls of _get_active_aws_regions
    KeyOf,       \* the account and mode of each caller: [account, ai]
    Regions,
    Holdings,    \* what may exist: sets of functions account -> region -> services
    TTL,         \* CACHE_TTL_SECONDS
    MaxTime,     \* bound of the clock
    None

Services == {"strict", "lenient", "ai"}
Keys == {KeyOf[p] : p \in Callers}

ASSUME KeyAssumption == \A p \in Callers : KeyOf[p].ai \in BOOLEAN
ASSUME HoldingsAssumption ==
    \A h \in Holdings : \A k \in Keys : h[k.account] \in [Regions -> SUBSET Services]
ASSUME TimeAssumption == TTL \in Nat /\ MaxTime \in Nat
ASSUME NoneAssumption == None \notin [regions : SUBSET Regions, at : Nat]

Phases == {"identify", "lookup", "list", "probe", "merge", "truncate", "write",
           "returned", "dead"}

VARIABLES
    holds,     \* the resources there are
    file,      \* the cache file: its text does not exist, is empty, does not parse
               \* ("torn"), or is a map
    now,       \* time.time()
    pc,        \* where each caller is
    known,     \* the caller knows its account_id
    unprobed,  \* regions whose probe has not finished
    active,    \* active_regions
    errors,    \* some region could not be checked
    data,      \* what set_cached_regions is about to write
    hit        \* the entry get_cached_regions returned, or None

callerVars == <<pc, known, unprobed, active, errors, data, hit>>
vars == <<holds, file, now, callerVars>>

Entries == [regions : SUBSET Regions, at : Nat]
Maps == [Keys -> Entries \cup {None}]
NoEntries == [k \in Keys |-> None]
Unreadable(t) == [text |-> t, map |-> NoEntries]
Dumped(m) == [text |-> "map", map |-> m]

\* Mutant: the key leaves out the discovery mode.
AccountOnlyKey(p) == CHOOSE k \in Keys : k.account = KeyOf[p].account

\* _cache_key
CacheKey(p) == KeyOf[p]

\* _load: a missing file or one that does not parse is an empty cache.
Loaded == IF file.text = "map" THEN file.map ELSE NoEntries

\* get_cached_regions
FreshEntry(p) ==
    LET entry == Loaded[CacheKey(p)]
    IN  IF entry # None /\ now - entry.at <= TTL THEN entry ELSE None

-----------------------------------------------------------------------------
Init ==
    /\ holds \in Holdings
    /\ file = Unreadable("absent")
    /\ now = 0
    /\ pc = [p \in Callers |-> "identify"]
    /\ known = [p \in Callers |-> FALSE]
    /\ unprobed = [p \in Callers |-> {}]
    /\ active = [p \in Callers |-> {}]
    /\ errors = [p \in Callers |-> FALSE]
    /\ data = [p \in Callers |-> NoEntries]
    /\ hit = [p \in Callers |-> None]

Goto(p, l) == pc' = [pc EXCEPT ![p] = l]

\* A later scan of the same user, after one that ended or was killed.
ScanAgain(p) ==
    /\ pc[p] \in {"returned", "dead"}
    /\ Goto(p, "identify")
    /\ known' = [known EXCEPT ![p] = FALSE]
    /\ unprobed' = [unprobed EXCEPT ![p] = {}]
    /\ active' = [active EXCEPT ![p] = {}]
    /\ errors' = [errors EXCEPT ![p] = FALSE]
    /\ hit' = [hit EXCEPT ![p] = None]
    /\ UNCHANGED <<holds, file, now, data>>

\* sts:GetCallerIdentity; without an account_id the cache is neither read nor written.
Identify(p) ==
    /\ pc[p] = "identify"
    /\ \E ok \in BOOLEAN : /\ known' = [known EXCEPT ![p] = ok]
                           /\ Goto(p, IF ok THEN "lookup" ELSE "list")
    /\ UNCHANGED <<holds, file, now, unprobed, active, errors, data, hit>>

LookUp(p) ==
    /\ pc[p] = "lookup"
    /\ hit' = [hit EXCEPT ![p] = FreshEntry(p)]
    /\ IF FreshEntry(p) # None
         THEN Goto(p, "returned") /\ active' = [active EXCEPT ![p] = FreshEntry(p).regions]
         ELSE Goto(p, "list") /\ UNCHANGED active
    /\ UNCHANGED <<holds, file, now, known, unprobed, errors, data>>

\* Any other failure to read the file also loses the account_id (line 185).
LookUpFails(p) ==
    /\ pc[p] = "lookup"
    /\ known' = [known EXCEPT ![p] = FALSE]
    /\ Goto(p, "list")
    /\ UNCHANGED <<holds, file, now, unprobed, active, errors, data, hit>>

ListRegions(p) ==
    /\ pc[p] = "list"
    /\ unprobed' = [unprobed EXCEPT ![p] = Regions]
    /\ Goto(p, "probe")
    /\ UNCHANGED <<holds, file, now, known, active, errors, data, hit>>

\* Mutant: a fixed fallback region, which the account need not have.
ListFailsWithFallback(p) ==
    /\ pc[p] = "list"
    /\ Goto(p, "returned")
    /\ active' = [active EXCEPT ![p] = {"us-east-1"}]
    /\ UNCHANGED <<holds, file, now, known, unprobed, errors, data, hit>>

\* ec2:DescribeRegions raises: return [].
ListFails(p) ==
    /\ pc[p] = "list"
    /\ Goto(p, "returned")
    /\ UNCHANGED <<holds, file, now, known, unprobed, active, errors, data, hit>>

\* _region_has_cleancloud_resources: the probes run in order and stop at the
\* first service with a resource, or at the first error of a strict one.
Seen(p, r, denied) ==
    LET there == holds[KeyOf[p].account][r] \ denied
    IN  \/ "strict" \in there
        \/ "strict" \notin denied /\ "lenient" \in there
        \/ "strict" \notin denied /\ KeyOf[p].ai /\ "ai" \in there

Probe(p, r, denied) ==
    /\ pc[p] = "probe"
    /\ r \in unprobed[p]
    /\ unprobed' = [unprobed EXCEPT ![p] = @ \ {r}]
    /\ active' = [active EXCEPT ![p] = IF Seen(p, r, denied) THEN @ \cup {r} ELSE @]
    /\ errors' = [errors EXCEPT ![p] = @ \/ (~Seen(p, r, denied) /\ "strict" \in denied)]
    /\ UNCHANGED <<holds, file, now, pc, known, data, hit>>

\* Mutant: an incomplete detection is cached too.
CacheableWithErrors(p) == known[p] /\ active[p] # {}

Cacheable(p) == known[p] /\ active[p] # {} /\ ~errors[p]

FinishProbing(p) ==
    /\ pc[p] = "probe"
    /\ unprobed[p] = {}
    /\ Goto(p, IF Cacheable(p) THEN "merge" ELSE "returned")
    /\ UNCHANGED <<holds, file, now, known, unprobed, active, errors, data, hit>>

\* Mutant: a file that does not parse raises out of set_cached_regions.
MergeNeedsValidFile(p) ==
    /\ pc[p] = "merge"
    /\ file.text # "torn"
    /\ data' = [data EXCEPT ![p] =
                  [Loaded EXCEPT ![CacheKey(p)] = [regions |-> active[p], at |-> now]]]
    /\ Goto(p, "truncate")
    /\ UNCHANGED <<holds, file, now, known, unprobed, active, errors, hit>>

\* set_cached_regions: load what is there now and put the entry in.
Merge(p) ==
    /\ pc[p] = "merge"
    /\ data' = [data EXCEPT ![p] =
                  [Loaded EXCEPT ![CacheKey(p)] = [regions |-> active[p], at |-> now]]]
    /\ Goto(p, "truncate")
    /\ UNCHANGED <<holds, file, now, known, unprobed, active, errors, hit>>

\* write_text opens the file for writing, which empties it ...
Truncate(p) ==
    /\ pc[p] = "truncate"
    /\ file' = Unreadable("empty")
    /\ Goto(p, "write")
    /\ UNCHANGED <<holds, now, known, unprobed, active, errors, data, hit>>

\* ... and then writes from the start. Over what another writer put there in the
\* meantime a shorter text leaves a tail, and the file no longer parses.
Write(p) ==
    /\ pc[p] = "write"
    /\ file' \in {Dumped(data[p])} \cup
                  (IF file.text = "empty" THEN {} ELSE {Unreadable("torn")})
    /\ Goto(p, "returned")
    /\ data' = [data EXCEPT ![p] = NoEntries]
    /\ UNCHANGED <<holds, now, known, unprobed, active, errors, hit>>

\* Opening or writing fails (OSError is ignored): the file keeps what it held, or
\* is left emptied or cut short.
WriteFails(p) ==
    /\ pc[p] \in {"truncate", "write"}
    /\ file' \in {file} \cup (IF pc[p] = "write" THEN {Unreadable("torn")} ELSE {})
    /\ Goto(p, "returned")
    /\ data' = [data EXCEPT ![p] = NoEntries]
    /\ UNCHANGED <<holds, now, known, unprobed, active, errors, hit>>

\* The process is killed. An emptied file stays as it is.
Crash(p) ==
    /\ pc[p] \notin {"returned", "dead"}
    /\ Goto(p, "dead")
    /\ data' = [data EXCEPT ![p] = NoEntries]
    /\ UNCHANGED <<holds, file, now, known, unprobed, active, errors, hit>>

Tick ==
    /\ now < MaxTime
    /\ now' = now + 1
    /\ UNCHANGED <<holds, file, callerVars>>

-----------------------------------------------------------------------------
Step(p) ==
    \/ Identify(p)
    \/ LookUp(p)
    \/ LookUpFails(p)
    \/ ListRegions(p)
    \/ ListFails(p)
    \/ \E r \in Regions, denied \in SUBSET Services : Probe(p, r, denied)
    \/ FinishProbing(p)
    \/ Merge(p)
    \/ Truncate(p)
    \/ Write(p)
    \/ WriteFails(p)

Next ==
    \/ \E p \in Callers : Step(p) \/ Crash(p) \/ ScanAgain(p)
    \/ Tick

Spec == Init /\ [][Next]_vars

\* Every running caller takes its next step; nobody has to crash or to scan again.
FairSpec == Spec /\ \A p \in Callers : WF_vars(Step(p))

-----------------------------------------------------------------------------
TypeOK ==
    /\ holds \in Holdings
    /\ file.text \in {"absent", "empty", "torn", "map"} /\ file.map \in Maps
    /\ now \in Nat
    /\ pc \in [Callers -> Phases]
    /\ known \in [Callers -> BOOLEAN]
    /\ unprobed \in [Callers -> SUBSET Regions]
    /\ active \in [Callers -> SUBSET Regions]
    /\ errors \in [Callers -> BOOLEAN]
    /\ data \in [Callers -> Maps]
    /\ hit \in [Callers -> Entries \cup {None}]

\* The services a key's discovery looks at.
Probed(k) == IF k.ai THEN Services ELSE Services \ {"ai"}
HasResources(k, r) == holds[k.account][r] \cap Probed(k) # {}
HasStrict(k, r) == "strict" \in holds[k.account][r]

\* What a complete detection for a key may have found.
IsDetection(k, rs) ==
    /\ rs # {}
    /\ \A r \in rs : HasResources(k, r)
    /\ \A r \in Regions : HasStrict(k, r) => r \in rs

\* Whatever writers overlap, crash or fail, and however the file is cut short, an
\* entry that can be read is an error-free, non-empty detection of its own
\* account and mode (scan.py:231-236, region_cache.py:47-50).
EntriesAreGenuine ==
    \A k \in Keys : Loaded[k] # None => IsDetection(k, Loaded[k].regions)

\* A caller that gets its regions from the cache gets those of its own account
\* and mode: none without a resource its rules look at, none with a resource of
\* a strict service left out (scan.py:178-184, region_cache.py:37-44).
HitsAreGenuine ==
    \A p \in Callers : hit[p] # None => active[p] = hit[p].regions /\ IsDetection(KeyOf[p], active[p])

\* Nothing older than the TTL is ever served.
HitsAreFresh ==
    [][\A p \in Callers : hit'[p] \notin {hit[p], None} => now - hit'[p].at <= TTL]_vars

\* Discovery never waits for another caller, and neither a torn file nor a crash
\* of another caller keeps it from answering.
EveryCallEnds == \A p \in Callers : pc[p] = "identify" ~> pc[p] \in {"returned", "dead"}
=============================================================================
