--------------------------- MODULE VertexScan_proofs ---------------------------
(***************************************************************************)
(* Proofs about VertexScan, for any resources, locations and answers.      *)
(***************************************************************************)
EXTENDS VertexScan, FiniteSetTheorems, WellFoundedInduction, TLAPS

USE NumbersAssumption, NoneIsAside, LocationsAssumption, ProjectsAssumption

-----------------------------------------------------------------------------
(* The stages of the rules *)

LEMMA StagesFacts ==
    /\ Rules = {"featurestore", "endpoint", "training", "tpu", "workbench"}
    /\ \A name \in Rules : Len(Stages[name]) \in {1, 2} /\ DOMAIN Stages[name] = 1 .. Len(Stages[name])
    /\ Len(Stages["endpoint"]) = 1
    /\ \A name \in Rules : \A k \in DOMAIN Stages[name] : Stages[name][k] \subseteq Collections
<1>1. Rules = {"featurestore", "endpoint", "training", "tpu", "workbench"}
  BY DEF Rules, Stages
<1>2. \A name \in Rules : Len(Stages[name]) \in {1, 2} /\ DOMAIN Stages[name] = 1 .. Len(Stages[name])
  BY <1>1 DEF Stages
<1>3. Len(Stages["endpoint"]) = 1
  BY DEF Stages
<1>4. \A name \in Rules : \A k \in DOMAIN Stages[name] : Stages[name][k] \subseteq Collections
  BY DEF Collections
<1> QED
  BY <1>1, <1>2, <1>3, <1>4

LEMMA LocationFacts ==
    ASSUME NEW S, NEW locations \in Seq(S), locations # <<>>
    PROVE  /\ Tail(locations) \in Seq(S)
           /\ Head(locations) \in S
           /\ \A i \in DOMAIN locations :
                 \/ locations[i] = Head(locations)
                 \/ \E j \in DOMAIN Tail(locations) : Tail(locations)[j] = locations[i]
<1>1. Tail(locations) \in Seq(S) /\ Head(locations) \in S /\ Head(locations) = locations[1]
  OBVIOUS
<1>2. /\ Len(Tail(locations)) = Len(locations) - 1
      /\ \A j \in 1 .. Len(locations) - 1 : Tail(locations)[j] = locations[j + 1]
  OBVIOUS
<1>3. ASSUME NEW i \in DOMAIN locations, i # 1
      PROVE  \E j \in DOMAIN Tail(locations) : Tail(locations)[j] = locations[i]
  <2>1. i - 1 \in 1 .. Len(locations) - 1 /\ DOMAIN Tail(locations) = 1 .. Len(locations) - 1
    BY <1>1, <1>2, <1>3
  <2>2. Tail(locations)[i - 1] = locations[(i - 1) + 1]
    BY <1>2, <2>1
  <2> QED
    BY <1>3, <2>1, <2>2
<1> QED
  BY <1>1, <1>3

-----------------------------------------------------------------------------
(* The steps of a listing come down to one *)

Places == {LocationList[i] : i \in DOMAIN LocationList}
Among(place, locations) == \E i \in DOMAIN locations : locations[i] = place

Types ==
    /\ rule \in Rules /\ project \in Projects
    /\ \A r \in Resources : \E k \in DOMAIN Stages[rule] : project[r].collection \in Stages[rule][k]
    /\ stage \in DOMAIN Stages[rule]
    /\ lister \in [Collections -> Listers]
    /\ left \in [Collections -> SUBSET Resources]
    /\ results \in [Collections -> SUBSET Resources]
    /\ listed \in [Collections -> SUBSET Resources]
    /\ todo \in [Collections -> Seq(Places)]
    /\ TypeOK

\* What the pages of a job listing have shown is kept.
Kept(c) ==
    rule = "training" =>
        /\ lister[c] = "waiting" => shown \cap In(c) = {}
        /\ lister[c] = "wildcard" => shown \cap In(c) \subseteq results[c]
        /\ lister[c] = "locations" => shown \cap In(c) \subseteq listed[c] \cup results[c]
        /\ lister[c] = "listed" => shown \cap In(c) \subseteq listed[c]

\* What an enumeration without a warning has returned, is to return, or is left to the
\* locations to come; the others are of a location that is not in the list, or of an
\* enumeration that was refused.
Seen(c) ==
    /\ lister[c] = "wildcard" => In(c) \subseteq left[c] \cup results[c]
    /\ lister[c] = "locations" =>
          \A r \in In(c) \ (listed[c] \cup left[c] \cup results[c] \cup refused) :
              project[r].location \in Places => Among(project[r].location, todo[c])
    /\ lister[c] = "listed" =>
          \A r \in In(c) \ (listed[c] \cup refused) : todo[c] = <<>> /\ project[r].location \notin Places
    /\ Kept(c)

\* What a step of the listing of c does to c,
Moves(c) ==
    /\ lister' \in [Collections -> Listers] /\ lister'[c] # "waiting"
    /\ left' \in [Collections -> SUBSET Resources]
    /\ results' \in [Collections -> SUBSET Resources]
    /\ listed' \in [Collections -> SUBSET Resources]
    /\ todo' \in [Collections -> Seq(Places)]
    /\ (left'[c] \cup results'[c] \cup listed'[c]) \subseteq In(c)
    /\ \A d \in Collections \ {c} :
          /\ lister'[d] = lister[d] /\ todo'[d] = todo[d]
          /\ left'[d] = left[d] /\ results'[d] = results[d] /\ listed'[d] = listed[d]

\* to what is known of the past,
Recalls(c) == shown' \subseteq shown \cup In(c) /\ refused \subseteq refused'

\* and to the rest.
ListStep(c) ==
    /\ pc = "listing" /\ lister[c] \in {"waiting", "wildcard", "locations"}
    /\ lister[c] = "waiting" => c \in Stages[rule][stage]
    /\ Moves(c) /\ Recalls(c)
    /\ UNCHANGED <<rule, project, stage, pc, inspection, raised>>
    /\ warned' \in BOOLEAN /\ (warned => warned')
    /\ Seen(c) /\ ~warned' => Seen(c)'

LEMMA InFacts == \A c \in Collections : In(c) \subseteq Resources /\ \A place : At(c, place) \subseteq In(c)
BY DEF In, At

LEMMA EnumerateMoves ==
    ASSUME Types, NEW c \in Collections, NEW place \in SUBSET Resources, Enumerate(c, place)
    PROVE  /\ left' \in [Collections -> SUBSET Resources] /\ left'[c] = place
           /\ results' \in [Collections -> SUBSET Resources] /\ results'[c] = {}
           /\ \A d \in Collections \ {c} : left'[d] = left[d] /\ results'[d] = results[d]
BY DEF Types, Enumerate

LEMMA GotoMoves ==
    ASSUME Types, NEW c \in Collections, NEW state \in Listers, Goto(c, state)
    PROVE  /\ lister' \in [Collections -> Listers] /\ lister'[c] = state
           /\ \A d \in Collections \ {c} : lister'[d] = lister[d]
BY DEF Types, Goto

\* The next location, or the end.
LEMMA NextLocationMoves ==
    ASSUME Types, NEW c \in Collections, NEW found \in SUBSET In(c), NEW locations \in Seq(Places),
           NextLocation(c, locations, found)
    PROVE  /\ Moves(c)
           /\ listed'[c] = found
           /\ \/ locations = <<>> /\ lister'[c] = "listed" /\ todo'[c] = <<>>
              \/ /\ locations # <<>> /\ lister'[c] = "locations"
                 /\ left'[c] = At(c, Head(locations)) /\ todo'[c] = Tail(locations)
<1>1. /\ listed' \in [Collections -> SUBSET Resources] /\ listed'[c] = found
      /\ \A d \in Collections \ {c} : listed'[d] = listed[d]
  BY InFacts DEF NextLocation, Types
<1>2. CASE locations = <<>>
  <2>1. Goto(c, "listed") /\ Enumerate(c, {}) /\ todo' = [todo EXCEPT ![c] = <<>>]
    BY <1>2 DEF NextLocation
  <2>2. /\ todo' \in [Collections -> Seq(Places)] /\ todo'[c] = <<>>
        /\ \A d \in Collections \ {c} : todo'[d] = todo[d]
    BY <2>1 DEF Types
  <2>3. /\ lister' \in [Collections -> Listers] /\ lister'[c] = "listed"
        /\ \A d \in Collections \ {c} : lister'[d] = lister[d]
    BY <2>1, GotoMoves DEF Listers
  <2>4. /\ left' \in [Collections -> SUBSET Resources] /\ left'[c] = {}
        /\ results' \in [Collections -> SUBSET Resources] /\ results'[c] = {}
        /\ \A d \in Collections \ {c} : left'[d] = left[d] /\ results'[d] = results[d]
    BY <2>1, EnumerateMoves
  <2> QED
    BY <1>1, <1>2, <2>2, <2>3, <2>4 DEF Moves
<1>3. CASE locations # <<>>
  <2>1. /\ Goto(c, "locations") /\ Enumerate(c, At(c, Head(locations)))
        /\ todo' = [todo EXCEPT ![c] = Tail(locations)]
    BY <1>3 DEF NextLocation
  <2>2. /\ todo' \in [Collections -> Seq(Places)] /\ todo'[c] = Tail(locations)
        /\ \A d \in Collections \ {c} : todo'[d] = todo[d]
    BY <1>3, <2>1, LocationFacts DEF Types
  <2>3. /\ lister' \in [Collections -> Listers] /\ lister'[c] = "locations"
        /\ \A d \in Collections \ {c} : lister'[d] = lister[d]
    BY <2>1, GotoMoves DEF Listers
  <2>4. At(c, Head(locations)) \subseteq In(c) /\ At(c, Head(locations)) \in SUBSET Resources
    BY InFacts
  <2>5. /\ left' \in [Collections -> SUBSET Resources] /\ left'[c] = At(c, Head(locations))
        /\ results' \in [Collections -> SUBSET Resources] /\ results'[c] = {}
        /\ \A d \in Collections \ {c} : left'[d] = left[d] /\ results'[d] = results[d]
    BY <2>1, <2>4, EnumerateMoves
  <2> QED
    BY <1>1, <1>3, <2>2, <2>3, <2>4, <2>5 DEF Moves
<1> QED
  BY <1>2, <1>3

\* It leaves out nothing that was found or is still to come.
LEMMA NextLocationSeen ==
    ASSUME Types, NEW c \in Collections, NEW found \in SUBSET In(c), NEW locations \in Seq(Places),
           NextLocation(c, locations, found), UNCHANGED <<rule, project>>,
           rule = "training" => shown' \cap In(c) \subseteq found,
           \A r \in In(c) \ (found \cup refused') :
               project[r].location \in Places => Among(project[r].location, locations)
    PROVE  Seen(c)'
<1>1. In(c)' = In(c)
  BY DEF In
<1>0. Kept(c)'
  BY <1>1, NextLocationMoves DEF Kept
<1>2. CASE locations = <<>>
  <2>1. \A place : ~Among(place, locations)
    BY <1>2 DEF Among
  <2> QED
    BY <1>0, <1>1, <1>2, <2>1, NextLocationMoves DEF Seen, Places
<1>3. CASE locations # <<>>
  <2>1. \A r \in In(c) \ (found \cup refused' \cup At(c, Head(locations))) :
            project[r].location \in Places => Among(project[r].location, Tail(locations))
    <3> SUFFICES ASSUME NEW r \in In(c), r \notin found, r \notin refused', r \notin At(c, Head(locations)),
                        project[r].location \in Places
                 PROVE  Among(project[r].location, Tail(locations))
      OBVIOUS
    <3>1. PICK i \in DOMAIN locations : locations[i] = project[r].location
      BY DEF Among
    <3>2. project[r].location # Head(locations)
      BY DEF At
    <3> QED
      BY <1>3, <3>1, <3>2, LocationFacts DEF Among
  <2>2. /\ lister'[c] = "locations" /\ listed'[c] = found
        /\ left'[c] = At(c, Head(locations)) /\ todo'[c] = Tail(locations)
    BY <1>3, NextLocationMoves
  <2> QED
    BY <1>0, <1>1, <2>1, <2>2 DEF Seen, Places, Among
<1> QED
  BY <1>2, <1>3

\* The end of an enumeration that found what there was, or was refused the rest.
LEMMA EndEnumerationMoves ==
    ASSUME Types, NEW c \in Collections, Busy(c), NEW found \in SUBSET In(c),
           EndEnumeration(c, found), UNCHANGED <<rule, project>>,
           shown' \subseteq shown \cup found, refused \subseteq refused'
    PROVE  /\ Moves(c)
           /\ /\ Seen(c) /\ left[c] \cup results[c] \subseteq found \cup refused'
              /\ rule = "training" => results[c] \subseteq found
              => Seen(c)'
<1>1. In(c)' = In(c)
  BY DEF In
<1>2. CASE lister[c] = "wildcard"
  <2>1. /\ Goto(c, "listed") /\ listed' = [listed EXCEPT ![c] = found]
        /\ Enumerate(c, {}) /\ UNCHANGED todo
    BY <1>2 DEF EndEnumeration
  <2>2. /\ listed' \in [Collections -> SUBSET Resources] /\ listed'[c] = found
        /\ \A d \in Collections \ {c} : listed'[d] = listed[d]
    BY <2>1, InFacts DEF Types
  <2>3. /\ lister' \in [Collections -> Listers] /\ lister'[c] = "listed"
        /\ \A d \in Collections \ {c} : lister'[d] = lister[d]
    BY <2>1, GotoMoves DEF Listers
  <2>4. /\ left' \in [Collections -> SUBSET Resources] /\ left'[c] = {}
        /\ results' \in [Collections -> SUBSET Resources] /\ results'[c] = {}
        /\ \A d \in Collections \ {c} : left'[d] = left[d] /\ results'[d] = results[d]
    BY <2>1, EnumerateMoves
  <2>5. Moves(c)
    BY <2>1, <2>2, <2>3, <2>4 DEF Moves, Types
  <2>6. ASSUME Seen(c), left[c] \cup results[c] \subseteq found \cup refused',
               rule = "training" => results[c] \subseteq found
        PROVE  Seen(c)'
    <3>1. Kept(c)'
      BY <1>1, <1>2, <2>2, <2>3, <2>6 DEF Seen, Kept
    <3> QED
      BY <1>1, <1>2, <2>2, <2>3, <2>6, <3>1 DEF Seen
  <2> QED
    BY <2>5, <2>6
<1>3. CASE lister[c] = "locations"
  <2>1. NextLocation(c, todo[c], listed[c] \cup found)
    BY <1>3 DEF EndEnumeration
  <2>2. listed[c] \cup found \in SUBSET In(c) /\ todo[c] \in Seq(Places)
    BY DEF Types, TypeOK
  <2>3. Moves(c)
    BY <2>1, <2>2, NextLocationMoves
  <2>4. ASSUME Seen(c), left[c] \cup results[c] \subseteq found \cup refused',
               rule = "training" => results[c] \subseteq found
        PROVE  Seen(c)'
    <3>1. \A r \in In(c) \ (listed[c] \cup found \cup refused') :
              project[r].location \in Places => Among(project[r].location, todo[c])
      BY <1>3, <2>4 DEF Seen
    <3>2. rule = "training" => shown' \cap In(c) \subseteq listed[c] \cup found
      BY <1>3, <2>4 DEF Seen, Kept
    <3> QED
      BY <2>1, <2>2, <3>1, <3>2, NextLocationSeen
  <2> QED
    BY <2>3, <2>4
<1> QED
  BY <1>2, <1>3 DEF Busy

\* A step that only says how the listing ended.
LEMMA GotoEnds ==
    ASSUME Types, NEW c \in Collections, NEW state \in {"denied", "failed"}, Goto(c, state),
           UNCHANGED <<project, left, results, todo, listed>>
    PROVE  Moves(c) /\ Seen(c)'
<1>1. /\ lister' \in [Collections -> Listers] /\ lister'[c] = state
      /\ \A d \in Collections \ {c} : lister'[d] = lister[d]
  BY GotoMoves DEF Listers
<1> QED
  BY <1>1 DEF Moves, Seen, Kept, Types, TypeOK

\* An enumeration of which nothing is taken.
LEMMA DiscardMoves ==
    ASSUME Types, NEW c \in Collections, Busy(c), ~KeepsPages(c) \/ rule = "tpu", Discard(c),
           UNCHANGED <<rule, project, shown>>
    PROVE  Moves(c) /\ Recalls(c) /\ (Seen(c) => Seen(c)')
<1>1. /\ EndEnumeration(c, {}) /\ refused \subseteq refused'
      /\ left[c] \cup results[c] \subseteq {} \cup refused'
  BY DEF Discard
<1>2. rule = "training" => results[c] \subseteq {}
  BY DEF KeepsPages
<1>3. Moves(c) /\ (Seen(c) => Seen(c)')
  BY <1>1, <1>2, EndEnumerationMoves
<1> QED
  BY <1>1, <1>3 DEF Recalls

LEMMA ListShape ==
    ASSUME Types, NEW c \in Collections, List(c)
    PROVE  ListStep(c)
<1> USE DEF ListStep
<1>0. left[c] \subseteq In(c) /\ results[c] \subseteq In(c) /\ listed[c] \subseteq In(c) /\ warned \in BOOLEAN
  BY DEF Types, TypeOK
<1>1. CASE Start(c)
  <2>1. /\ pc = "listing" /\ lister[c] = "waiting" /\ c \in Stages[rule][stage]
        /\ UNCHANGED <<rule, project, stage, pc, history, inspection, warned, raised>>
    BY <1>1 DEF Start
  <2>4. Recalls(c) /\ UNCHANGED <<shown, refused>>
    BY <2>1 DEF Recalls, history
  <2>2. CASE c \in unsupported
    <3>1. NextLocation(c, LocationList, {})
      BY <1>1, <2>2 DEF Start
    <3>2. \A r \in In(c) : project[r].location \in Places => Among(project[r].location, LocationList)
      BY DEF Places, Among
    <3>3. LocationList \in Seq(Places)
      BY DEF Places
    <3>4. Moves(c)
      BY <3>1, <3>3, NextLocationMoves
    <3>5. Seen(c) => Seen(c)'
      <4>1. Seen(c) /\ rule = "training" => shown' \cap In(c) \subseteq {}
        BY <2>1, <2>4 DEF Seen, Kept
      <4> QED
        BY <2>1, <3>1, <3>2, <3>3, <4>1, NextLocationSeen
    <3> QED
      BY <1>0, <2>1, <2>4, <3>4, <3>5
  <2>3. CASE c \notin unsupported
    <3>1. Goto(c, "wildcard") /\ Enumerate(c, In(c)) /\ UNCHANGED <<todo, listed>>
      BY <1>1, <2>3 DEF Start
    <3>2. /\ lister' \in [Collections -> Listers] /\ lister'[c] = "wildcard"
          /\ \A d \in Collections \ {c} : lister'[d] = lister[d]
      BY <3>1, GotoMoves DEF Listers
    <3>3. /\ left' \in [Collections -> SUBSET Resources] /\ left'[c] = In(c)
          /\ results' \in [Collections -> SUBSET Resources] /\ results'[c] = {}
          /\ \A d \in Collections \ {c} : left'[d] = left[d] /\ results'[d] = results[d]
      BY <3>1, InFacts, EnumerateMoves
    <3>4. Moves(c)
      BY <1>0, <3>1, <3>2, <3>3 DEF Moves, Types
    <3>5. Seen(c) => Seen(c)'
      BY <2>1, <2>4, <3>2, <3>3 DEF Seen, Kept, In
    <3> QED
      BY <1>0, <2>1, <2>4, <3>4, <3>5
  <2> QED
    BY <2>2, <2>3
<1>2. CASE Page(c)
  <2>1. /\ Busy(c) /\ UNCHANGED <<rule, project, stage, pc, refused, inspection, warned, raised>>
    BY <1>2 DEF Page
  <2>2. PICK page \in SUBSET left[c] :
            /\ shown' = shown \cup page
            /\ IF page = left[c] THEN EndEnumeration(c, results[c] \cup page)
               ELSE /\ left' = [left EXCEPT ![c] = @ \ page]
                    /\ results' = [results EXCEPT ![c] = @ \cup page]
                    /\ UNCHANGED <<lister, todo, listed>>
    BY <1>2 DEF Page
  <2>5. Recalls(c)
    BY <1>0, <2>1, <2>2 DEF Recalls
  <2>3. CASE page = left[c]
    <3>1. Moves(c) /\ (Seen(c) => Seen(c)')
      BY <1>0, <2>1, <2>2, <2>3, EndEnumerationMoves
    <3> QED
      BY <1>0, <2>1, <2>5, <3>1 DEF Busy
  <2>4. CASE page # left[c]
    <3>1. /\ left' \in [Collections -> SUBSET Resources] /\ left'[c] = left[c] \ page
          /\ results' \in [Collections -> SUBSET Resources] /\ results'[c] = results[c] \cup page
          /\ \A d \in Collections \ {c} : left'[d] = left[d] /\ results'[d] = results[d]
      <4>1. left[c] \ page \in SUBSET Resources /\ results[c] \cup page \in SUBSET Resources
        BY DEF Types
      <4>2. left' = [left EXCEPT ![c] = left[c] \ page] /\ results' = [results EXCEPT ![c] = results[c] \cup page]
        BY <2>2, <2>4
      <4> QED
        BY <4>1, <4>2 DEF Types
    <3>2. Moves(c)
      BY <1>0, <2>1, <2>2, <2>4, <3>1 DEF Moves, Types, Busy
    <3>3. Seen(c) => Seen(c)'
      <4>1. In(c)' = In(c) /\ lister'[c] = lister[c] /\ todo'[c] = todo[c] /\ listed'[c] = listed[c]
        BY <2>1, <2>2, <2>4 DEF In
      <4>2. Kept(c) => Kept(c)'
        BY <2>1, <2>2, <3>1, <4>1 DEF Kept, Busy
      <4>3. left'[c] \cup results'[c] = left[c] \cup results[c]
        BY <3>1
      <4> QED
        BY <2>1, <4>1, <4>2, <4>3 DEF Seen
    <3> QED
      BY <1>0, <2>1, <2>5, <3>2, <3>3 DEF Busy
  <2> QED
    BY <2>3, <2>4
<1>3. CASE Denied(c)
  <2>1. /\ Busy(c) /\ UNCHANGED <<rule, project, stage, pc, shown, inspection, warned, raised>>
    BY <1>3 DEF Denied
  <2>2. CASE Goto(c, "denied") /\ UNCHANGED <<left, results, todo, listed, refused>>
    BY <1>0, <2>1, <2>2, GotoEnds DEF Busy, Recalls
  <2>3. CASE rule = "tpu" /\ Discard(c)
    BY <1>0, <2>1, <2>3, DiscardMoves DEF Busy
  <2> QED
    BY <1>3, <2>2, <2>3 DEF Denied
<1>4. CASE NotFound(c)
  <2>1. /\ Busy(c) /\ UNCHANGED <<rule, project, stage, pc, shown, inspection, raised>>
        /\ ~KeepsPages(c) /\ Discard(c) /\ warned' = (warned \/ rule = "workbench")
    BY <1>4 DEF NotFound
  <2> QED
    BY <1>0, <2>1, DiscardMoves DEF Busy
<1>5. CASE BadRequest(c)
  <2>1. /\ Busy(c) /\ ~KeepsPages(c) /\ UNCHANGED <<rule, project, stage, pc, shown, inspection, raised>>
    BY <1>5 DEF BadRequest
  <2>2. CASE lister[c] = "wildcard" /\ NextLocation(c, LocationList, {}) /\ UNCHANGED <<refused, warned>>
    <3>1. \A r \in In(c) : project[r].location \in Places => Among(project[r].location, LocationList)
      BY DEF Places, Among
    <3>2. LocationList \in Seq(Places)
      BY DEF Places
    <3>3. Moves(c) /\ Recalls(c)
      BY <2>1, <2>2, <3>2, NextLocationMoves DEF Recalls
    <3>4. Seen(c) => Seen(c)'
      <4>1. Seen(c) /\ rule = "training" => shown' \cap In(c) \subseteq {}
        BY <2>1, <2>2 DEF Seen, Kept, KeepsPages
      <4> QED
        BY <2>1, <2>2, <3>1, <3>2, <4>1, NextLocationSeen
    <3> QED
      BY <1>0, <2>1, <2>2, <3>3, <3>4 DEF Busy
  <2>3. CASE Discard(c) /\ UNCHANGED warned
    BY <1>0, <2>1, <2>3, DiscardMoves DEF Busy
  <2>5. CASE Discard(c) /\ warned' = TRUE
    BY <1>0, <2>1, <2>5, DiscardMoves DEF Busy
  <2>4. CASE Goto(c, "failed") /\ UNCHANGED <<left, results, todo, listed, refused, warned>>
    BY <1>0, <2>1, <2>4, GotoEnds DEF Busy, Recalls
  <2> QED
    BY <1>5, <2>2, <2>3, <2>4, <2>5 DEF BadRequest
<1>6. CASE ServerError(c)
  <2>1. /\ Busy(c) /\ UNCHANGED <<rule, project, stage, pc, shown, refused, inspection, raised>>
    BY <1>6 DEF ServerError, history
  <2>2. CASE Goto(c, "failed") /\ UNCHANGED <<left, results, todo, listed, warned>>
    BY <1>0, <2>1, <2>2, GotoEnds DEF Busy, Recalls
  <2>3. CASE EndEnumeration(c, results[c]) /\ warned' = TRUE
    BY <1>0, <2>1, <2>3, EndEnumerationMoves DEF Busy, Recalls
  <2> QED
    BY <1>6, <2>2, <2>3 DEF ServerError
<1> QED
  BY <1>1, <1>2, <1>3, <1>4, <1>5, <1>6 DEF List

-----------------------------------------------------------------------------
(* And so do those of the inspection *)

InspectStep ==
    /\ pc = "inspecting"
    /\ inspected \subseteq inspected' /\ inspected' \subseteq Resources
    /\ {f.resource : f \in findings'} \subseteq inspected'
    /\ warned' \in BOOLEAN /\ (warned => warned')
    /\ UNCHANGED <<rule, project, stage, pc, listing, raised>>

LEMMA InspectsFacts ==
    ASSUME Types, NEW rs \in SUBSET ToInspect, Inspects(rs)
    PROVE  /\ inspected \subseteq inspected' /\ inspected' \subseteq Resources /\ rs \subseteq inspected'
           /\ {f.resource : f \in findings} \subseteq inspected'
           /\ UNCHANGED <<rule, project, stage, pc, listing, raised>>
<1>1. ToInspect \subseteq Resources
  <2>1. Stages[rule][stage] \subseteq Collections
    BY StagesFacts DEF Types
  <2> QED
    BY <2>1 DEF ToInspect, Types
<1> QED
  BY <1>1 DEF Inspects, Types, TypeOK

LEMMA InspectShape ==
    ASSUME Types,
           \E r \in Resources : \/ InspectStore(r) \/ InspectJob(r) \/ InspectNode(r) \/ InspectInstance(r)
                                \/ InspectLocation(project[r].location)
    PROVE  InspectStep
<1>0. warned \in BOOLEAN
  BY DEF Types, TypeOK
<1>1. ASSUME NEW r \in Resources, InspectStore(r)
      PROVE  InspectStep
  <2>1. pc = "inspecting" /\ r \in ToInspect /\ Inspects({r})
    BY <1>1 DEF InspectStore
  <2>2. \A answer : LegacyFinding(r, answer).resource = r /\ OnlineFinding(r, answer).resource = r
    BY DEF LegacyFinding, OnlineFinding
  <2>3. \/ UNCHANGED findings
        \/ \E answer \in StoreAnswers :
              findings' = findings \cup
                  IF StoreTelemetry(answer) # "confirmed_zero" THEN {}
                  ELSE IF project[r].collection = "featurestores"
                       THEN {LegacyFinding(r, answer)} ELSE {OnlineFinding(r, answer)}
    BY <1>1 DEF InspectStore
  <2>4. warned' \in BOOLEAN /\ (warned => warned')
    <3>1. warned' = TRUE \/ UNCHANGED warned
      BY <1>1, Zenon DEF InspectStore
    <3> QED
      BY <1>0, <3>1
  <2>5. \A f \in findings' : f \in findings \/ f.resource = r
    <3>1. CASE UNCHANGED findings
      BY <3>1
    <3>2. ASSUME NEW answer \in StoreAnswers,
                 findings' = findings \cup
                     IF StoreTelemetry(answer) # "confirmed_zero" THEN {}
                     ELSE IF project[r].collection = "featurestores"
                          THEN {LegacyFinding(r, answer)} ELSE {OnlineFinding(r, answer)}
          PROVE  \A f \in findings' : f \in findings \/ f.resource = r
      BY <2>2, <3>2
    <3> QED
      BY <2>3, <3>1, <3>2
  <2> QED
    BY <2>1, <2>4, <2>5, InspectsFacts DEF InspectStep
<1>2. ASSUME NEW r \in Resources, InspectJob(r)
      PROVE  InspectStep
  <2>1. pc = "inspecting" /\ r \in ToInspect /\ Inspects({r})
    BY <1>2 DEF InspectJob
  <2>2. JobFinding(r).resource = r
    BY DEF JobFinding
  <2>3. \A f \in findings' : f \in findings \/ f.resource = r
    BY <1>2, <2>2 DEF InspectJob
  <2>4. warned' \in BOOLEAN /\ (warned => warned')
    BY <1>0, <1>2 DEF InspectJob
  <2> QED
    BY <2>1, <2>3, <2>4, InspectsFacts DEF InspectStep
<1>3. ASSUME NEW r \in Resources, InspectNode(r)
      PROVE  InspectStep
  <2>1. pc = "inspecting" /\ r \in ToInspect /\ Inspects({r}) /\ findings' = findings
    BY <1>3 DEF InspectNode
  <2>2. warned' \in BOOLEAN /\ (warned => warned')
    BY <1>0, <1>3 DEF InspectNode
  <2> QED
    BY <2>1, <2>2, InspectsFacts DEF InspectStep
<1>4. ASSUME NEW r \in Resources, InspectInstance(r)
      PROVE  InspectStep
  <2>1. pc = "inspecting" /\ r \in ToInspect /\ Inspects({r}) /\ findings' = findings
    BY <1>4 DEF InspectInstance
  <2>2. warned' \in BOOLEAN /\ (warned => warned')
    BY <1>0, <1>4 DEF InspectInstance
  <2> QED
    BY <2>1, <2>2, InspectsFacts DEF InspectStep
<1>5. ASSUME NEW location, InspectLocation(location)
      PROVE  InspectStep
  <2> DEFINE here == {r \in ToInspect : project[r].location = location}
  <2>1. pc = "inspecting" /\ Inspects(here)
    BY <1>5 DEF InspectLocation
  <2>2. \A r, answer : EndpointFinding(r, answer).resource = r
    BY DEF EndpointFinding
  <2> DEFINE candidates == {r \in here : EndpointCandidate(r)}
             idle(answer) == {q \in candidates : EndpointTelemetry(PointsUsed(answer[q]))
                                                     = "no_observed_prediction_requests"}
  <2>3. \/ warned' = TRUE /\ UNCHANGED findings
        \/ /\ \E answer \in [candidates -> EndpointAnswers] :
                 findings' = findings \cup {EndpointFinding(r, answer[r]) : r \in idle(answer)}
           /\ UNCHANGED warned
    BY <1>5, Zenon DEF InspectLocation
  <2>4. \A f \in findings' : f \in findings \/ f.resource \in here
    <3>1. ASSUME NEW answer, findings' = findings \cup {EndpointFinding(r, answer[r]) : r \in idle(answer)}
          PROVE  \A f \in findings' : f \in findings \/ f.resource \in here
      <4>1. \A r \in idle(answer) : r \in here
        OBVIOUS
      <4> HIDE DEF idle
      <4> QED
        BY <2>2, <3>1, <4>1
    <3> HIDE DEF here, candidates, idle
    <3> QED
      BY <2>3, <3>1
  <2>5. warned' \in BOOLEAN /\ (warned => warned')
    <3> HIDE DEF here, candidates, idle
    <3> QED
      BY <1>0, <2>3
  <2> HIDE DEF here
  <2>6. here \in SUBSET ToInspect
    BY DEF here
  <2> QED
    BY <2>1, <2>4, <2>5, <2>6, InspectsFacts DEF InspectStep
<1> QED
  BY <1>1, <1>2, <1>3, <1>4, <1>5

-----------------------------------------------------------------------------
(* Type correctness *)

LEMMA ListTypes ==
    ASSUME Types, NEW c \in Collections, ListStep(c)
    PROVE  Types'
<1>1. \A d : In(d)' = In(d)
  BY DEF ListStep, In
<1>2. \A d \in Collections : (left'[d] \cup results'[d] \cup listed'[d]) \subseteq In(d)
  BY DEF ListStep, Moves, Types, TypeOK
<1>3. TypeOK'
  BY <1>1, <1>2 DEF ListStep, Moves, Types, TypeOK, inspection
<1> QED
  BY <1>3 DEF ListStep, Moves, Types

LEMMA InspectTypes ==
    ASSUME Types, InspectStep
    PROVE  Types'
<1>1. \A d : In(d)' = In(d)
  BY DEF InspectStep, In
<1>2. TypeOK'
  BY <1>1 DEF InspectStep, Types, TypeOK, listing
<1> QED
  BY <1>2 DEF InspectStep, Types, listing

LEMMA CollectTypes ==
    ASSUME Types, CollectListers
    PROVE  Types'
<1>1. \A d : In(d)' = In(d)
  BY DEF CollectListers, In
<1>2. /\ listed' \in [Collections -> SUBSET Resources]
      /\ \A d \in Collections : listed'[d] \subseteq listed[d]
  <2>1. UNCHANGED listed \/ listed' = [c \in Collections |-> IF lister[c] = "failed" THEN {} ELSE listed[c]]
    BY DEF CollectListers
  <2> QED
    BY <2>1 DEF Types
<1>3. /\ pc' \in {"inspecting", "raised"} /\ (pc' = "raised") = (raised' \in {"permission", "other"})
  BY DEF CollectListers, Types, TypeOK
<1>4. warned' \in BOOLEAN
  BY DEF CollectListers, Types, TypeOK
<1>5. TypeOK'
  BY <1>1, <1>2, <1>3, <1>4 DEF CollectListers, Types, TypeOK, inspection
<1> QED
  BY <1>2, <1>5 DEF CollectListers, Types

LEMMA EndTypes ==
    ASSUME Types, EndStage \/ NoEndpointClient \/ UNCHANGED vars
    PROVE  Types'
<1>1. \A d : In(d)' = In(d)
  BY DEF EndStage, NoEndpointClient, vars, In
<1>2. stage' \in DOMAIN Stages[rule]
  BY StagesFacts DEF EndStage, NoEndpointClient, vars, Types
<1>3. /\ pc' \in {"listing", "inspecting", "returned", "raised"}
      /\ (pc' = "raised") = (raised' \in {"permission", "other"})
  BY DEF EndStage, NoEndpointClient, vars, Types, TypeOK
<1>4. warned' \in BOOLEAN
  BY DEF EndStage, NoEndpointClient, vars, Types, TypeOK
<1>5. TypeOK'
  BY <1>1, <1>2, <1>3, <1>4 DEF EndStage, NoEndpointClient, vars, Types, TypeOK, listing, inspection
<1> QED
  BY <1>2, <1>5 DEF EndStage, NoEndpointClient, vars, Types, listing, inspection

LEMMA TypesInit == Init => Types
<1> SUFFICES ASSUME Init PROVE Types
  OBVIOUS
<1>1. stage \in DOMAIN Stages[rule]
  BY StagesFacts DEF Init
<1>2. LocationList \in Seq(Places)
  BY DEF Places
<1>3. warned \in BOOLEAN
  BY DEF Init
<1>4. TypeOK
  BY <1>1, <1>3 DEF Init, TypeOK, Listers
<1> QED
  BY <1>1, <1>2, <1>4 DEF Init, Types, Listers

LEMMA NextSteps ==
    ASSUME Types, [Next]_vars
    PROVE  \/ \E c \in Collections : ListStep(c)
           \/ CollectListers
           \/ InspectStep
           \/ EndStage \/ NoEndpointClient \/ UNCHANGED vars
BY ListShape, InspectShape DEF Next

LEMMA TypesStep ==
    ASSUME Types, [Next]_vars
    PROVE  Types'
BY NextSteps, ListTypes, CollectTypes, InspectTypes, EndTypes

\* What a rule lists belongs to the collection it asked for, what it reports it has looked at, and
\* it raises exactly where it ends with an exception.
THEOREM TypeCorrect == Spec => []TypeOK
<1>1. Types /\ [Next]_vars => Types'
  BY TypesStep
<1>2. Types => TypeOK
  BY DEF Types
<1> QED
  BY TypesInit, <1>1, <1>2, PTL DEF Spec

-----------------------------------------------------------------------------
(* What a rule that returns has seen *)

\* The stages a rule is done with, and the collections of those up to the present one.
Past(j) == j < stage \/ pc = "returned"
Begun(c) == \E j \in DOMAIN Stages[rule] : j <= stage /\ c \in Stages[rule][j]

Stood(c) == lister[c] \in {"listed", "failed"} /\ (~warned => lister[c] = "listed")

\* Without a warning, every listing of a past stage is complete and inspected.
Silent ==
    /\ \A c \in Collections : ~Begun(c) => lister[c] = "waiting"
    /\ \A j \in DOMAIN Stages[rule] : Past(j) =>
          \A c \in Stages[rule][j] : Stood(c) /\ (~warned => listed[c] \subseteq inspected)
    /\ pc = "inspecting" => \A c \in Stages[rule][stage] : Stood(c)
    /\ pc = "returned" => stage = Len(Stages[rule])
    /\ ~warned => \A c \in Collections : Seen(c)

LEMMA SilentInit == Init => Silent
<1> SUFFICES ASSUME Init PROVE Silent
  OBVIOUS
<1>1. \A j \in DOMAIN Stages[rule] : ~Past(j)
  BY StagesFacts DEF Init, Past
<1>2. \A c \in Collections : lister[c] = "waiting" /\ Seen(c)
  BY DEF Init, Seen, Kept
<1>3. pc = "listing"
  BY DEF Init
<1> QED
  BY <1>1, <1>2, <1>3 DEF Silent

LEMMA ListSilent ==
    ASSUME Types, Silent, NEW c \in Collections, ListStep(c)
    PROVE  Silent'
<1>1. Begun(c)
  <2>1. stage <= stage
    BY StagesFacts DEF Types
  <2> QED
    BY <2>1 DEF ListStep, Silent, Begun, Types
<1>2. \A j \in DOMAIN Stages[rule] : Past(j)' = Past(j) /\ (Past(j) => c \notin Stages[rule][j])
  <2>1. pc' = pc /\ stage' = stage /\ rule' = rule /\ pc = "listing"
    BY DEF ListStep
  <2>2. \A j \in DOMAIN Stages[rule] : Past(j)' = Past(j)
    BY <2>1 DEF Past
  <2>3. ASSUME NEW j \in DOMAIN Stages[rule], Past(j)
        PROVE  c \notin Stages[rule][j]
    <3>1. lister[c] \notin {"listed", "failed"}
      BY DEF ListStep
    <3> QED
      BY <2>3, <3>1 DEF Silent, Stood
  <2> QED
    BY <2>2, <2>3
<1>3. \A d \in Collections : Begun(d)' = Begun(d)
  BY DEF ListStep, Begun
<1>4. \A d \in Collections \ {c} : ~Begun(d) => lister'[d] = "waiting"
  BY DEF ListStep, Moves, Silent
<1>5. ASSUME NEW j \in DOMAIN Stages[rule], Past(j), NEW d \in Stages[rule][j]
      PROVE  Stood(d)' /\ (~warned' => listed'[d] \subseteq inspected')
  <2>1. d \in Collections \ {c}
    BY <1>2, <1>5, StagesFacts DEF Types
  <2> QED
    BY <1>5, <2>1 DEF ListStep, Moves, Silent, Stood, inspection
<1>6. ASSUME ~warned', NEW d \in Collections
      PROVE  Seen(d)'
  <2>1. Seen(d)
    BY <1>6 DEF ListStep, Silent
  <2>2. CASE d = c
    BY <1>6, <2>1, <2>2 DEF ListStep
  <2>3. CASE d # c
    <3>1. /\ lister'[d] = lister[d] /\ todo'[d] = todo[d] /\ project' = project /\ rule' = rule
          /\ left'[d] = left[d] /\ results'[d] = results[d] /\ listed'[d] = listed[d]
      BY <2>3 DEF ListStep, Moves
    <3>2. /\ In(d)' = In(d) /\ refused \subseteq refused'
          /\ shown' \cap In(d) \subseteq shown
      BY <2>3, <3>1 DEF ListStep, Recalls, In
    <3>3. Kept(d)'
      BY <2>1, <3>1, <3>2 DEF Seen, Kept
    <3> QED
      BY <2>1, <3>1, <3>2, <3>3 DEF Seen, Among, Places
  <2> QED
    BY <2>2, <2>3
<1> QED
  BY <1>1, <1>2, <1>3, <1>4, <1>5, <1>6 DEF Silent, ListStep

LEMMA CollectSilent ==
    ASSUME Types, Silent, CollectListers
    PROVE  Silent'
<1>1. /\ UNCHANGED <<rule, project, stage, lister, left, results, todo, shown, refused, inspection>>
      /\ pc = "listing" /\ pc' \in {"inspecting", "raised"}
      /\ warned => warned'
  BY DEF CollectListers, history, Types, TypeOK
<1>2. \A c \in Collections : Begun(c)' = Begun(c)
  BY <1>1 DEF Begun
<1>3. \A c \in Collections : listed'[c] \subseteq listed[c] /\ (lister[c] # "failed" => listed'[c] = listed[c])
  <2>1. UNCHANGED listed \/ listed' = [c \in Collections |-> IF lister[c] = "failed" THEN {} ELSE listed[c]]
    BY DEF CollectListers
  <2> QED
    BY <2>1 DEF Types
<1>4. ASSUME pc' = "inspecting", NEW c \in Stages[rule][stage]
      PROVE  Stood(c)'
  <2>1. lister[c] \in {"listed", "failed"}
    BY <1>4 DEF CollectListers, AllListed, SomeLister
  <2>2. lister[c] = "failed" => warned'
    BY <1>4 DEF CollectListers, SomeLister
  <2> QED
    BY <1>1, <2>1, <2>2 DEF Stood
<1>5. ASSUME NEW j \in DOMAIN Stages[rule], Past(j)', NEW c \in Stages[rule][j]
      PROVE  Stood(c)' /\ (~warned' => listed'[c] \subseteq inspected')
  <2>1. Past(j) /\ c \in Collections
    BY <1>1, <1>5, StagesFacts DEF Past, Types
  <2> QED
    BY <1>1, <1>3, <1>5, <2>1 DEF Silent, Stood, inspection
<1>6. ASSUME ~warned', NEW c \in Collections
      PROVE  Seen(c)'
  <2>1. Seen(c)
    BY <1>1, <1>6 DEF Silent
  <2> QED
    BY <1>1, <1>3, <2>1 DEF Seen, Kept, In, Among, Places
<1> QED
  BY <1>1, <1>2, <1>4, <1>5, <1>6 DEF Silent

LEMMA InspectSilent ==
    ASSUME Types, Silent, InspectStep
    PROVE  Silent'
<1>1. \A c \in Collections : Begun(c)' = Begun(c) /\ (Seen(c) => Seen(c)')
  BY DEF InspectStep, listing, history, Begun, Seen, Kept, In, Among, Places
<1>2. \A j \in DOMAIN Stages[rule] : Past(j)' = Past(j)
  BY DEF InspectStep, Past
<1>3. \A c : Stood(c) => Stood(c)'
  BY DEF InspectStep, listing, Stood
<1> QED
  BY <1>1, <1>2, <1>3 DEF Silent, InspectStep, listing

LEMMA EndSilent ==
    ASSUME Types, Silent, EndStage
    PROVE  Silent'
<1>1. /\ pc = "inspecting" /\ ToInspect = {}
      /\ UNCHANGED <<rule, project, listing, inspection, warned>>
  BY DEF EndStage
<1>2. \A c \in Stages[rule][stage] : Stood(c) /\ listed[c] \subseteq inspected
  BY <1>1 DEF Silent, ToInspect
<1>3. \A c \in Collections : Seen(c) => Seen(c)'
  BY <1>1 DEF listing, history, Seen, Kept, In, Among, Places
<1>4. \A c : Stood(c) => Stood(c)'
  BY <1>1 DEF listing, Stood
<1>5. stage \in 1 .. Len(Stages[rule]) /\ Len(Stages[rule]) \in Nat
      /\ DOMAIN Stages[rule] = 1 .. Len(Stages[rule])
  BY StagesFacts DEF Types
<1>6. CASE stage < Len(Stages[rule])
  <2>1. pc' = "listing" /\ stage' = stage + 1
    BY <1>6 DEF EndStage
  <2>2. \A c \in Collections : ~Begun(c)' => ~Begun(c)
    BY <1>1, <1>5, <2>1 DEF Begun
  <2>3. \A j \in DOMAIN Stages[rule] : Past(j)' => Past(j) \/ j = stage
    BY <1>1, <1>5, <2>1 DEF Past
  <2> QED
    BY <1>1, <1>2, <1>3, <1>4, <2>1, <2>2, <2>3 DEF Silent, listing, inspection
<1>7. CASE ~(stage < Len(Stages[rule]))
  <2>1. pc' = "returned" /\ stage' = stage /\ stage = Len(Stages[rule])
    BY <1>5, <1>7 DEF EndStage
  <2>2. \A c \in Collections : Begun(c)' = Begun(c)
    BY <1>1, <2>1 DEF Begun
  <2>3. \A j \in DOMAIN Stages[rule] : Past(j) \/ j = stage
    BY <1>5, <2>1 DEF Past
  <2> QED
    BY <1>1, <1>2, <1>3, <1>4, <2>1, <2>2, <2>3 DEF Silent, listing, inspection
<1> QED
  BY <1>6, <1>7

LEMMA NoClientSilent ==
    ASSUME Types, Silent, NoEndpointClient
    PROVE  Silent'
<1>1. /\ pc = "inspecting" /\ pc' = "returned" /\ rule = "endpoint"
      /\ UNCHANGED <<rule, project, stage, listing, inspection>>
      /\ (warned => warned') /\ (~warned' => ToInspect = {})
  BY DEF NoEndpointClient, Types, TypeOK
<1>2. stage = 1 /\ Len(Stages[rule]) = 1 /\ DOMAIN Stages[rule] = {1}
  BY <1>1, StagesFacts DEF Types
<1>3. \A c \in Stages[rule][stage] : Stood(c)' /\ (~warned' => listed'[c] \subseteq inspected')
  BY <1>1 DEF Silent, Stood, ToInspect, listing, inspection
<1>4. \A c \in Collections : Begun(c)' = Begun(c) /\ (Seen(c) => Seen(c)')
  BY <1>1 DEF listing, history, Begun, Seen, Kept, In, Among, Places
<1> QED
  BY <1>1, <1>2, <1>3, <1>4 DEF Silent, listing, inspection

LEMMA SilentStep ==
    ASSUME Types, Silent, [Next]_vars
    PROVE  Silent'
<1>1. CASE UNCHANGED vars
  BY <1>1 DEF vars, listing, history, inspection, Silent, Begun, Past, Stood, Seen, Kept, In, Among, Places
<1> QED
  BY <1>1, NextSteps, ListSilent, CollectSilent, InspectSilent, EndSilent, NoClientSilent

\* "findings may be incomplete" (vertex_training_job_long_running.py:565 and the like): a rule that
\* was denied a listing never returns, and what one that returns without a warning has not looked at
\* is in a location it does not know when it had to ask for each of them, or in an enumeration that
\* was answered 404 or 400, none of it a job that a page has shown; for any number of resources,
\* pages and locations, and whatever the API refuses on whichever page.
THEOREM SilenceIsComplete == Spec => []SilentMeansComplete
<1>1. Types /\ [Next]_vars => Types'
  BY TypesStep
<1>2. Types /\ Silent /\ [Next]_vars => Silent'
  BY SilentStep
<1>3. ASSUME Types, Silent
      PROVE  SilentMeansComplete
  <2> SUFFICES ASSUME pc = "returned"
               PROVE  /\ \A c \in Collections : lister[c] # "denied"
                      /\ ~warned =>
                            \A r \in Resources \ inspected :
                                /\ rule = "training" => r \notin shown
                                /\ \/ r \in refused
                                   \/ /\ todo[project[r].collection] = <<>>
                                      /\ \A i \in DOMAIN LocationList :
                                            LocationList[i] # project[r].location
    BY DEF SilentMeansComplete
  <2>1. \A j \in DOMAIN Stages[rule] : \A c \in Stages[rule][j] :
            Stood(c) /\ (~warned => listed[c] \subseteq inspected)
    BY <1>3 DEF Silent, Past
  <2>2. \A c \in Collections : lister[c] # "denied"
    BY <1>3, <2>1 DEF Silent, Begun, Stood
  <2>3. ASSUME ~warned, NEW r \in Resources \ inspected
        PROVE  /\ rule = "training" => r \notin shown
               /\ \/ r \in refused
                  \/ /\ todo[project[r].collection] = <<>>
                     /\ \A i \in DOMAIN LocationList : LocationList[i] # project[r].location
    <3> DEFINE c == project[r].collection
    <3>1. PICK j \in DOMAIN Stages[rule] : c \in Stages[rule][j]
      BY <1>3 DEF Types
    <3>2. c \in Collections
      BY <1>3, <3>1, StagesFacts DEF Types
    <3>3. lister[c] = "listed" /\ Seen(c) /\ r \notin listed[c] /\ r \in In(c)
      BY <1>3, <2>1, <2>3, <3>1, <3>2 DEF Silent, Stood, In
    <3> QED
      BY <3>3 DEF Seen, Kept, Places
  <2> QED
    BY <2>2, <2>3
<1> QED
  BY TypesInit, SilentInit, <1>1, <1>2, <1>3, PTL DEF Spec

-----------------------------------------------------------------------------
(* What a finding rests on *)

\* A set of integers with an upper bound has a greatest element,
LEMMA LatestExists ==
    ASSUME NEW S \in SUBSET Int, S # {}, NEW bound \in Int, \A x \in S : x <= bound
    PROVE  Latest(S) \in S /\ \A x \in S : x <= Latest(S)
<1> DEFINE T == {bound - x : x \in S}
<1>5. \A t \in T : \E x \in S : t = bound - x
  OBVIOUS
<1>6. \A x \in S : bound - x \in T
  OBVIOUS
<1> HIDE DEF T
<1>0. \A x \in S : x \in Int /\ bound - x \in Nat
  OBVIOUS
<1>1. T \subseteq Nat /\ T # {}
  <2>1. T \subseteq Nat
    BY <1>0, <1>5
  <2>2. T # {}
    BY <1>6
  <2> QED
    BY <2>1, <2>2
<1>2. PICK n \in T : \A m \in T : <<m, n>> \notin OpToRel(<, Nat)
  BY <1>1, WFMin, NatLessThanWellFounded, Zenon
<1>3. \A m \in T : ~(m < n)
  <2> SUFFICES ASSUME NEW m \in T, m < n PROVE FALSE
    OBVIOUS
  <2>1. <<m, n>> \in Nat \X Nat /\ <<m, n>>[1] = m /\ <<m, n>>[2] = n
    BY <1>1
  <2>2. <<m, n>> \in OpToRel(<, Nat)
    BY <2>1, Zenon DEF OpToRel
  <2> QED
    BY <1>2, <2>2
<1>4. \A m \in T : n <= m
  BY <1>1, <1>3
<1>8. PICK x \in S : n = bound - x
  BY <1>5
<1>7. \A y \in S : y <= x
  BY <1>4, <1>6, <1>8
<1> QED
  BY <1>7 DEF Latest

\* and one with a lower bound a least.
LEMMA EarliestExists ==
    ASSUME NEW S \in SUBSET Int, S # {}, NEW bound \in Int, \A x \in S : bound <= x
    PROVE  \E x \in S : \A y \in S : x <= y
<1> DEFINE T == {-x : x \in S}
<1>1. \A t \in T : \E x \in S : t = -x
  OBVIOUS
<1>2. \A x \in S : -x \in T
  OBVIOUS
<1> HIDE DEF T
<1>3. T \in SUBSET Int /\ T # {} /\ -bound \in Int /\ \A t \in T : t <= -bound
  <2>1. \A x \in S : x \in Int /\ -x \in Int /\ -x <= -bound
    OBVIOUS
  <2>2. \A t \in T : t \in Int /\ t <= -bound
    BY <1>1, <2>1
  <2>3. T # {}
    BY <1>2
  <2> QED
    BY <2>2, <2>3
<1>4. Latest(T) \in T /\ \A t \in T : t <= Latest(T)
  BY <1>3, LatestExists
<1> QED
  <2>1. PICK x \in S : Latest(T) = -x
    BY <1>1, <1>4
  <2>2. \A y \in S : x \in Int /\ y \in Int /\ -y <= -x
    BY <1>2, <1>4, <2>1
  <2>3. \A y \in S : x <= y
    BY <2>2
  <2> QED
    BY <2>3

\* The window ends now.
LEMMA WindowFacts ==
    ASSUME rule \in Rules
    PROVE  /\ IdleDays[rule] \in 1 .. Now /\ IdleDays[rule] \in Nat
           /\ WindowStart \in Nat /\ WindowStart < Now /\ WindowStart = Now - IdleDays[rule]
BY DEF WindowStart

\* Points that leave no gap of more than half the window leave none between a and b.
LEMMA NoGap ==
    ASSUME rule \in Rules, NEW points, \A p \in points : p.at \in Int,
           Covered(points),
           NEW a \in WindowStart .. Now, NEW b \in WindowStart .. Now, 2 * (b - a) > IdleDays[rule]
    PROVE  \E p \in points : a < p.at /\ p.at < b
<1> DEFINE ends == {p.at : p \in points} \cup {WindowStart, Now}
           before == {c \in ends : c <= a}
           after == {c \in ends : b <= c}
<1> SUFFICES ASSUME \A p \in points : ~(a < p.at /\ p.at < b) PROVE FALSE
  OBVIOUS
<1>0. /\ WindowStart \in Int /\ Now \in Int /\ a \in Int /\ b \in Int /\ IdleDays[rule] \in Int
      /\ WindowStart <= a /\ b <= Now /\ a < b
  BY WindowFacts
<1>1. ends \in SUBSET Int /\ WindowStart \in ends /\ Now \in ends
  BY <1>0
<1>2. \A c \in ends : c <= a \/ b <= c
  <2>1. \A p \in points : p.at <= a \/ b <= p.at
    BY <1>0
  <2> QED
    BY <1>0, <2>1
<1>3. \A x, y \in ends : x < y /\ (\A c \in ends : c <= x \/ c >= y) => 2 * (y - x) <= IdleDays[rule]
  BY DEF Covered
<1> HIDE DEF ends
<1>4. before \in SUBSET Int /\ before # {} /\ \A c \in before : c <= a
  BY <1>0, <1>1
<1>5. after \in SUBSET Int /\ after # {} /\ \A c \in after : b <= c
  BY <1>0, <1>1
<1>6. PICK x \in before : \A c \in before : c <= x
  BY <1>0, <1>4, LatestExists
<1>7. PICK y \in after : \A c \in after : y <= c
  BY <1>0, <1>5, EarliestExists
<1>8. x \in ends /\ y \in ends /\ x \in Int /\ y \in Int /\ x <= a /\ b <= y
  BY <1>1
<1>9. \A c \in ends : c <= x \/ c >= y
  BY <1>1, <1>2, <1>6, <1>7, <1>8
<1>10. 2 * (y - x) <= IdleDays[rule]
  BY <1>0, <1>3, <1>8, <1>9
<1> QED
  BY <1>0, <1>8, <1>10

\* What IdleIsProven says of one finding.
Proven(f) ==
    LET s == project[f.resource]
        days == IdleDays[rule]
    IN  CASE rule = "featurestore" ->
                LET values(d) == {f.basis.points[i].value :
                                     i \in {j \in DOMAIN f.basis.points : f.basis.points[j].end = d}}
                IN  /\ s.created # None \/ s.updated # None
                    /\ \A t \in {s.created, s.updated} : t = None \/ t > Now \/ t <= WindowStart
                    /\ \A d \in 1 .. days : values(d) = {0}
                    /\ f.floor >= 1
          [] rule = "endpoint" ->
                LET inWindow == {p \in f.basis : p.at >= WindowStart /\ p.at <= Now}
                    numbers == {p \in inWindow : p.value # None}
                IN  /\ f.floor >= 1
                    /\ \A m \in s.models : InScope(m) => m.created <= Now - days
                    /\ \A p \in numbers : p.value = 0
                    /\ inWindow = numbers =>
                          \A a, b \in WindowStart .. Now :
                             2 * (b - a) > days => \E p \in numbers : a < p.at /\ p.at < b
          [] OTHER -> TRUE

LEMMA ProvenFacts == IdleIsProven <=> \A f \in findings : Proven(f)
BY DEF IdleIsProven, Proven

\* Buckets as many as days, within the window and none twice, are one for each day.
LEMMA EveryDay ==
    ASSUME rule \in Rules, NEW answer \in StoreAnswers, StoreTelemetry(answer) = "confirmed_zero"
    PROVE  \A d \in 1 .. IdleDays[rule] :
               {answer.points[i].value : i \in {j \in DOMAIN answer.points : answer.points[j].end = d}} = {0}
<1> DEFINE points == answer.points
           ends == {points[i].end : i \in DOMAIN points}
<1>1. Len(points) = IdleDays[rule] /\ ends \subseteq 1 .. IdleDays[rule] /\ Cardinality(ends) = Len(points)
      /\ \A i \in DOMAIN points : points[i].value = 0
  BY DEF StoreTelemetry
<1>2. IsFiniteSet(1 .. IdleDays[rule]) /\ Cardinality(1 .. IdleDays[rule]) = IdleDays[rule]
  <2>1. 1 \in Int /\ IdleDays[rule] \in Int /\ IdleDays[rule] >= 1
    BY WindowFacts
  <2> QED
    BY <2>1, FS_Interval
<1> HIDE DEF ends
<1>3. ends = 1 .. IdleDays[rule]
  BY <1>1, <1>2, FS_Subset
<1>4. \A d \in 1 .. IdleDays[rule] : \E i \in DOMAIN points : points[i].end = d
  BY <1>3 DEF ends
<1> QED
  BY <1>1, <1>4

LEMMA ReferenceFacts ==
    ASSUME NEW s, s.created \in TimeOrNone, s.updated \in TimeOrNone, rule \in Rules, OldEnough(s)
    PROVE  /\ s.created # None \/ s.updated # None
           /\ \A t \in {s.created, s.updated} : t = None \/ t > Now \/ t <= WindowStart
<1> DEFINE usable == {t \in {s.created, s.updated} : Usable(t)}
<1>1. /\ ReferenceTime(s) = IF usable = {} THEN None ELSE Latest(usable)
      /\ ReferenceTime(s) # None /\ ReferenceTime(s) <= WindowStart
  BY DEF OldEnough, ReferenceTime
<1>2. usable \in SUBSET Int /\ Now \in Int /\ \A t \in usable : t <= Now
  BY DEF TimeOrNone, Usable
<1>3. usable # {}
  BY <1>1
<1>4. \A t \in {s.created, s.updated} : t = None \/ t \in usable \/ ~(t <= Now)
  BY DEF Usable
<1> HIDE DEF usable
<1>5. Latest(usable) \in usable /\ \A t \in usable : t <= Latest(usable)
  BY <1>2, <1>3, LatestExists
<1>6. \A t \in usable : t <= WindowStart
  <2>1. Latest(usable) \in Int /\ Latest(usable) <= WindowStart /\ WindowStart \in Int
    <3>1. Latest(usable) \in Int
      BY <1>2, <1>5
    <3>2. WindowStart \in Int
      BY WindowFacts
    <3>3. Latest(usable) <= WindowStart
      BY <1>1, <1>3
    <3> QED
      BY <3>1, <3>2, <3>3
  <2>2. \A t \in usable : t \in Int
    BY <1>2
  <2> QED
    BY <1>5, <2>1, <2>2
<1>7. \A t \in {s.created, s.updated} : t = None \/ t \in Int
  BY DEF TimeOrNone
<1>8. usable \subseteq {s.created, s.updated} /\ None \notin usable
  BY DEF usable, Usable
<1> QED
  BY <1>3, <1>4, <1>6, <1>7, <1>8

LEMMA StageCollections ==
    /\ \A k \in DOMAIN Stages["featurestore"] :
          Stages["featurestore"][k] \subseteq {"featurestores", "featureOnlineStores"}
    /\ \A k \in DOMAIN Stages["endpoint"] : Stages["endpoint"][k] \subseteq {"endpoints"}
<1>1. Stages["featurestore"] = <<{"featurestores"}, {"featureOnlineStores"}>>
  BY DEF Stages
<1>2. Stages["endpoint"] = <<{"endpoints"}>>
  BY DEF Stages
<1> QED
  BY <1>1, <1>2

LEMMA StoreProven ==
    ASSUME Types, rule = "featurestore", NEW r \in Resources, NEW answer \in StoreAnswers, NEW f,
           StoreTelemetry(answer) = "confirmed_zero",
           \/ project[r].collection = "featurestores" /\ LegacyCandidate(r) /\ f = LegacyFinding(r, answer)
           \/ project[r].collection # "featurestores" /\ OnlineCandidate(r) /\ f = OnlineFinding(r, answer)
    PROVE  Proven(f)
<1> DEFINE s == project[r]
<1>1. rule \in Rules /\ project \in Projects
  BY DEF Types
<1>2. s.collection \in {"featurestores", "featureOnlineStores"}
  BY StageCollections DEF Types
<1>3. s.created \in TimeOrNone /\ s.updated \in TimeOrNone
  BY <1>1, <1>2, AttributesAssumption
<1>4. OldEnough(s)
  BY DEF LegacyCandidate, OnlineCandidate
<1>5. f.resource = r /\ f.basis = answer
  BY DEF LegacyFinding, OnlineFinding
<1>6. f.floor >= 1
  <2>1. CASE s.collection = "featurestores"
    <3>1. s.fixed \in CountOrNone /\ s.scaling \in CountOrNone
      BY <1>1, <2>1, AttributesAssumption
    <3>2. f.floor = LegacyFloor(s) /\ LegacyFloor(s) > 0
      BY <2>1 DEF LegacyFinding, LegacyCandidate
    <3>3. LegacyFloor(s) \in Int
      BY <3>1 DEF LegacyFloor, CountOrNone
    <3> QED
      BY <3>2, <3>3
  <2>2. CASE s.collection # "featurestores"
    BY <2>2 DEF OnlineFinding, OnlineCandidate
  <2> QED
    BY <2>1, <2>2
<1>7. /\ s.created # None \/ s.updated # None
      /\ \A t \in {s.created, s.updated} : t = None \/ t > Now \/ t <= WindowStart
  BY <1>1, <1>3, <1>4, ReferenceFacts
<1>8. \A d \in 1 .. IdleDays[rule] :
          {f.basis.points[i].value : i \in {j \in DOMAIN f.basis.points : f.basis.points[j].end = d}} = {0}
  BY <1>1, <1>5, EveryDay
<1> QED
  BY <1>5, <1>6, <1>7, <1>8 DEF Proven

LEMMA EndpointProven ==
    ASSUME Types, rule = "endpoint", NEW r \in Resources, NEW answer \in EndpointAnswers,
           EndpointCandidate(r), EndpointTelemetry(PointsUsed(answer)) = "no_observed_prediction_requests"
    PROVE  Proven(EndpointFinding(r, answer))
<1> DEFINE e == project[r]
           f == EndpointFinding(r, answer)
           inScope == {m \in e.models : InScope(m)}
           inWindow == {p \in answer : p.at >= WindowStart /\ p.at <= Now}
           numbers == {p \in inWindow : p.value # None}
<1>1. rule \in Rules /\ project \in Projects
  BY DEF Types
<1>2. e.collection = "endpoints"
  BY StageCollections DEF Types
<1>3. e.created \in TimeOrNone /\ IsFiniteSet(e.models) /\ \A m \in e.models : m.min \in CountOrNone /\ m.created \in TimeOrNone
  BY <1>1, <1>2, AttributesAssumption
<1>4. f.resource = r /\ f.basis = answer /\ f.floor = Cardinality(inScope)
  BY DEF EndpointFinding
<1>5. /\ inScope # {} /\ Usable(e.created)
      /\ \A m \in e.models : ~Malformed(m)
      /\ Latest({e.created} \cup {m.created : m \in inScope}) <= WindowStart
  BY DEF EndpointCandidate
<1>6. f.floor >= 1
  <2>1. IsFiniteSet(inScope)
    BY <1>3, FS_Subset
  <2>2. Cardinality(inScope) \in Nat /\ Cardinality(inScope) # 0
    BY <1>5, <2>1, FS_CardinalityType, FS_EmptySet
  <2> QED
    BY <1>4, <2>2
<1>7. \A m \in e.models : InScope(m) => m.created <= WindowStart
  <2> DEFINE times == {e.created} \cup {m.created : m \in inScope}
  <2>1. \A m \in inScope : m.created \in Int /\ m.created <= Now
    BY <1>3, <1>5 DEF Malformed, Usable, TimeOrNone
  <2>2. e.created \in Int /\ e.created <= Now
    BY <1>3, <1>5 DEF Usable, TimeOrNone
  <2> HIDE DEF inScope
  <2>3. times \in SUBSET Int /\ times # {} /\ Now \in Int /\ \A t \in times : t <= Now
    <3>1. \A t \in times : t \in Int /\ t <= Now
      BY <2>1, <2>2
    <3> QED
      BY <3>1
  <2>4. \A m \in inScope : m.created \in times
    OBVIOUS
  <2>5. Latest(times) <= WindowStart
    BY <1>5 DEF inScope
  <2> HIDE DEF times
  <2>6. Latest(times) \in times /\ \A t \in times : t <= Latest(times)
    BY <2>3, LatestExists
  <2>7. Latest(times) \in Int /\ WindowStart \in Int
    <3>1. Latest(times) \in Int
      BY <2>3, <2>6
    <3>2. WindowStart \in Int
      BY <1>1, WindowFacts
    <3> QED
      BY <3>1, <3>2
  <2>8. \A m \in inScope : m.created <= WindowStart
    BY <2>1, <2>4, <2>5, <2>6, <2>7
  <2> QED
    BY <2>8 DEF inScope
<1>8. \A p \in answer : p.at \in Int /\ p.value \in CountOrNone
  BY AnswersAssumption
<1>9. /\ Covered(PointsUsed(answer)) /\ \A p \in PointsUsed(answer) : ~(p.value > 0)
  BY DEF EndpointTelemetry
<1>10. \A p \in inWindow : [at |-> p.at, value |-> IF p.value = None THEN 0 ELSE p.value] \in PointsUsed(answer)
  BY <1>1, <1>8, WindowFacts DEF PointsUsed
<1>11. \A p \in PointsUsed(answer) : \E q \in inWindow : p.at = q.at
  BY <1>1, <1>8, WindowFacts DEF PointsUsed
<1>12. \A p \in numbers : p.value = 0
  <2> SUFFICES ASSUME NEW p \in inWindow, p.value # None PROVE p.value = 0
    OBVIOUS
  <2>1. p.value \in Nat
    BY <1>8 DEF CountOrNone
  <2>2. [at |-> p.at, value |-> p.value] \in PointsUsed(answer)
    BY <1>10
  <2>3. ~(p.value > 0)
    BY <1>9, <2>2
  <2> QED
    BY <2>1, <2>3
<1>13. ASSUME NEW a \in WindowStart .. Now, NEW b \in WindowStart .. Now, 2 * (b - a) > IdleDays[rule]
       PROVE  \E p \in inWindow : a < p.at /\ p.at < b
  <2>1. \A p \in PointsUsed(answer) : p.at \in Int
    BY <1>8, <1>11
  <2>2. \E p \in PointsUsed(answer) : a < p.at /\ p.at < b
    BY <1>1, <1>9, <1>13, <2>1, NoGap
  <2> QED
    BY <1>11, <2>2
<1>14. \A m \in project[f.resource].models : InScope(m) => m.created <= Now - IdleDays[rule]
  BY <1>1, <1>4, <1>7, WindowFacts
<1>15. inWindow = {p \in f.basis : p.at >= WindowStart /\ p.at <= Now}
  BY <1>4
<1>17. numbers = {p \in inWindow : p.value # None}
  OBVIOUS
<1> HIDE DEF f, inWindow, numbers
<1>16. Proven(f)
  BY <1>6, <1>12, <1>13, <1>14, <1>15, <1>17 DEF Proven
<1> QED
  BY <1>16 DEF f

\* A finding stays proven: it rests on the project and on what Monitoring answered.
LEMMA ProvenStays ==
    ASSUME UNCHANGED <<rule, project>>, NEW f, Proven(f)
    PROVE  Proven(f)'
BY DEF Proven, WindowStart

LEMMA StoreStepProven ==
    ASSUME Types, IdleIsProven, NEW r \in Resources, InspectStore(r)
    PROVE  IdleIsProven'
<1>1. rule = "featurestore" /\ UNCHANGED <<rule, project>>
  BY DEF InspectStore, Inspects
<1>2. \/ UNCHANGED findings
      \/ /\ IF project[r].collection = "featurestores" THEN LegacyCandidate(r) ELSE OnlineCandidate(r)
         /\ \E answer \in StoreAnswers :
               findings' = findings \cup
                   IF StoreTelemetry(answer) # "confirmed_zero" THEN {}
                   ELSE IF project[r].collection = "featurestores"
                        THEN {LegacyFinding(r, answer)} ELSE {OnlineFinding(r, answer)}
  BY DEF InspectStore
<1>3. \A f \in findings' : Proven(f)
  <2>1. \A f \in findings : Proven(f)
    BY ProvenFacts
  <2>2. CASE UNCHANGED findings
    BY <2>1, <2>2
  <2>3. ASSUME NEW answer \in StoreAnswers,
               IF project[r].collection = "featurestores" THEN LegacyCandidate(r) ELSE OnlineCandidate(r),
               findings' = findings \cup
                   IF StoreTelemetry(answer) # "confirmed_zero" THEN {}
                   ELSE IF project[r].collection = "featurestores"
                        THEN {LegacyFinding(r, answer)} ELSE {OnlineFinding(r, answer)},
               NEW f \in findings', f \notin findings
        PROVE  Proven(f)
    <3>1. /\ StoreTelemetry(answer) = "confirmed_zero"
          /\ \/ project[r].collection = "featurestores" /\ f = LegacyFinding(r, answer)
             \/ project[r].collection # "featurestores" /\ f = OnlineFinding(r, answer)
      BY <2>3
    <3> QED
      BY <1>1, <2>3, <3>1, StoreProven
  <2> QED
    BY <1>2, <2>1, <2>2, <2>3
<1>4. \A f \in findings' : Proven(f)'
  BY <1>1, <1>3, ProvenStays
<1> QED
  BY <1>4 DEF IdleIsProven, Proven

LEMMA LocationStepProven ==
    ASSUME Types, IdleIsProven, NEW location, InspectLocation(location)
    PROVE  IdleIsProven'
<1> DEFINE here == {r \in ToInspect : project[r].location = location}
           candidates == {r \in here : EndpointCandidate(r)}
           idle(answer) == {q \in candidates : EndpointTelemetry(PointsUsed(answer[q]))
                                                   = "no_observed_prediction_requests"}
<1>1. rule = "endpoint" /\ UNCHANGED <<rule, project>> /\ Inspects(here)
  BY DEF InspectLocation, Inspects
<1>2. \/ UNCHANGED findings
      \/ \E answer \in [candidates -> EndpointAnswers] :
            findings' = findings \cup {EndpointFinding(r, answer[r]) : r \in idle(answer)}
  BY Zenon DEF InspectLocation
<1>3. \A r \in candidates : r \in Resources /\ EndpointCandidate(r)
  BY StagesFacts DEF Types, ToInspect
<1>4. \A f \in findings' : Proven(f)
  <2>1. \A f \in findings : Proven(f)
    BY ProvenFacts
  <2>2. CASE UNCHANGED findings
    BY <2>1, <2>2
  <2>3. ASSUME NEW answer \in [candidates -> EndpointAnswers],
               findings' = findings \cup {EndpointFinding(r, answer[r]) : r \in idle(answer)},
               NEW f \in findings', f \notin findings
        PROVE  Proven(f)
    <3>1. PICK r \in idle(answer) : f = EndpointFinding(r, answer[r])
      BY <2>3
    <3>2. /\ r \in candidates
          /\ EndpointTelemetry(PointsUsed(answer[r])) = "no_observed_prediction_requests"
      OBVIOUS
    <3> HIDE DEF candidates, idle
    <3>3. answer[r] \in EndpointAnswers
      BY <2>3, <3>2
    <3> QED
      BY <1>1, <1>3, <3>1, <3>2, <3>3, EndpointProven
  <2> HIDE DEF candidates, idle
  <2> QED
    BY <1>2, <2>1, <2>2, <2>3
<1> HIDE DEF here, candidates, idle
<1>5. \A f \in findings' : Proven(f)'
  BY <1>1, <1>4, ProvenStays
<1> QED
  BY <1>5 DEF IdleIsProven, Proven

LEMMA ProvenStep ==
    ASSUME Types, IdleIsProven, [Next]_vars
    PROVE  IdleIsProven'
<1>1. CASE /\ UNCHANGED <<rule, project>>
           /\ UNCHANGED findings \/ rule \notin {"featurestore", "endpoint"}
  <2>1. \A f \in findings : Proven(f)
    BY ProvenFacts
  <2>2. CASE UNCHANGED findings
    <3>1. \A f \in findings' : Proven(f)'
      BY <1>1, <2>1, <2>2, ProvenStays
    <3> QED
      BY <3>1 DEF IdleIsProven, Proven
  <2>3. CASE rule \notin {"featurestore", "endpoint"}
    BY <1>1, <2>3 DEF IdleIsProven
  <2> QED
    BY <1>1, <2>2, <2>3
<1>2. ASSUME NEW c \in Collections, List(c)
      PROVE  IdleIsProven'
  BY <1>1, <1>2, ListShape DEF ListStep, inspection
<1>3. CASE CollectListers
  BY <1>1, <1>3 DEF CollectListers, inspection
<1>4. ASSUME NEW r \in Resources, InspectJob(r) \/ InspectNode(r) \/ InspectInstance(r)
      PROVE  IdleIsProven'
  <2>1. UNCHANGED <<rule, project>>
    BY <1>4 DEF InspectJob, InspectNode, InspectInstance, Inspects
  <2>2. UNCHANGED findings \/ rule = "training"
    BY <1>4 DEF InspectJob, InspectNode, InspectInstance
  <2> QED
    BY <1>1, <2>1, <2>2
<1>5. CASE NoEndpointClient
  BY <1>1, <1>5 DEF NoEndpointClient, inspection
<1>6. CASE EndStage
  BY <1>1, <1>6 DEF EndStage, inspection
<1>7. CASE UNCHANGED vars
  BY <1>1, <1>7 DEF vars, inspection
<1> QED
  BY <1>2, <1>3, <1>4, <1>5, <1>6, <1>7, StoreStepProven, LocationStepProven DEF Next

\* featurestore_idle.py:13-43, vertex_endpoint_idle.py:385-442: a store that is reported was there
\* and unchanged throughout the window, with a zero for every day of it; an endpoint's replicas
\* were there throughout the window, no number in it counts a request, and where all its datapoints
\* are numbers none of its stretches longer than half of it is without one; whatever Monitoring
\* answers.
THEOREM IdleProven == Spec => []IdleIsProven
<1>1. Init => IdleIsProven
  BY DEF Init, IdleIsProven
<1>2. Types /\ [Next]_vars => Types'
  BY TypesStep
<1>3. Types /\ IdleIsProven /\ [Next]_vars => IdleIsProven'
  BY ProvenStep
<1> QED
  BY TypesInit, <1>1, <1>2, <1>3, PTL DEF Spec
=============================================================================
