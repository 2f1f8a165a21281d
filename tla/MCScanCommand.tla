---------------------------- MODULE MCScanCommand ----------------------------
(***************************************************************************)
(* Two functions and an AI function for AWS, one of them behind two ids,   *)
(* and a rule each for Azure and GCP. The command lines and files are those *)
(* that differ from the plain one in at most MaxFlags and MaxKeys places.  *)
(***************************************************************************)
EXTENDS ScanCommand, FiniteSets, TLC

CONSTANTS MaxFlags, MaxKeys

Rule(func, p, ai, position) == [func |-> func, provider |-> p, ai |-> ai, position |-> position]

MCCatalog ==
    "aws.volume" :> Rule("volumes", "aws", FALSE, 1)
    @@ "aws.alb" :> Rule("balancers", "aws", FALSE, 2)
    @@ "aws.clb" :> Rule("balancers", "aws", FALSE, 3)
    @@ "aws.gpu" :> Rule("gpus", "aws", TRUE, 4)
    @@ "azure.disk" :> Rule("disks", "azure", FALSE, 5)
    @@ "azure.aml" :> Rule("aml", "azure", TRUE, 6)
    @@ "gcp.address" :> Rule("addresses", "gcp", FALSE, 7)

MCProviderOf == [id \in DOMAIN MCCatalog |-> MCCatalog[id].provider] @@ "aws.typo" :> "aws"

Plain == [fileMissing |-> FALSE, provider |-> "aws", region |-> None, allRegions |-> TRUE,
          flags |-> {}, accounts |-> None, perAccount |-> FALSE, category |-> None,
          skip |-> {}, enforce |-> FALSE]
NoFile == [valid |-> TRUE, provider |-> None, regions |-> None, categories |-> None,
           rules |-> <<>>, enforce |-> FALSE]

Distance(a, b) == Cardinality({field \in DOMAIN a : a[field] # b[field]})

MCInvocations ==
    {i \in [fileMissing : BOOLEAN, provider : Providers \cup {None},
            region : {None, "known", "unknown"}, allRegions : BOOLEAN, flags : SUBSET Providers,
            accounts : {None, "file", "org"}, perAccount : BOOLEAN,
            category : {None, "hygiene", "ai", "all"},
            skip : {{}, {"aws.clb"}, {"aws.volume", "aws.clb"}}, enforce : BOOLEAN] :
        Distance(i, Plain) <= MaxFlags}

Setting(enabled, params) == [enabled |-> enabled, params |-> params]

MCFiles ==
    {f \in [valid : BOOLEAN, provider : {None, "aws", "azure"},
            regions : {None, "auto", "known", "unknown", "many"}, categories : {None, "ai", "all"},
            rules : {<<>>, "aws.alb" :> Setting(FALSE, "none"), "aws.clb" :> Setting(TRUE, "valid"),
                     "aws.volume" :> Setting(FALSE, "invalid"),
                     "aws.volume" :> Setting(TRUE, "invalid"),
                     "aws.gpu" :> Setting(TRUE, "valid"), "aws.typo" :> Setting(TRUE, "none")},
            enforce : BOOLEAN] :
        Distance(f, NoFile) <= MaxKeys}
=============================================================================
