----------------------------- MODULE MCServices -----------------------------
(* The components that share no state, one of them at work in each         *)
(* behaviour and the rest as they begin: a run explores them all without   *)
(* the product of their states.                                            *)
EXTENDS OtelExport, Sessions, AbuseWindow, Retry, ReadinessProbes, HttpServer,
        MigrationRun, GenerateCommit, NewProject, Accounts, MemoryCache, ObjectFiles,
        JobContract, ProjectRelay, BuildCalls, TLC

CONSTANTS s1, s2, s3, t1, t2, p1, p2, q1, k1, owned, other, marked

VARIABLE part   \* the component at work

MCPolicies ==
    {[attempts |-> 4, initial |-> 1, max |-> 3, timeout |-> 2, multiplier |-> 2,
      jitter |-> j, deadline |-> d] : <<j, d>> \in
         {<<"Full", 0>>, <<"None", 0>>, <<"Equal", 5>>, <<"None", 5>>}}

MCLimits == <<1, 2>>
MCOrder == <<owned, marked, other>>
MCMissing == <<"absent", FALSE>>

MCSymmetry == Permutations({s1, s2, s3}) \cup Permutations({t1, t2})

Parts ==
    {"export", "sessions", "abuse", "retry", "probes", "http", "migration", "generate", "new",
     "accounts", "cache", "objects", "jobs", "relay", "build"}

MCInit ==
    /\ part \in Parts
    /\ ExportInit /\ SessionsInit /\ AbuseInit /\ ProbesInit /\ HttpInit /\ NewInit
    /\ RetryInit /\ (part # "retry" => policy = CHOOSE p \in MCPolicies : TRUE)
    /\ MigrationInit /\ (part # "migration" => engine = "mysql")
    /\ GenerateInit
    /\ part # "generate" =>
          disk = [f \in Files |-> Rendered("user")] /\ record = [f \in Files |-> NoRecord]
    /\ AccountsInit /\ CacheInit
    /\ ObjectsInit /\ (part # "objects" => present = NoFile)
    /\ Init /\ RelayInit /\ BuildInit

(* The last session of the bound only at the first instant, so that races  *)
(* of three and instants of three do not multiply.                         *)
MCFewSessions == Len(session) = MaxSessions => clock = 0

Unless(name, its) == part # name => UNCHANGED its

MCNext ==
    /\ UNCHANGED part
    /\ \/ part = "export" /\ ExportNext
       \/ part = "sessions" /\ SessionsNext /\ MCFewSessions'
       \/ part = "abuse" /\ AbuseNext
       \/ part = "retry" /\ RetryNext
       \/ part = "probes" /\ ProbesNext
       \/ part = "http" /\ HttpNext
       \/ part = "migration" /\ MigrationNext
       \/ part = "generate" /\ GenerateNext
       \/ part = "new" /\ NewNext
       \/ part = "accounts" /\ AccountsNext
       \/ part = "cache" /\ CacheNext
       \/ part = "objects" /\ ObjectsNext
       \/ part = "jobs" /\ Next
       \/ part = "relay" /\ RelayNext
       \/ part = "build" /\ BuildNext
    /\ Unless("export", exportVars) /\ Unless("sessions", sessionVars)
    /\ Unless("abuse", abuseVars) /\ Unless("retry", retryVars)
    /\ Unless("probes", probeVars) /\ Unless("http", httpVars)
    /\ Unless("migration", migrationVars) /\ Unless("generate", generateVars)
    /\ Unless("new", newVars) /\ Unless("accounts", accountVars)
    /\ Unless("cache", cacheVars) /\ Unless("objects", objectVars)
    /\ Unless("jobs", vars) /\ Unless("relay", relayVars) /\ Unless("build", buildVars)

MCVars ==
    <<part, exportVars, sessionVars, abuseVars, retryVars, probeVars, httpVars, migrationVars,
      generateVars, newVars, accountVars, cacheVars, objectVars,
      vars, relayVars, buildVars>>

MCSpec == MCInit /\ [][MCNext]_MCVars

(* The generator alone. *)
MCGenerateSpec == MCInit /\ part = "generate" /\ [][MCNext]_MCVars
==============================================================================
