----------------------------- MODULE Configuration -----------------------------
(***************************************************************************)
(* config/env.ts, server.ts, infra/sharedStateFactory.ts and               *)
(* repositories/index.ts: what the process reads of its environment, when  *)
(* it refuses to start, and which stores it starts with.                   *)
(***************************************************************************)
EXTENDS Integers

CONSTANTS
  Environments,     \* environments a process may be started in
  ClientWired       \* server.ts passes a redisClientFactory

ASSUME ClientAssumption == ClientWired \in BOOLEAN

VARIABLES
  env,      \* process.env
  stage,    \* how far main() has come
  store,    \* the shared state the application is built with
  tables    \* the repositories it is built with

bootVars == <<env, stage, store, tables>>

-----------------------------------------------------------------------------
(* A variable that holds a number: unset, blank, or text for which Number  *)
(* gives an integer or something else.                                     *)
Raw == [kind : {"unset", "blank", "integer", "other"}, n : Int]

(* An origin of CORS_ORIGIN: a wildcard, or what new URL makes of it; the  *)
(* host of an IPv6 literal keeps its brackets, so that the comparison with *)
(* ::1 below never holds.                                                  *)
Origin == [scheme : {"https:", "http:", "none", "*"},
           host : {"site", "localhost", "127.0.0.1", "[::1]"}]

Policies == {"MAX_ACTIVE", "MAX_TOTAL", "TTL_MINUTES", "MAX_LIFETIME_MINUTES"}

Thresholds == {"FAILED_AUTH", "SUBMISSION", "ENV_ACTIVITY", "INVALID_SESSION", "REQUEST_BURST"}

Environment ==
  [NODE_ENV : {"production", "test", "anything"}, DATABASE_URL : BOOLEAN,
   CORS_ORIGIN : SUBSET Origin, REDIS_URL : {"unset", "redis:", "rediss:", "other", "malformed"},
   SECURITY_EVENT_LOG : {"unset", "yes", "no", "other"}, PORT : Raw, SESSION_TTL : Raw,
   policy : [Policies -> Raw], threshold : [Thresholds -> Raw]]

-----------------------------------------------------------------------------
(* PORT and SESSION_TTL default only when they are empty: Number makes 0   *)
(* of a blank, which is out of their bounds.                               *)
NumberAccepted(raw, low, high) ==
  raw.kind = "unset" \/ (raw.kind = "integer" /\ raw.n \in low .. high)

PortAccepted(raw) == NumberAccepted(raw, 1, 65535)

SessionTtlAccepted(raw) == NumberAccepted(raw, 60, 60 * 60 * 24 * 90)

(* parsePositiveInt.                                                       *)
CountAccepted(raw, high) ==
  raw.kind \in {"unset", "blank"} \/ (raw.kind = "integer" /\ raw.n \in 1 .. high)

Count(raw, fallback) == IF raw.kind = "integer" THEN raw.n ELSE fallback

Highest == [MAX_ACTIVE |-> 1000, MAX_TOTAL |-> 10000,
            TTL_MINUTES |-> 60 * 24, MAX_LIFETIME_MINUTES |-> 60 * 24 * 7]

Fallback == [MAX_ACTIVE |-> 3, MAX_TOTAL |-> 25, TTL_MINUTES |-> 60, MAX_LIFETIME_MINUTES |-> 240]

EnvironmentPolicy == [p \in Policies |-> Count(env.policy[p], Fallback[p])]

(* Wrong: only values that are given are compared.                         *)
EnvironmentPolicyAcceptedAsGiven ==
  /\ \A p \in Policies : CountAccepted(env.policy[p], Highest[p])
  /\ EnvironmentPolicy["MAX_LIFETIME_MINUTES"] >= EnvironmentPolicy["TTL_MINUTES"]
  /\ env.policy["MAX_TOTAL"].kind = "integer"
       => EnvironmentPolicy["MAX_TOTAL"] >= Count(env.policy["MAX_ACTIVE"], 1)

(* The defaults take part in the comparison.                               *)
EnvironmentPolicyAccepted ==
  /\ \A p \in Policies : CountAccepted(env.policy[p], Highest[p])
  /\ EnvironmentPolicy["MAX_LIFETIME_MINUTES"] >= EnvironmentPolicy["TTL_MINUTES"]
  /\ EnvironmentPolicy["MAX_TOTAL"] >= EnvironmentPolicy["MAX_ACTIVE"]

SecurityConfigAccepted ==
  /\ env.SECURITY_EVENT_LOG # "other"
  /\ \A t \in Thresholds :
       CountAccepted(env.threshold[t], IF t = "REQUEST_BURST" THEN 1000000 ELSE 100000)

Production == env.NODE_ENV = "production"

(* The allow-list: nothing stands for the local origin outside production. *)
CorsAccepted ==
  /\ \A o \in env.CORS_ORIGIN : o.scheme # "*"
  /\ Production => /\ env.CORS_ORIGIN # {}
                   /\ \A o \in env.CORS_ORIGIN : o.scheme = "https:"
                   /\ \A o \in env.CORS_ORIGIN : o.host \notin {"localhost", "127.0.0.1", "::1"}

CorsOrigin ==
  IF env.CORS_ORIGIN = {} THEN {[scheme |-> "http:", host |-> "localhost"]}
                          ELSE env.CORS_ORIGIN

RedisAccepted == env.REDIS_URL \notin {"other", "malformed"}

ConfigAccepted ==
  /\ Production => env.DATABASE_URL
  /\ PortAccepted(env.PORT)
  /\ CorsAccepted
  /\ RedisAccepted
  /\ SessionTtlAccepted(env.SESSION_TTL)
  /\ EnvironmentPolicyAccepted
  /\ SecurityConfigAccepted

-----------------------------------------------------------------------------
(* main(): each step may end it, and what comes after it never runs.       *)
BootInit ==
  /\ env \in Environments
  /\ stage = "loading"
  /\ store = "none"
  /\ tables = "none"

LoadConfig ==
  /\ stage = "loading"
  /\ stage' = IF ConfigAccepted THEN "loaded" ELSE "refused"
  /\ UNCHANGED <<env, store, tables>>

(* A store that is asked for and cannot be had is never replaced.          *)
ResolveSharedStateStore ==
  /\ stage = "loaded"
  /\ IF env.REDIS_URL # "unset" /\ ~ClientWired
     THEN stage' = "refused" /\ UNCHANGED store
     ELSE /\ stage' = "resolved"
          /\ store' = IF env.REDIS_URL = "unset" THEN "memory" ELSE "redis"
  /\ UNCHANGED <<env, tables>>

CreateRepositories ==
  /\ stage = "resolved"
  /\ tables' = IF env.DATABASE_URL THEN "prisma" ELSE "memory"
  /\ stage' = "built"
  /\ UNCHANGED <<env, store>>

(* The port may be taken.                                                  *)
Listen ==
  /\ stage = "built"
  /\ stage' \in {"listening", "refused"}
  /\ UNCHANGED <<env, store, tables>>

BootNext == LoadConfig \/ ResolveSharedStateStore \/ CreateRepositories \/ Listen

BootSpec == BootInit /\ [][BootNext]_bootVars

-----------------------------------------------------------------------------
(* A process that listens is configured coherently, whatever combination   *)
(* of set, blank and default values it was given: the policy is one the    *)
(* environment service works with (its PolicyAssumption: no limit of live  *)
(* rows above that of all rows, no lifetime shorter than the TTL), a store *)
(* it was told to share is shared, and in production nothing is kept in    *)
(* memory but the counters of a single instance, and every origin is an    *)
(* https one.                                                              *)
BootIsCoherent ==
  stage = "listening" =>
    /\ 1 <= EnvironmentPolicy["MAX_ACTIVE"]
    /\ EnvironmentPolicy["MAX_ACTIVE"] <= EnvironmentPolicy["MAX_TOTAL"]
    /\ 1 <= EnvironmentPolicy["TTL_MINUTES"]
    /\ EnvironmentPolicy["TTL_MINUTES"] <= EnvironmentPolicy["MAX_LIFETIME_MINUTES"]
    /\ store = "memory" <=> env.REDIS_URL = "unset"
    /\ Production => /\ tables = "prisma"
                     /\ \A o \in CorsOrigin : o.scheme = "https:"
=============================================================================
