-------------------------------- MODULE PartsMC --------------------------------
(***************************************************************************)
(* Seven parts of the system that share no state, in one run: each         *)
(* behaviour is one of one of them, chosen at the start, and the others    *)
(* stand still.                                                            *)
(***************************************************************************)
EXTENDS SandboxPolicy, Configuration, Repositories, ChallengeEnvironments, LabPages, ContactForm,
        MobileMenu, LabContent

VARIABLE part

Parts == {"policy", "boot", "stores", "challenges", "pages", "contact", "menu"}

partsVars == <<part, policyVars, bootVars, storeVars, challengeVars, pageVars, contactVars, menuVars>>

-----------------------------------------------------------------------------
(* Proposals: the values at the bounds of every resource, every set of     *)
(* flags with the network open and closed, and allow-lists of one          *)
(* destination in every spelling, IPv4 ones at the edges of every reserved *)
(* block.                                                                  *)
NoResource == [f \in Resources |-> 0]

Octets ==
  ({0, 1, 9, 10, 11, 126, 127, 128, 255} \X {0, 255})
    \cup ({100} \X {63, 64, 127, 128}) \cup ({169} \X {253, 254, 255})
    \cup ({172} \X {15, 16, 31, 32}) \cup ({192} \X {167, 168, 169})

SomeDestinations ==
  UNION {{[form |-> form, kind |-> kind, a |-> 0, b |-> 0, spelling |-> spelling] :
            form \in Forms, spelling \in Spellings(kind)} : kind \in HostKinds \ {"v4", "v6mapped"}}
    \cup UNION {{[form |-> "bare", kind |-> kind, a |-> o[1], b |-> o[2], spelling |-> spelling] :
                   o \in Octets, spelling \in Spellings(kind)} : kind \in {"v4", "v6mapped"}}

Asking(resources, flags, ingress, egress, destinations) ==
  [resources |-> resources, flags |-> flags, ingress |-> ingress, egress |-> egress,
   destinations |-> destinations]

MCProposals ==
  {Asking([NoResource EXCEPT ![f] = v], {}, "deny", "deny", {}) :
     f \in Resources, v \in {-1, 0, 1} \cup {Ceiling[g] + d : g \in Resources, d \in {0, 1}}}
    \cup {Asking(NoResource, flags, ingress, egress, {}) :
            flags \in SUBSET Flags, ingress \in {"deny", "controlled"},
            egress \in {"deny", "allowlist"}}
    \cup {Asking(NoResource, flags, "deny", egress, {d}) :
            flags \in {{}, {"network"}, {"outboundHttp"}}, egress \in {"deny", "allowlist"},
            d \in SomeDestinations}

-----------------------------------------------------------------------------
(* Progress that is begun, and one that is finished.                       *)
MCMarks ==
  {[status |-> "in_progress", completedAt |-> 0], [status |-> "completed", completedAt |-> 2]}

-----------------------------------------------------------------------------
(* Environments: the modes, stores and origins combined, the limits of the *)
(* environments combined, and the bounds of every other number.            *)
Unset == [kind |-> "unset", n |-> 0]

Given(n) == [kind |-> "integer", n |-> n]

Unread == {Unset, [kind |-> "blank", n |-> 0], [kind |-> "other", n |-> 0]}

PlainEnv ==
  [NODE_ENV |-> "anything", DATABASE_URL |-> TRUE, CORS_ORIGIN |-> {}, REDIS_URL |-> "unset",
   SECURITY_EVENT_LOG |-> "unset", PORT |-> Unset, SESSION_TTL |-> Unset,
   policy |-> [p \in Policies |-> Unset], threshold |-> [t \in Thresholds |-> Unset]]

MCEnvironments ==
  {[PlainEnv EXCEPT !.NODE_ENV = mode, !.DATABASE_URL = url, !.REDIS_URL = redis, !.CORS_ORIGIN = o] :
     mode \in {"production", "test", "anything"}, url \in BOOLEAN,
     redis \in {"unset", "redis:", "rediss:", "other", "malformed"},
     o \in {{}} \cup {{x} : x \in Origin}
           \cup {{x, [scheme |-> "https:", host |-> "site"]} : x \in Origin}}
    \cup {[PlainEnv EXCEPT !.policy = [MAX_ACTIVE |-> a, MAX_TOTAL |-> t,
                                       TTL_MINUTES |-> m, MAX_LIFETIME_MINUTES |-> l]] :
            a \in Unread \cup {Given(n) : n \in {0, 2, 30, 1000, 1001}},
            t \in {Unset} \cup {Given(n) : n \in {1, 2, 26, 10000, 10001}},
            m \in {Unset} \cup {Given(n) : n \in {1, 241, 1440, 1441}},
            l \in {Unset} \cup {Given(n) : n \in {59, 60, 10080, 10081}}}
    \cup {[PlainEnv EXCEPT !.PORT = r] : r \in Unread \cup {Given(n) : n \in {0, 1, 65535, 65536}}}
    \cup {[PlainEnv EXCEPT !.SESSION_TTL = r] :
            r \in Unread \cup {Given(n) : n \in {59, 60, 7776000, 7776001}}}
    \cup {[PlainEnv EXCEPT !.threshold[t] = r, !.SECURITY_EVENT_LOG = log] : t \in Thresholds,
            r \in Unread \cup {Given(n) : n \in {0, 1, 100000, 100001, 1000000, 1000001}},
            log \in {"unset", "yes", "no", "other"}}

-----------------------------------------------------------------------------
MCQueries == {{}, {"idor", "access-control", "api-security"}}

(* An administrator owns no row of its own here.                           *)
StaffOwnsNothing == \A e \in Rows : row'[e].status # "NONE" => row'[e].owner \notin Staff

PartsInit ==
  /\ part \in Parts
  /\ IF part = "policy" THEN PolicyInit
     ELSE proposal = (CHOOSE p \in Proposals : TRUE) /\ resolution = Unresolved
  /\ IF part = "boot" THEN BootInit
     ELSE env = PlainEnv /\ stage = "loading" /\ store = "none" /\ tables = "none"
  /\ StoresInit /\ (part # "stores" => family = "accounts")
  /\ ChallengeInit /\ (part # "challenges" => configured)
  /\ PagesInit
  /\ ContactInit /\ (part # "contact" => hasKey)
  /\ MenuInit /\ (part # "menu" => site = "lab" /\ layout = "wide")

PartsNext ==
  /\ UNCHANGED part
  /\ IF part = "policy" THEN Resolve ELSE UNCHANGED policyVars
  /\ IF part = "boot" THEN BootNext ELSE UNCHANGED bootVars
  /\ IF part = "stores" THEN StoresNext ELSE UNCHANGED storeVars
  /\ IF part = "challenges" THEN ChallengeNext /\ StaffOwnsNothing ELSE UNCHANGED challengeVars
  /\ IF part = "pages" THEN PagesNext ELSE UNCHANGED pageVars
  /\ IF part = "contact" THEN ContactNext ELSE UNCHANGED contactVars
  /\ IF part = "menu" THEN MenuNext ELSE UNCHANGED menuVars

PartsSpec == PartsInit /\ [][PartsNext]_partsVars
=============================================================================
