------------------------------- MODULE LabContent -------------------------------
(***************************************************************************)
(* The content of the Lab as it stands, the values of the constants of     *)
(* LabCatalog: data/*.ts of the frontend, which the API imports too.       *)
(*                                                                         *)
(* Wording, ids, points, lessons and the minutes that no filter reads are  *)
(* left out.  The order fields of modules and stages are their positions.  *)
(***************************************************************************)
EXTENDS Integers, Sequences

Challenge(slug, category, difficulty, tags) ==
  [slug |-> slug, category |-> category, difficulty |-> difficulty, tags |-> tags]

ReflectedXss ==
  Challenge("reflected-xss", "web", "beginner", {"XSS", "Web", "Input Validation"})

JwtConfusion ==
  Challenge("jwt-algorithm-confusion", "authentication", "medium", {"JWT", "Authentication", "API"})

Idor == Challenge("idor", "api", "medium", {"IDOR", "Authorization", "API"})

LabChallenges == <<ReflectedXss, JwtConfusion, Idor>>

LabTools == <<"jwt", "base64", "url", "json", "hash", "csp", "headers", "regex">>

LabPanels == {"jwt", "base64", "url", "json", "hash", "csp", "headers", "regex"}

-----------------------------------------------------------------------------
(* Learning paths.  A module is the challenges and the tools it uses.      *)
Module(practised, used) == [challenges |-> practised, tools |-> used]

Plain == Module(<<>>, <<>>)

Path(order, slug, category, difficulty, minutes, prerequisites, related, tools, modules) ==
  [order |-> order, slug |-> slug, category |-> category, difficulty |-> difficulty,
   minutes |-> minutes, prerequisites |-> prerequisites, challenges |-> related,
   tools |-> tools, modules |-> modules, status |-> "available"]

WebFundamentals ==
  Path(1, "web-security-fundamentals", "fundamentals", "beginner", 120, <<>>, <<>>, <<"headers">>,
       <<Plain, Plain, Module(<<>>, <<"headers">>)>>)

Reconnaissance ==
  Path(2, "reconnaissance-attack-surface", "recon", "beginner", 70,
       <<"web-security-fundamentals">>, <<>>, <<>>, <<Plain, Plain>>)

AuthenticationJwt ==
  Path(3, "authentication-jwt-security", "authentication", "intermediate", 110,
       <<"reconnaissance-attack-surface">>, <<"jwt-algorithm-confusion">>, <<"jwt">>,
       <<Plain, Module(<<"jwt-algorithm-confusion">>, <<"jwt">>), Plain>>)

AccessControlIdor ==
  Path(4, "access-control-idor", "access-control", "intermediate", 90,
       <<"authentication-jwt-security">>, <<"idor">>, <<>>,
       <<Plain, Module(<<"idor">>, <<>>), Plain>>)

CrossSiteScripting ==
  Path(5, "cross-site-scripting", "web", "intermediate", 100,
       <<"web-security-fundamentals">>, <<"reflected-xss">>, <<"csp">>,
       <<Plain, Module(<<"reflected-xss">>, <<>>), Module(<<>>, <<"csp">>)>>)

ApiSecurity ==
  Path(6, "api-security", "api", "intermediate", 100,
       <<"authentication-jwt-security", "access-control-idor">>, <<"idor">>, <<"json", "url">>,
       <<Plain, Module(<<>>, <<"json", "url">>), Plain>>)

SecureTesting ==
  Path(7, "secure-web-application-testing", "testing", "advanced", 130,
       <<"web-security-fundamentals", "reconnaissance-attack-surface",
         "authentication-jwt-security", "access-control-idor", "cross-site-scripting",
         "api-security">>,
       <<"reflected-xss", "idor", "jwt-algorithm-confusion">>, <<"headers", "jwt", "json">>,
       <<Plain,
         Module(<<"reflected-xss", "idor", "jwt-algorithm-confusion">>,
                <<"headers", "jwt", "json">>),
         Plain>>)

LabLearningPaths ==
  <<WebFundamentals, Reconnaissance, AuthenticationJwt, AccessControlIdor, CrossSiteScripting,
    ApiSecurity, SecureTesting>>

-----------------------------------------------------------------------------
(* Missions: each has four stages, of which the last is optional; a stage  *)
(* is the challenges it practises.                                         *)
Mission(order, slug, category, difficulty, prior, related, tools, paths, stages) ==
  [order |-> order, slug |-> slug, category |-> category, difficulty |-> difficulty,
   prerequisites |-> prior, challenges |-> related, tools |-> tools, paths |-> paths,
   stages |-> stages, status |-> "available"]

SurfaceRecon ==
  Mission(1, "surface-recon", "recon", "beginner", <<>>, <<>>, <<"headers">>,
          <<"reconnaissance-attack-surface">>, <<<<>>, <<>>, <<>>, <<>>>>)

WebEntryPoint ==
  Mission(2, "web-entry-point", "web", "intermediate", <<"surface-recon">>,
          <<"reflected-xss">>, <<"url">>, <<"cross-site-scripting">>,
          <<<<>>, <<"reflected-xss">>, <<"reflected-xss">>, <<>>>>)

BrokenIdentity ==
  Mission(3, "broken-identity", "authentication", "intermediate", <<"surface-recon">>,
          <<"jwt-algorithm-confusion">>, <<"jwt">>, <<"authentication-jwt-security">>,
          <<<<>>, <<>>, <<"jwt-algorithm-confusion">>, <<>>>>)

AccessControl ==
  Mission(4, "access-control", "access-control", "intermediate", <<"broken-identity">>,
          <<"idor">>, <<>>, <<"access-control-idor">>, <<<<>>, <<"idor">>, <<"idor">>, <<>>>>)

ApiExposure ==
  Mission(5, "api-exposure", "api", "intermediate",
          <<"broken-identity", "access-control">>, <<>>, <<"json", "url">>, <<"api-security">>,
          <<<<>>, <<>>, <<>>, <<>>>>)

DefensiveValidation ==
  Mission(6, "defensive-validation", "defensive", "advanced",
          <<"web-entry-point", "api-exposure">>, <<>>, <<"csp", "headers", "regex">>,
          <<"secure-web-application-testing">>, <<<<>>, <<>>, <<>>, <<>>>>)

LabMissions ==
  <<SurfaceRecon, WebEntryPoint, BrokenIdentity, AccessControl, ApiExposure, DefensiveValidation>>
=============================================================================
