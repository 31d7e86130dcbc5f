----------------------------- MODULE SandboxPolicy -----------------------------
(***************************************************************************)
(* orchestration/sandboxPolicy.ts: the policy a sandbox is provisioned     *)
(* with, resolved from what a client proposes.  Absent fields take a       *)
(* default, a field out of bounds or a forbidden capability or destination *)
(* refuses the whole proposal.  The reasons of a refusal are left out but  *)
(* for those of destinations, which the classification returns.            *)
(***************************************************************************)
EXTENDS Integers, FiniteSets

CONSTANT Proposals    \* what clients propose

VARIABLES
  proposal,     \* what the client proposes
  resolution    \* what resolveSandboxPolicy makes of it

policyVars == <<proposal, resolution>>

-----------------------------------------------------------------------------
(* Resources: an absent one is 0 here, one that is no positive integer -1. *)
Resources == {"cpuMillis", "memoryMb", "diskMb", "pids", "maxLifetime", "idleTimeout"}

Ceiling ==
  [cpuMillis |-> 2000, memoryMb |-> 1024, diskMb |-> 2048, pids |-> 256,
   maxLifetime |-> 3600, idleTimeout |-> 1800]

Default ==
  [cpuMillis |-> 500, memoryMb |-> 256, diskMb |-> 512, pids |-> 64,
   maxLifetime |-> 900, idleTimeout |-> 300]

InBounds(f, v) == v = 0 \/ v \in 1 .. Ceiling[f]

Picked(f, v) == IF v = 0 THEN Default[f] ELSE v

-----------------------------------------------------------------------------
(* Destinations.  A host is read off a URL, a host:port or a bare host.    *)
(* What it is compared with are spellings, so a destination is the form it *)
(* is written in, the host that is meant and the way the host is spelled.  *)
(* The host is a name of some kind, an IPv4 address (its first two octets  *)
(* decide) or an IPv6 address of some kind, one of which carries an IPv4   *)
(* address.  The address of the metadata service is one of the hosts known *)
(* by name, "metadata" with the name that ends in no internal suffix, and  *)
(* "metadataInternal" with the others; "v6linkLow" is fe80 and fe90 to     *)
(* febf, "v6linkHigh" the rest of the link-local block.                    *)
Forms == {"bare", "url", "port", "urlWithPortAndPath"}

NameKinds == {"metadata", "metadataInternal", "localhost", "belowLocalhost", "internal",
              "oneLabel", "name"}

V6Kinds == {"v6loopback", "v6unspecified", "v6linkLow", "v6linkHigh", "v6unique", "v6mapped", "v6"}

HostKinds == {"empty", "socket", "wildcard", "everything", "v4"} \cup NameKinds \cup V6Kinds

(* Names and IPv4 addresses may end in a dot, and the user information of  *)
(* a URL may stand before any host; an IPv6 address may be written in full *)
(* or with its IPv4 part in groups, an IPv4 address in two or three parts. *)
Spellings(kind) ==
  {"usual"} \cup (IF kind \in NameKinds \cup {"v4"} THEN {"dotted"} ELSE {})
           \cup (IF kind \in NameKinds \cup V6Kinds \cup {"v4"} THEN {"account"} ELSE {})
           \cup (IF kind \in V6Kinds \cup {"v4"} THEN {"other"} ELSE {})

Destination ==
  {d \in [form : Forms, kind : HostKinds, a : 0 .. 255, b : 0 .. 255,
          spelling : {"usual", "dotted", "account", "other"}] : d.spelling \in Spellings(d.kind)}

(* Wrong: the private block 172.16/12 ends one octet early.                *)
ClassifyIpv4Short(a, b) ==
  CASE a = 127 -> "LOOPBACK"
    [] a = 0 -> "UNSPECIFIED"
    [] a = 169 /\ b = 254 -> "LINK_LOCAL"
    [] a = 10 \/ (a = 172 /\ b \in 16 .. 30) \/ (a = 192 /\ b = 168)
       \/ (a = 100 /\ b \in 64 .. 127) -> "PRIVATE"
    [] OTHER -> "none"

ClassifyIpv4(a, b) ==
  CASE a = 127 -> "LOOPBACK"
    [] a = 0 -> "UNSPECIFIED"
    [] a = 169 /\ b = 254 -> "LINK_LOCAL"
    [] a = 10 \/ (a = 172 /\ b \in 16 .. 31) \/ (a = 192 /\ b = 168)
       \/ (a = 100 /\ b \in 64 .. 127) -> "PRIVATE"
    [] OTHER -> "none"

(* "everything" is 0.0.0.0/0 or ::/0, which loses its length in a URL.     *)
ClassifyUsual(d) ==
  CASE d.kind = "empty" -> "MALFORMED"
    [] d.kind = "socket" -> IF d.form \in {"bare", "port"} THEN "UNIX_SOCKET" ELSE "INTERNAL"
    [] d.kind = "wildcard" -> "UNRESTRICTED"
    [] d.kind = "everything" -> IF d.form = "bare" THEN "UNRESTRICTED" ELSE "UNSPECIFIED"
    [] d.kind \in {"metadata", "metadataInternal"} -> "METADATA"
    [] d.kind \in {"localhost", "belowLocalhost", "v6loopback"} -> "LOOPBACK"
    [] d.kind \in {"internal", "oneLabel"} -> "INTERNAL"
    [] d.kind = "v6unspecified" -> "UNSPECIFIED"
    [] d.kind = "v6linkLow" -> "LINK_LOCAL"
    [] d.kind = "v6unique" -> "PRIVATE"
    [] d.kind \in {"v4", "v6mapped"} -> ClassifyIpv4(d.a, d.b)
    [] OTHER -> "none"

(* In another spelling a host is not what it is compared with; what is     *)
(* left are the suffixes and the lack of a dot behind user information,    *)
(* and the first digits of an IPv6 address.                                *)
ClassifyDestination(d) ==
  CASE d.spelling = "usual" -> ClassifyUsual(d)
    [] d.spelling = "account" /\ d.kind = "belowLocalhost" -> "LOOPBACK"
    [] d.spelling = "account" /\ d.kind \in {"localhost", "internal", "oneLabel", "metadataInternal"} ->
         "INTERNAL"
    [] d.spelling = "other" /\ d.kind = "v6linkLow" -> "LINK_LOCAL"
    [] d.spelling = "other" /\ d.kind = "v6unique" -> "PRIVATE"
    [] OTHER -> "none"

-----------------------------------------------------------------------------
(* Capabilities and file system: the flags a client asks for.              *)
Forbidden == {"rawSockets", "privileged", "hostFilesystem", "deviceAccess",
              "hostMounts", "writableRoot"}

Outbound == {"outboundHttp", "outboundDns"}

Flags == {"network"} \cup Outbound \cup Forbidden

(* A proposal that passed the schema of the route.                         *)
Proposal ==
  [resources : [Resources -> Int], flags : SUBSET Flags, ingress : {"deny", "controlled"},
   egress : {"deny", "allowlist"}, destinations : SUBSET Destination]

(* Outbound traffic needs the network.                                     *)
Granted(flags) == {f \in flags \ Forbidden : "network" \in flags}

NetworkAccepted(p) ==
  /\ p.ingress = "deny"
  /\ IF p.egress = "allowlist"
     THEN /\ "network" \in Granted(p.flags)
          /\ \A d \in p.destinations : ClassifyDestination(d) = "none"
     ELSE p.destinations = {}

Accepted(p) ==
  /\ \A f \in Resources : InBounds(f, p.resources[f])
  /\ p.flags \cap Forbidden = {}
  /\ NetworkAccepted(p)

Policy(p) ==
  [p EXCEPT !.resources = [f \in Resources |-> Picked(f, p.resources[f])],
            !.flags = Granted(p.flags)]

ResolveSandboxPolicy(p) ==
  IF Accepted(p) THEN [ok |-> TRUE, policy |-> Policy(p)] ELSE [ok |-> FALSE, policy |-> p]

ASSUME ProposalsAssumption == Proposals \subseteq Proposal

-----------------------------------------------------------------------------
Unresolved == [ok |-> FALSE, policy |-> <<>>]

PolicyInit == proposal \in Proposals /\ resolution = Unresolved

Resolve ==
  /\ resolution = Unresolved
  /\ resolution' = ResolveSandboxPolicy(proposal)
  /\ UNCHANGED proposal

PolicySpec == PolicyInit /\ [][Resolve]_policyVars

-----------------------------------------------------------------------------
(* The address blocks that no allow-list may name, as the registries write *)
(* them: a prefix of so many bits.                                         *)
In(a, b, prefix, below) == (256 * a + b) \div below = prefix

Reserved(a, b) ==
  \/ In(a, b, 0, 256) \/ In(a, b, 10, 256) \/ In(a, b, 127, 256)
  \/ In(a, b, 256 * 169 + 254, 1) \/ In(a, b, 256 * 192 + 168, 1)
  \/ In(a, b, 16 * 172 + 1, 16)
  \/ In(a, b, 4 * 100 + 1, 64)

(* The hosts that an allow-list may name: public names and addresses.      *)
Public(d) ==
  d.kind \in {"name", "v6"} \/ (d.kind \in {"v4", "v6mapped"} /\ ~Reserved(d.a, d.b))

(* The hosts that are not known for what they are: a name or an IPv4       *)
(* address that ends in a dot, any address and the dotted metadata names   *)
(* behind user information, an address in another spelling that is not     *)
(* known by its first digits, and the upper link-local addresses.          *)
Overlooked(d) ==
  \/ d.spelling = "dotted"
  \/ d.spelling = "account" /\ d.kind \in {"metadata", "v4"} \cup V6Kinds
  \/ d.spelling = "other" /\ d.kind \notin {"v6linkLow", "v6unique"}
  \/ d.kind = "v6linkHigh"

(* What a policy may be: bounded, without any forbidden flag, closed       *)
(* unless the network was granted, and open to no reserved host that the   *)
(* code recognises.                                                        *)
Safe(q) ==
  /\ \A f \in Resources : q.resources[f] \in 1 .. Ceiling[f]
  /\ q.flags \cap Forbidden = {}
  /\ q.ingress = "deny"
  /\ q.flags # {} \/ q.destinations # {} => "network" \in q.flags
  /\ \A d \in q.destinations : Public(d) \/ Overlooked(d)

(* Every policy that is granted is safe, whatever was proposed, and fixed: *)
(* a client that proposes the policy it was granted is granted the same,   *)
(* so a retry that sends it back resolves to what the first call used.     *)
(* The header of the file promises more: that no reserved destination is   *)
(* allowed.  It is so for the spellings that the code compares with, and   *)
(* not for those that are Overlooked.                                      *)
GrantedPolicyIsSafe ==
  resolution.ok => /\ Safe(resolution.policy)
                   /\ ResolveSandboxPolicy(resolution.policy) = resolution
=============================================================================
