------------------------------ MODULE Identity ------------------------------
(***************************************************************************)
(* Who a request comes from: the sign-in sessions of the web front end,    *)
(* the issuer's keys in an API process, its request limit, and the tenants *)
(* and identities that the operators provision.  They share no state, so   *)
(* each is taken by itself: a behaviour is one of the component that       *)
(* machine names.                                                          *)
(***************************************************************************)
EXTENDS WebSession

CONSTANTS
  Keys, First, Tokens, Asks, Ttl, Tolerance, Never, KeyTime,    \* KeyCache
  Clients, Window, Max, LimitTime, MaxRestarts,                 \* RateLimit
  Tenants, Emails, Subjects, Inputs, Commands, MaxCommandFaults \* Provisioning

-----------------------------------------------------------------------------
VARIABLES clock, since, until, copied, asked

keyVars == <<clock, since, until, copied, asked>>

Keyring == INSTANCE KeyCache WITH MaxTime <- KeyTime, copy <- copied, ask <- asked

VARIABLES instant, buckets, admitted, restarts

rateVars == <<instant, buckets, admitted, restarts>>

Rate == INSTANCE RateLimit WITH MaxTime <- LimitTime, now <- instant

VARIABLES provisioned, identities, evidenced, command, failures, hit

tenantVars == <<provisioned, identities, evidenced, command, failures, hit>>

Staged == INSTANCE Provisioning WITH MaxFaults <- MaxCommandFaults, faults <- failures

ASSUME IdentityAssumption ==
  /\ Keyring!KeyAssumption
  /\ Rate!RateAssumption
  /\ Staged!ProvisioningAssumption

-----------------------------------------------------------------------------
VARIABLE machine

\* What stays out of a behaviour has no state.
KeysIdle == clock = 0 /\ since = 0 /\ until = 0 /\ copied = 0 /\ asked = 0
RateIdle == instant = 0 /\ buckets = 0 /\ admitted = 0 /\ restarts = 0
TenantsIdle ==
  /\ provisioned = 0 /\ identities = 0 /\ evidenced = 0
  /\ command = 0 /\ failures = 0 /\ hit = 0

IdentityInit ==
  /\ \/ machine = "sessions" /\ KeysIdle /\ RateIdle /\ TenantsIdle
     \/ machine = "keys" /\ Keyring!Init /\ RateIdle /\ TenantsIdle
     \/ machine = "limit" /\ KeysIdle /\ Rate!Init /\ TenantsIdle
     \/ machine = "tenants" /\ KeysIdle /\ RateIdle /\ Staged!Init
  /\ Init
  /\ machine # "sessions" => rotates = FALSE

SessionsStep == machine = "sessions" /\ Next /\ UNCHANGED <<machine, keyVars, rateVars, tenantVars>>
KeysStep == machine = "keys" /\ Keyring!Next /\ UNCHANGED <<machine, vars, rateVars, tenantVars>>
LimitStep == machine = "limit" /\ Rate!Next /\ UNCHANGED <<machine, vars, keyVars, tenantVars>>
TenantsStep == machine = "tenants" /\ Staged!Next /\ UNCHANGED <<machine, vars, keyVars, rateVars>>

IdentityNext == SessionsStep \/ KeysStep \/ LimitStep \/ TenantsStep

IdentitySpec == IdentityInit /\ [][IdentityNext]_<<machine, vars, keyVars, rateVars, tenantVars>>

-----------------------------------------------------------------------------
(* What the components promise; the comments are in their modules. *)

\* The variables of every component have their types.
TypesOK ==
  /\ TypeOK
  /\ machine = "keys" => Keyring!TypeOK
  /\ machine = "limit" => Rate!TypeOK
  /\ machine = "tenants" => Staged!TypeOK

\* The keys of an API process lag behind the issuer by less than a TTL.
CopyFollowsIssuer == machine = "keys" => Keyring!CopyFollowsIssuer

\* The limit of requests is kept, and given.
LimitHolds == machine = "limit" => Rate!LimitHolds

\* A subject stands for one user, and a user for one subject.
OneToOne == machine = "tenants" => Staged!OneToOne

\* The locks of the operators' commands leave no meeting to an error.
MeetingIsAnswered == machine = "tenants" => Staged!MeetingIsAnswered
=============================================================================
