------------------------- MODULE CommercialIdentity -------------------------
(***************************************************************************)
(* Product/CommercialIdentityService.ts: sessions of users of              *)
(* organizations with a role, what a role permits, and the audit trail.    *)
(* Names are taken as trimmed; a call that throws without writing to the   *)
(* trail leaves no trace and is not a step.                                *)
(***************************************************************************)
EXTENDS Naturals, Sequences, FiniteSets

CONSTANTS
    Usernames, Organizations,
    Uuids,          \* tokens; randomUUID does not repeat one
    NoSession

VARIABLES
    identities,     \* the sessions map
    auditEvents     \* the trail, oldest first

identityVars == <<identities, auditEvents>>

Roles == {"OWNER", "ADMIN", "MANAGER", "VIEWER"}
Permissions == {"READ_DASHBOARD", "INGEST_DATA", "CREATE_DECISION", "MANAGE_USERS"}

Permits == [role \in Roles |->
    CASE role \in {"OWNER", "ADMIN"} -> Permissions
      [] role = "MANAGER" -> Permissions \ {"MANAGE_USERS"}
      [] role = "VIEWER" -> {"READ_DASHBOARD"}]

(* tenantId is the organization's name in hexadecimal: one tenant for each *)
(* organization, so the organization stands for it.                        *)
IdentitySession ==
    [username : Usernames, organization : Organizations, role : Roles,
     active : BOOLEAN]

AuditEvent ==
    [type : {"SESSION_CREATED", "SESSION_REVOKED",
             "AUTHORIZATION_ALLOWED", "AUTHORIZATION_DENIED"},
     username : Usernames, organization : Organizations,
     permission : Permissions \cup {"none"}]

IdentityInit ==
    /\ identities = [token \in Uuids |-> NoSession]
    /\ auditEvents = <<>>

Audit(type, username, organization, permission) ==
    auditEvents' = Append(auditEvents,
        [type |-> type, username |-> username, organization |-> organization,
         permission |-> permission])

CreateSession(token, username, organization, role) ==
    /\ identities[token] = NoSession
    /\ identities' = [identities EXCEPT ![token] =
         [username |-> username, organization |-> organization, role |-> role,
          active |-> TRUE]]
    /\ Audit("SESSION_CREATED", username, organization, "none")

(* getSession finds active sessions only.                                  *)
Active(token) == identities[token] # NoSession /\ identities[token].active

Granted(token, organization, permission) ==
    /\ Active(token)
    /\ identities[token].organization = organization
    /\ permission \in Permits[identities[token].role]

(* The event of a refusal names the organization that was asked for.       *)
Authorize(token, organization, permission) ==
    /\ identities[token] # NoSession
    /\ UNCHANGED identities
    /\ \/ /\ Granted(token, organization, permission)
          /\ Audit("AUTHORIZATION_ALLOWED", identities[token].username,
                   identities[token].organization, permission)
       \/ /\ ~ Granted(token, organization, permission) /\ Active(token)
          /\ Audit("AUTHORIZATION_DENIED", identities[token].username,
                   organization, permission)

Logout(token) ==
    /\ Active(token)
    /\ identities' = [identities EXCEPT ![token] =
         [username |-> @.username, organization |-> @.organization,
          role |-> @.role, active |-> FALSE]]
    /\ Audit("SESSION_REVOKED", identities[token].username,
             identities[token].organization, "none")

IdentityNext ==
    \E token \in Uuids :
        \/ \E username \in Usernames, organization \in Organizations, role \in Roles :
              CreateSession(token, username, organization, role)
        \/ \E organization \in Organizations, permission \in Permissions :
              Authorize(token, organization, permission)
        \/ Logout(token)

IdentitySpec == IdentityInit /\ [][IdentityNext]_identityVars

(***************************************************************************)
(* Properties.                                                             *)
(***************************************************************************)
IdentityTypeOK ==
    /\ identities \in [Uuids -> IdentitySession \cup {NoSession}]
    /\ auditEvents \in Seq(AuditEvent)

(* Positions up to n of the events of a type for a user of an organization. *)
Events(n, type, username, organization) ==
    {j \in 1 .. n :
        /\ auditEvents[j].type = type
        /\ auditEvents[j].username = username
        /\ auditEvents[j].organization = organization}

(* The first n events justify an access: more sessions opened than revoked, *)
(* and a session whose role permits it.                                     *)
Justified(n, username, organization, permission) ==
    /\ Cardinality(Events(n, "SESSION_REVOKED", username, organization))
         < Cardinality(Events(n, "SESSION_CREATED", username, organization))
    /\ \E token \in Uuids :
          /\ identities[token] # NoSession
          /\ identities[token].username = username
          /\ identities[token].organization = organization
          /\ permission \in Permits[identities[token].role]

(* The trail alone justifies every access: whoever was allowed had at that *)
(* time more sessions of that organization opened than revoked, and one of *)
(* the sessions opened has a role that permits it.                         *)
TrailJustifiesAccess ==
    \A i \in DOMAIN auditEvents :
        auditEvents[i].type = "AUTHORIZATION_ALLOWED" =>
            Justified(i - 1, auditEvents[i].username, auditEvents[i].organization,
                      auditEvents[i].permission)
=============================================================================
