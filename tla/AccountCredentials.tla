---------------------------- MODULE AccountCredentials ----------------------------
(* Which credentials a cloud account is used with. One account row with its    *)
(* auth mode and the fields that are filled in, the secrets stored for it, the *)
(* test an administrator runs on it, and what collection, purchase and         *)
(* exchange each make of the same row.                                         *)
EXTENDS FiniteSets, Naturals

CONSTANTS
    CrdRows,            \* the requests for a row that are tried
    CrdNoRow

VARIABLES
    crdRow,             \* the account row, or CrdNoRow
    crdStored,          \* credential types stored for the row
    crdEnv,             \* what the deployment wires: signer, token file
    crdTest             \* the test in flight, or its answer
crdVars == <<crdRow, crdStored, crdEnv, crdTest>>

CrdTypes == {"aws_access_keys", "azure_client_secret", "gcp_service_account",
             "gcp_workload_identity_config"}
CrdFields ==
    [aws   |-> {"role", "external id", "bastion", "token file"},
     azure |-> {"tenant", "client", "subscription"},
     gcp   |-> {"audience", "email"}]
CrdModes ==
    [aws   |-> {"access_keys", "role_arn", "bastion", "workload_identity_federation"},
     azure |-> {"client_secret", "managed_identity", "workload_identity_federation"},
     gcp   |-> {"service_account", "application_default", "workload_identity_federation"}]
CrdWif == "workload_identity_federation"
CrdIdle == [at |-> "idle"]

ASSUME CrdRowsAssumption ==
    CrdRows \subseteq [cloud : DOMAIN CrdModes,
                        mode : (UNION {CrdModes[c] : c \in DOMAIN CrdModes}) \cup {""},
                        has : SUBSET UNION {CrdFields[c] : c \in DOMAIN CrdFields}]

CrdInit ==
    /\ crdRow = CrdNoRow /\ crdStored = {} /\ crdTest = CrdIdle
    /\ crdEnv \in SUBSET {"signer", "token file"}
------------------------------------------------------------------------------
(* Writing the row.                                                            *)

\* An external id is asked of the modes that assume a role, once there is a role.
CrdValidAWS(row) ==
    row.mode \in {"role_arn", "bastion"} /\ "role" \in row.has => "external id" \in row.has

\* No mode at all is let through for every cloud.
CrdValid(row) ==
    /\ row.mode \in CrdModes[row.cloud] \cup {""}
    /\ row.has \subseteq CrdFields[row.cloud]
    /\ row.cloud = "aws" => CrdValidAWS(row)

\* buildSelfAccountRequest: the row of the account the program itself runs in.
CrdSelf(cloud) ==
    CASE cloud = "aws"   -> [cloud |-> "aws", mode |-> "role_arn", has |-> {}]
      [] cloud = "azure" -> [cloud |-> "azure", mode |-> "managed_identity",
                             has |-> {"tenant", "client", "subscription"}]
      [] cloud = "gcp"   -> [cloud |-> "gcp", mode |-> "application_default", has |-> {}]

CrdWrite(row) == CrdValid(row) /\ crdRow' = row /\ UNCHANGED <<crdStored, crdEnv, crdTest>>

CrdCreate(row) == crdRow = CrdNoRow /\ CrdWrite(row)
CrdCreateSelf(cloud) == crdRow = CrdNoRow /\ CrdWrite(CrdSelf(cloud))
\* The whole row is replaced, and what was stored for its old mode stays.
CrdUpdate(row) == crdRow # CrdNoRow /\ CrdWrite(row)

\* A member found by the discovery has no mode and its root as bastion.
CrdMember == [cloud |-> "aws", mode |-> "", has |-> {"bastion"}]

CrdDiscover ==
    /\ crdRow = CrdNoRow
    /\ crdRow' = CrdMember
    /\ UNCHANGED <<crdStored, crdEnv, crdTest>>

\* The stored credentials go with the row.
CrdDelete ==
    /\ crdRow # CrdNoRow
    /\ crdRow' = CrdNoRow /\ crdStored' = {}
    /\ UNCHANGED <<crdEnv, crdTest>>

\* Any type for any row: only the payload is held against the type.
CrdSave(type) ==
    /\ crdRow # CrdNoRow
    /\ crdStored' = crdStored \cup {type}
    /\ UNCHANGED <<crdRow, crdEnv, crdTest>>
------------------------------------------------------------------------------
(* What a reader of the row acts as: an identity, or "none" for an error.      *)

CrdAccessKeys(stored) == IF "aws_access_keys" \in stored THEN "stored keys" ELSE "none"
CrdRole(row, ambient) == IF "role" \in row.has THEN "role" ELSE ambient
\* No caller hands in a lookup of the bastion: the role is assumed directly.
CrdBastion(row) == IF "bastion" \in row.has THEN CrdRole(row, "none") ELSE "none"
CrdWebIdentity(row) ==
    IF "role" \in row.has /\ "token file" \in row.has \cup crdEnv THEN "web identity" ELSE "none"

CrdResolveAWS(row, stored, ambient) ==
    CASE row.mode = "access_keys" -> CrdAccessKeys(stored)
      [] row.mode = "role_arn"    -> CrdRole(row, ambient)
      [] row.mode = "bastion"     -> CrdBastion(row)
      [] row.mode = CrdWif        -> CrdWebIdentity(row)
      [] OTHER                    -> "none"

CrdAzureSecret(stored) == "azure_client_secret" \in stored
CrdAzureFederated(row) ==
    IF "signer" \in crdEnv /\ {"tenant", "client"} \subseteq row.has
    THEN "federated" ELSE "none"
CrdResolveAzure(row, stored) ==
    CASE row.mode = "managed_identity" -> "host"
      [] row.mode = CrdWif             -> CrdAzureFederated(row)
      [] OTHER -> IF {"tenant", "client"} \subseteq row.has /\ CrdAzureSecret(stored)
                  THEN "client secret" ELSE "none"

CrdStoredGCP(stored, type) == IF type \in stored THEN type ELSE "none"
CrdGCPFederated(row) == IF "email" \in row.has THEN "federated" ELSE "none"
CrdGCPWif(row, stored) ==
    IF /\ "signer" \in crdEnv /\ "audience" \in row.has
       /\ "gcp_workload_identity_config" \notin stored
    THEN CrdGCPFederated(row)
    ELSE CrdStoredGCP(stored, "gcp_workload_identity_config")
CrdResolveGCP(row, stored) ==
    CASE row.mode = "application_default" -> "host"
      [] row.mode = CrdWif                -> CrdGCPWif(row, stored)
      [] OTHER                            -> CrdStoredGCP(stored, "gcp_service_account")

\* A purchase, and the probe of commitment options: the host is the ambient identity.
CrdPurchase(row, stored) ==
    CASE row.cloud = "aws"   -> CrdResolveAWS(row, stored, "host")
      [] row.cloud = "azure" -> CrdResolveAzure(row, stored)
      [] row.cloud = "gcp"   -> CrdResolveGCP(row, stored)

\* A collection takes the host's identity for every AWS row without a role,
\* whatever its mode, and has no ambient identity otherwise.
CrdCollectAWS(row, stored) ==
    IF "role" \notin row.has THEN "host" ELSE CrdResolveAWS(row, stored, "none")
CrdCollectAzure(row, stored) ==
    IF "subscription" \in row.has THEN CrdResolveAzure(row, stored) ELSE "none"
CrdCollectGCP(row, stored) == CrdResolveGCP(row, stored)
CrdCollect(row, stored) ==
    CASE row.cloud = "aws"   -> CrdCollectAWS(row, stored)
      [] row.cloud = "azure" -> CrdCollectAzure(row, stored)
      [] row.cloud = "gcp"   -> CrdCollectGCP(row, stored)
------------------------------------------------------------------------------
(* testAccountCredentials: the row is read, then, one store read or token      *)
(* exchange at a time, the first of four checks that knows the row answers.    *)

CrdReadRow ==
    /\ crdTest.at = "idle" /\ crdRow # CrdNoRow
    /\ crdTest' = [at |-> "check", row |-> crdRow]
    /\ UNCHANGED <<crdRow, crdStored, crdEnv>>

CrdAnswer(ok) ==
    /\ crdTest' = [at |-> "answered", row |-> crdTest.row, ok |-> ok]
    /\ UNCHANGED <<crdRow, crdStored, crdEnv>>

\* Modes that store nothing are answered from the row alone.
CrdKnowsAmbient(row) ==
    \/ row.cloud = "aws" /\ row.mode \in {"role_arn", "bastion", CrdWif}
    \/ row.cloud = "azure" /\ row.mode = "managed_identity"
    \/ row.cloud = "gcp" /\ row.mode = "application_default"
CrdAmbientOK(row) == row.mode = CrdWif => "role" \in row.has

CrdKnowsAzureFederated(row) == row.cloud = "azure" /\ row.mode = CrdWif /\ "signer" \in crdEnv
\* A failed read of the store says no.
CrdKnowsGCPFederated(row, failed) ==
    /\ row.cloud = "gcp" /\ row.mode = CrdWif
    /\ "signer" \in crdEnv /\ "audience" \in row.has
    /\ ~failed /\ "gcp_workload_identity_config" \notin crdStored

\* Mutant: a federated row looks for a service account's key.
CrdTypeIgnoringMode(row) ==
    CASE row.cloud = "aws"   -> "aws_access_keys"
      [] row.cloud = "azure" -> "azure_client_secret"
      [] row.cloud = "gcp"   -> "gcp_service_account"

\* credTypeForAccount; a federated Azure row stores nothing.
CrdTypeFor(row) ==
    CASE row.cloud = "aws"                         -> "aws_access_keys"
      [] row.cloud = "azure" /\ row.mode = CrdWif  -> ""
      [] row.cloud = "azure" /\ row.mode # CrdWif  -> "azure_client_secret"
      [] row.cloud = "gcp" /\ row.mode = CrdWif    -> "gcp_workload_identity_config"
      [] row.cloud = "gcp" /\ row.mode # CrdWif    -> "gcp_service_account"

CrdTestAmbient ==
    /\ crdTest.at = "check" /\ CrdKnowsAmbient(crdTest.row)
    /\ CrdAnswer(CrdAmbientOK(crdTest.row))

\* A token is asked of the cloud; what it refuses, and what never settles in
\* three tries, is a failed test.
CrdTestExchange(accepted, failed) ==
    LET row == crdTest.row
    IN /\ crdTest.at = "check" /\ ~CrdKnowsAmbient(row)
       /\ \/ CrdKnowsAzureFederated(row)
             /\ CrdAnswer(CrdAzureFederated(row) # "none" /\ accepted)
          \/ CrdKnowsGCPFederated(row, failed)
             /\ CrdAnswer(CrdGCPFederated(row) # "none" /\ accepted)

\* Otherwise the answer is whether the row's type is stored; an error is no answer.
CrdTestPresence(failed) ==
    LET row == crdTest.row
    IN /\ crdTest.at = "check" /\ ~CrdKnowsAmbient(row)
       /\ ~CrdKnowsAzureFederated(row) /\ ~CrdKnowsGCPFederated(row, failed)
       /\ CrdAnswer(CrdTypeFor(row) \in crdStored)

CrdForget ==
    /\ crdTest.at \in {"check", "answered"}
    /\ crdTest' = CrdIdle
    /\ UNCHANGED <<crdRow, crdStored, crdEnv>>

CrdNext ==
    \/ \E row \in CrdRows : CrdCreate(row) \/ CrdUpdate(row)
    \/ \E cloud \in DOMAIN CrdModes : CrdCreateSelf(cloud)
    \/ CrdDiscover \/ CrdDelete
    \/ \E type \in CrdTypes : CrdSave(type)
    \/ CrdReadRow \/ CrdTestAmbient \/ CrdForget
    \/ \E accepted, failed \in BOOLEAN : CrdTestExchange(accepted, failed)
    \/ \E failed \in BOOLEAN : CrdTestPresence(failed)

CrdSpec == CrdInit /\ [][CrdNext]_crdVars
------------------------------------------------------------------------------
\* The fields its mode works with are filled in: the row form asks for them,
\* validation does not.
CrdFilled(row) ==
    CASE row.cloud = "aws" ->
            /\ row.mode # ""
            /\ row.mode = "bastion" => {"role", "bastion"} \subseteq row.has
            /\ row.mode = CrdWif => "token file" \in row.has \cup crdEnv
      [] row.cloud = "azure" ->
            row.mode # "managed_identity" => {"tenant", "client"} \subseteq row.has
      [] row.cloud = "gcp" -> TRUE

(* A test that passes is worth something: for a row with the fields of its     *)
(* mode, the credentials a purchase will load exist when the test says so,     *)
(* whatever was written to the row or stored for it while the test ran.        *)
CrdTestKept ==
    [][crdTest.at = "check" /\ crdTest'.at = "answered" /\ crdTest'.ok /\ CrdFilled(crdTest.row)
        => CrdPurchase(crdTest.row, crdStored) # "none"]_crdVars

(* Recommendations are collected as the identity that buys on them, except for *)
(* AWS rows without a role.                                                    *)
CrdSameIdentity ==
    crdRow # CrdNoRow /\ (crdRow.cloud = "aws" => "role" \in crdRow.has)
    => CrdCollect(crdRow, crdStored) \in {"none", CrdPurchase(crdRow, crdStored)}

(* testAccountCredentials, the collection and the purchase read one row three  *)
(* times over; what the first says holds of the last, and the two that act do  *)
(* so as one identity.                                                         *)
CrdHonest == CrdTestKept /\ []CrdSameIdentity
================================================================================
