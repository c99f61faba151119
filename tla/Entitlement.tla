---------------------------- MODULE Entitlement ----------------------------
(***************************************************************************)
(* What an entitlement reply says: the decision tables of                  *)
(* internal/services (which parameters an application is told for a row of *)
(* the entitlements table and an ODSA operation) and their rendering as    *)
(* JSON and as XML (internal/protocol).  Operators only: EntitlementRoute  *)
(* has the requests.                                                       *)
(*                                                                         *)
(* A value stands for where it comes from: "row" is what config_data says. *)
(* ProvStatus, which every table copies, and the AddrType of an address    *)
(* are left out.                                                           *)
(***************************************************************************)

\* Applications by name instead of by number.  A route takes any string: Other is one
\* that no table knows and that is no key of the reply itself (see JSONParams).
AppID ==
    {"VoWiFi", "VoLTE", "SMSoIP", "Companion", "Primary", "DataPlan", "ServerOdsa", "Dcb",
     "PrivateIdentity", "DeviceUserInfo", "AppAuth", "SatMode", "Other"}

\* The ODSA operations; "" is a request without one.  GetOperatorToken has a name and
\* no service: it stands for any other string, too.
OperationID ==
    {"", "CheckEligibility", "ManageSubscription", "ManageService", "AcquireConfiguration",
     "AcquireTemporaryToken", "GetOperatorToken", "AcquirePlan", "GetPlanDetails",
     "GetPhoneNumber", "GetSubscriberInfo"}

Status == {"Disabled", "Enabled", "Incompatible", "Provisioning"}

TcStatus == {"NotProvided", "Accepted", "RequiresAcceptance", "Rejected"}

\* What config_data can say, each key under the name of the parameter it becomes.
ConfigKey ==
    {"Addr", "ServiceFlow_URL", "ServiceFlow_UserData", "SMDP+Address", "ProfileICCID",
     "PlanId", "PlanName", "EnterpriseId", "VoLTE_Entitled", "VoNR_Entitled", "Pseudonym",
     "IdentityType", "MSISDN", "DisplayName", "HomeCarrier", "OperatorTokenUrl",
     "AppTokenScope", "PLMNAllow", "PLMNBarred", "ServiceConstraints",
     "DataAllowanceBytes", "DataUsedBytes", "BillingCycleEnd", "AccessType", "DataType",
     "BoostEligible"}

\* config_data: the keys that are set, and the three values that decide something.
ConfigData ==
    [has: SUBSET ConfigKey, state: {"", "eligible", "active"},
     profile: {"", "default", "prepaid", "companion", "unknown"}, boost: BOOLEAN]

\* The null of a row without config_data, and what is left of one that is no JSON.
NoConfig == [has |-> {}, state |-> "", profile |-> "", boost |-> FALSE]

Row == [status: Status, tc: TcStatus, config: ConfigData]

\* The values BuildEntitlementResponse starts from, which a missing row leaves.
DefaultRow == [status |-> "Enabled", tc |-> "NotProvided", config |-> NoConfig]

-----------------------------------------------------------------------------
(* Parameters: functions from names to values *)

NoParams == [name \in {} |-> ""]

Param(name, value) == [n \in {name} |-> value]

\* The parameters of f and g; where both have one, that of g.
Overlay(f, g) ==
    [name \in DOMAIN f \cup DOMAIN g |-> IF name \in DOMAIN g THEN g[name] ELSE f[name]]

\* Those of the names that config_data gives a value.
Copy(config, names) == [name \in names \cap config.has |-> "row"]

-----------------------------------------------------------------------------
(* ApplicationConfig *)

\* addresses: where they come from.  flow: ServiceFlowURL is set.
Base(app, status, tc) ==
    [app |-> app, status |-> status, tc |-> tc, addrStatus |-> "", addresses |-> "",
     flow |-> FALSE, extra |-> NoParams]

BuildOdsaBaseConfig(app, status, tc, result, extraFields) ==
    [Base(app, status, tc)
        EXCEPT !.extra = Overlay(Param("SubscriptionResult", result), extraFields)]

-----------------------------------------------------------------------------
(* ODSA operations *)

\* What a reply with SubscriptionResult Done copies from config_data.
CopiedBy ==
    [ManageService |-> {}, AcquireTemporaryToken |-> {},
     AcquireConfiguration |-> {"SMDP+Address", "ProfileICCID"},
     GetPhoneNumber |-> {"MSISDN"},
     GetSubscriberInfo |-> {"MSISDN", "DisplayName", "HomeCarrier"},
     GetPlanDetails |-> {"PlanId", "PlanName", "DataAllowanceBytes", "DataUsedBytes",
                         "BillingCycleEnd", "AccessType", "DataType", "BoostEligible"}]

\* The cases of each service's switch.
OperationsOf(app) ==
    CASE app = "Companion" ->
           {"CheckEligibility", "ManageSubscription", "ManageService",
            "AcquireConfiguration", "AcquireTemporaryToken"}
      [] app = "Primary" ->
           {"CheckEligibility", "ManageSubscription", "ManageService",
            "AcquireConfiguration", "AcquireTemporaryToken", "AcquirePlan"}
      [] app = "ServerOdsa" ->
           {"CheckEligibility", "ManageSubscription", "ManageService"}
      [] app = "DataPlan" -> {"CheckEligibility", "AcquirePlan", "GetPlanDetails"}
      [] app = "DeviceUserInfo" -> {"GetPhoneNumber", "GetSubscriberInfo"}
      [] OTHER -> {}

Eligible(app, config) ==
    IF app = "DataPlan" THEN config.boost \/ "PlanId" \in config.has
    ELSE config.state \in {"eligible", "active"}

\* Only the server-initiated service names the enterprise.
Enterprise(app) == IF app = "ServerOdsa" THEN {"EnterpriseId"} ELSE {}

\* The status is made from config_data; that of the row is not told.
CheckEligibility(app, row) ==
    BuildOdsaBaseConfig(app, IF Eligible(app, row.config) THEN "Enabled" ELSE "Disabled",
                        row.tc, "Done", Copy(row.config, Enterprise(app)))

\* The canned activation codes of mock_smdp.go.
GetActivationCode(profile) ==
    IF profile \in {"default", "prepaid", "companion"} THEN profile ELSE "default"

ProfileKey(app, config) ==
    CASE config.profile # "" -> config.profile
      [] config.profile = "" /\ app = "Companion" -> "companion"
      [] OTHER -> "default"

\* Mutant: the condition on the state is forgotten.
MutOffersFlowAnyState(config) == "ServiceFlow_URL" \in config.has

\* Somebody eligible can be sent to the operator's web page, if there is one.
OffersFlow(config) == config.state = "eligible" /\ "ServiceFlow_URL" \in config.has

\* Mutant: the address of the SM-DP+ is taken to be there.
MutOffersProfileNoAddress(config) == config.state = "active"

\* Somebody with a subscription can download a profile, if there is an SM-DP+.
OffersProfile(config) == config.state = "active" /\ "SMDP+Address" \in config.has

ManageSubscription(app, row) ==
    LET config     == row.config
        activation == GetActivationCode(ProfileKey(app, config))
    IN  CASE OffersFlow(config) ->
               BuildOdsaBaseConfig(app, row.status, row.tc, "ContinueToWS",
                   Copy(config, {"ServiceFlow_URL", "ServiceFlow_UserData"} \cup Enterprise(app)))
          [] ~ OffersFlow(config) /\ OffersProfile(config) ->
               BuildOdsaBaseConfig(app, row.status, row.tc, "DownloadProfile",
                   Overlay(Copy(config, {"SMDP+Address"}),
                           Overlay(Param("SMDP+ActivationCode", activation),
                                   Param("ProfileICCID", activation))))
          [] OTHER -> BuildOdsaBaseConfig(app, row.status, row.tc, "Done", NoParams)

AcquirePlan(app, row) ==
    BuildOdsaBaseConfig(app, row.status, row.tc,
        IF "ServiceFlow_URL" \in row.config.has THEN "ContinueToWS" ELSE "Done",
        Copy(row.config, {"ServiceFlow_URL", "PlanId", "PlanName"}))

Operation(app, op, row) ==
    CASE op = "CheckEligibility" -> CheckEligibility(app, row)
      [] op = "ManageSubscription" -> ManageSubscription(app, row)
      [] op = "AcquirePlan" -> AcquirePlan(app, row)
      [] OTHER -> BuildOdsaBaseConfig(app, row.status, row.tc, "Done",
                                      Copy(row.config, CopiedBy[op]))

-----------------------------------------------------------------------------
(* Services without operations *)

\* Mutant: addresses are given to whoever has some.
MutAddressesIfAny(app, row) ==
    LET base == Base(app, row.status, row.tc) IN
    IF row.status = "Enabled" \/ "Addr" \in row.config.has
    THEN [base EXCEPT !.addrStatus = "1",
                      !.addresses  = IF "Addr" \in row.config.has THEN "row" ELSE "default"]
    ELSE [base EXCEPT !.addrStatus = "0"]

\* VoWiFi, VoLTE and SMSoIP: the addresses of the row, or the operator's own.
Addresses(app, row) ==
    LET base == Base(app, row.status, row.tc) IN
    IF row.status = "Enabled"
    THEN [base EXCEPT !.addrStatus = "1",
                      !.addresses  = IF "Addr" \in row.config.has THEN "row" ELSE "default"]
    ELSE [base EXCEPT !.addrStatus = "0"]

BuildVoWiFiConfig(row) ==
    [Addresses("VoWiFi", row)
        EXCEPT !.flow = row.tc = "RequiresAcceptance" /\ "ServiceFlow_URL" \in row.config.has]

VoiceParams == {"VoLTE_Entitled", "VoNR_Entitled"}

BuildVoLTEConfig(row) ==
    [Addresses("VoLTE", row)
        EXCEPT !.extra = [name \in VoiceParams |->
                            CASE row.status # "Enabled" -> "0"
                              [] row.status = "Enabled" /\ name \in row.config.has -> "row"
                              [] OTHER -> "1"]]

BuildDcbConfig(row) ==
    LET base == Base("Dcb", row.status, row.tc) IN
    IF row.status = "Incompatible"
    THEN [base EXCEPT !.extra = Param("Message", "not available")]
    ELSE [base EXCEPT !.flow = /\ row.status = "Disabled"
                               /\ row.tc = "RequiresAcceptance"
                               /\ "ServiceFlow_URL" \in row.config.has]

\* PrivateIdentity, AppAuth and SatMode tell what they know if they are enabled.
IdentityParams(app) ==
    CASE app = "PrivateIdentity" -> {"Pseudonym", "IdentityType"}
      [] app = "AppAuth" -> {"OperatorTokenUrl", "AppTokenScope"}
      [] OTHER -> {"PLMNAllow", "PLMNBarred", "ServiceConstraints"}

BuildIdentityConfig(app, row) ==
    LET base     == Base(app, row.status, row.tc)
        defaults == IF app = "PrivateIdentity" THEN Param("IdentityType", "PSEUDONYM")
                    ELSE NoParams
    IN  IF row.status = "Enabled"
        THEN [base EXCEPT !.extra = Overlay(defaults, Copy(row.config, IdentityParams(app)))]
        ELSE base

\* buildAppConfig.  A missing or an unknown operation is answered with the statuses.
AppConfig(app, op, row) ==
    CASE op \in OperationsOf(app) -> Operation(app, op, row)
      [] app = "VoWiFi" -> BuildVoWiFiConfig(row)
      [] app = "VoLTE" -> BuildVoLTEConfig(row)
      [] app = "SMSoIP" -> Addresses("SMSoIP", row)
      [] app = "Dcb" -> BuildDcbConfig(row)
      [] app \in {"PrivateIdentity", "AppAuth", "SatMode"} -> BuildIdentityConfig(app, row)
      [] OTHER -> Base(app, row.status, row.tc)

-----------------------------------------------------------------------------
(* Rendering *)

\* The parameters that come from fields of their own.
Fixed(a) ==
    LET with(name, value, present) == IF present THEN Param(name, value) ELSE NoParams IN
    Overlay(Overlay(Param("EntitlementStatus", a.status), Param("TC_Status", a.tc)),
            Overlay(with("AddrStatus", a.addrStatus, a.addrStatus # ""),
                    Overlay(with("ServiceFlow_URL", "row", a.flow),
                            with("Addr", a.addresses, a.addresses # ""))))

Pairs(params) == {<<name, params[name]>> : name \in DOMAIN params}

\* A JSON object: the extra parameters are assigned last and win.  The object is the value
\* of the application's ID in the reply, next to Vers, Token and eap_relay: a request for an
\* application of one of these names is not among the asks (AppID).
JSONParams(a) == Pairs(Overlay(Fixed(a), a.extra))

\* Mutant: the extra parameters are not written.
MutXMLParamsNoExtra(a) == Pairs(Fixed(a))

\* An XML characteristic: every parameter is a line of its own.
XMLParams(a) == Pairs(Fixed(a)) \cup Pairs(a.extra)

Rendered(a, format) == IF format = "xml" THEN XMLParams(a) ELSE JSONParams(a)
=============================================================================
