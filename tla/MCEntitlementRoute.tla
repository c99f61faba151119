------------------------- MODULE MCEntitlementRoute -------------------------
(* A small instance of EntitlementRoute for TLC: every table is read with  *)
(* every combination of what it tells apart.                               *)
EXTENDS EntitlementRoute, TLC

CONSTANTS s1, s2, h, b1, b2, b3, r1, r2

\* b3 is the rest of b1, and h the ID s1 with what b1 has before that.
MCText(header, body) == IF <<header, body>> = <<h, b3>> THEN <<s1, b1>> ELSE <<header, body>>

MCAnswer == s1 :> {b1} @@ s2 :> {b2}

\* Goroutines are alike.
Symmetric == Permutations({r1, r2})

\* EAP responses ask for Other, which has the fewest rows.
MCRelayAsk ==
    {[app |-> "Other", op |-> "", format |-> "json"],
     [app |-> "Other", op |-> "", format |-> "xml"]}

MCTokenAsk == [app: AppID, op: OperationID, format: {"json", "xml"}]

Some(keys) == {{}, keys} \cup {{k} : k \in keys} \cup {keys \ {k} : k \in keys}

\* The keys of config_data that an application's table reads.
KeysRead(app) ==
    CASE app \in {"Companion", "Primary", "ServerOdsa"} ->
           {"ServiceFlow_URL", "ServiceFlow_UserData", "SMDP+Address", "ProfileICCID",
            "PlanId", "EnterpriseId"}
      [] app = "DataPlan" -> CopiedBy["GetPlanDetails"] \cup {"ServiceFlow_URL"}
      [] app = "DeviceUserInfo" -> CopiedBy["GetSubscriberInfo"]
      [] app \in {"PrivateIdentity", "AppAuth", "SatMode"} -> IdentityParams(app)
      [] app = "SMSoIP" -> {"Addr"}
      [] app = "Other" -> {}
      [] OTHER -> {"Addr", "ServiceFlow_URL"} \cup VoiceParams

ByState(app) == app \in {"Companion", "Primary", "ServerOdsa"}

MCRowsOf(app) ==
    {row \in [status: CASE app = "Other" -> {"Disabled"}
                        [] app = "SMSoIP" -> {"Disabled", "Enabled"}
                        [] OTHER -> {"Disabled", "Enabled", "Incompatible"},
              tc: IF app \in {"Other", "SMSoIP"} THEN {"NotProvided"}
                  ELSE {"NotProvided", "RequiresAcceptance"},
              config: [has: Some(KeysRead(app)),
                       state: IF ByState(app) THEN {"", "eligible", "active"} ELSE {""},
                       profile: IF ByState(app) THEN {"", "prepaid", "unknown"} ELSE {""},
                       boost: IF app = "DataPlan" THEN BOOLEAN ELSE {FALSE}]] :
        row.config.boost => "BoostEligible" \in row.config.has}
=============================================================================
