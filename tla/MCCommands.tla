------------------------------- MODULE MCCommands -------------------------------
(***************************************************************************)
(* Commands for TLC: two users, the NCN's admin and the admin of the       *)
(* operators; octets below 4, fees below 16, amounts in half lamports.     *)
(***************************************************************************)
EXTENDS Commands

CONSTANTS ncn_admin, operator_admin, o1, o2, v1, v2, m1, m2

MCKeypair == [p \in Processes |-> p]
MCOperatorAdmin == [o \in NcnOperators |-> operator_admin]
MCSupportedMint == [v \in NcnVaults |-> IF v = v1 THEN m1 ELSE m2]

CreateConfig(fee, stall) ==
    [command |-> "AdminCreateConfig", tie_breaker_admin |-> None,
     epochs_before_stall |-> stall, ncn_fee_bps |-> fee]
SetParameters(stall) == [command |-> "AdminSetParameters", epochs_before_stall |-> stall]
SetNewAdmin(flag) ==
    [command |-> "AdminSetNewAdmin", new_admin |-> operator_admin, set_tie_breaker_admin |-> flag]
Fund == [command |-> "AdminFundAccountPayer", amount |-> 3]
StMint(v) == [command |-> "AdminRegisterStMint", vault |-> v]
OfOperator(command, o) == [command |-> command, operator |-> o]
SetAddress(o, ip) == [command |-> "UpdateOperatorIpPort", operator |-> o, ip_address |-> ip]
Verify(generation) == [command |-> "VerifyCertificate", expected_generation |-> generation]
Crank(command) == [command |-> command]

SettingRequests ==
    {CreateConfig(3, 1), CreateConfig(17, 1), SetParameters(2), SetParameters(3), SetParameters(None),
     SetNewAdmin(TRUE), SetNewAdmin(FALSE), Fund,
     OfOperator("RegisterOperator", o1),
     SetAddress(o1, <<1, 2, 0, 1>>), SetAddress(o1, <<1, 2, 0>>), SetAddress(o1, <<5, 2, 0, 1>>)}

OperatorRequests ==
    {Verify(None), OfOperator("RegisterOperator", o1), OfOperator("RegisterOperator", o2),
     OfOperator("RemoveOperator", o1)}

CrankRequests ==
    {StMint(v1), StMint(v2), RegisterVaultOf(v2),
     OfOperator("RegisterOperator", o1), OfOperator("RegisterOperator", o2),
     OfOperator("RemoveOperator", o1),
     Crank("CrankRegisterVaults"), Crank("CrankSnapshot")}

AConfig == [tie_breaker_admin |-> ncn_admin, epochs_before_stall |-> 1, ncn_fee_bps |-> 3]

Session(config, requests, max_commands, retries, faults) ==
    [config |-> config, requests |-> requests, max_commands |-> max_commands,
     retries |-> retries, faults |-> faults]

\* Settings with attempts that get lost; changes of the operator set with a node
\* that does not answer; cranks while the other user changes the registry and
\* the operators; and the same with every fault.
ShortSession == Session(AConfig, CrankRequests, 2, 1, {"lost", "rpc"})
MCSessions ==
    {Session(None, SettingRequests, 4, 1, {"lost"}),
     Session(AConfig, OperatorRequests, 3, 1, {"lost", "rpc"}),
     Session(AConfig, CrankRequests, 6, 0, {}),
     ShortSession}

\* CommandsSpec, but fairness is asked of the short session only, and so is the
\* liveness property.
MCFairness ==
    /\ \A p \in Processes :
         WF_commandsVars(session = ShortSession /\ Client(p) /\ UNCHANGED session)
    /\ WF_commandsVars(session = ShortSession /\ Cluster /\ UNCHANGED session)
MCSpec == CommandsSafety /\ MCFairness

\* See EveryCommandEnds.
MCEveryCommandEnds == session = ShortSession => EveryCommandEnds
===============================================================================
