---------------------------- MODULE MCProvisioning ----------------------------
(***************************************************************************)
(* SnapshotAccount and Provisioning for TLC.  A snapshot has five cells    *)
(* that are allocated two at a time, so that it takes two reallocations    *)
(* after it is created, the last one shorter.                              *)
(*                                                                         *)
(* MCSpec has two kinds of behaviours.  With who = "anybody" the           *)
(* instructions come in any order and with any arguments, at and past the  *)
(* bounds.  With who = "clients" there are two processes that want the     *)
(* snapshot and one that wants the vault registry.                         *)
(***************************************************************************)
EXTENDS Provisioning, TLC

CONSTANTS good, other, k1, k2, cli, Movers

Arguments(stall, close, slots, stake) ==
    [epochs_before_stall |-> stall, epochs_after_consensus_before_close |-> close,
     valid_slots_after_consensus |-> slots, minimum_stake |-> stake]

MCConfigArgs == {Arguments(1, 10, 1000, 0), Arguments(50, 100, 1000, 2),
                 Arguments(0, 10, 1000, 2), Arguments(1, 101, 1000, 2),
                 Arguments(1, 10, 999, 2)}

MCParameterArgs == {[minimum_stake |-> 3], [minimum_stake |-> 0],
                    [consensus_threshold_bps |-> 10001, minimum_stake |-> 3],
                    [epochs_before_stall |-> 51],
                    [epochs_before_stall |-> 2, consensus_threshold_bps |-> 10000]}

MCJob == (k1 :> "snapshot") @@ (k2 :> "snapshot") @@ (cli :> "vault_registry")

VARIABLE who    \* of Movers

mcVars == <<provisioningVars, who>>

\* Which Config the clients find makes no difference to them.
MCInit ==
    /\ who \in Movers
    /\ \/ /\ who = "anybody"
          /\ AccountsInit
          /\ client = [c \in Clients |-> [pc |-> "read", tries |-> 0]]
          /\ faults = {}
       \/ /\ who = "clients"
          /\ ProvisioningInit
          /\ accounts.ncn_admin = good
          /\ accounts.config.params["minimum_stake"] = 2

MCNext ==
    /\ \/ who = "anybody" /\ AccountsNext /\ UNCHANGED <<client, faults>>
       \/ who = "clients" /\ ProvisioningNext
    /\ UNCHANGED who

\* The clients' fairness, in the behaviours that a liveness property is about.
Fair == who = "clients" /\ "lost" \notin faults
MCFairness ==
    \A c \in Clients :
        /\ WF_mcVars(Fair /\ Step(c) /\ UNCHANGED <<faults, who>>)
        /\ SF_mcVars(Fair /\ SendConfirmed(c) /\ UNCHANGED <<faults, who>>)

MCSpec == MCInit /\ [][MCNext]_mcVars /\ MCFairness

\* See ProvidedWithoutFaults; nobody is provided when the clients do not run.
MCProvidedWithoutFaults == who = "clients" => ProvidedWithoutFaults
===============================================================================
