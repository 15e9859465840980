---------------------------- MODULE MCSetCampaign -----------------------------
(***************************************************************************)
(* A campaign with the LFSRs of the source: out of reset, enabled, and with *)
(* one injection rate throughout.                                           *)
(***************************************************************************)
EXTENDS SetSaboteur

CampaignInit == SaboteurInit /\ rst_n /\ fault_enable
CampaignNext == random_proc /\ reg_proc /\ UNCHANGED inputs
CampaignSpec ==
  CampaignInit /\ [][CampaignNext]_saboteurVars /\ WF_saboteurVars(CampaignNext)
===============================================================================
