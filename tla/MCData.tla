------------------------------- MODULE MCData -------------------------------
(* Parts that share no variable.  A behaviour is one of the part that is named *)
(* from the start; the others stay as they begin.  A list of rules that is     *)
(* spoiled, of which nothing is claimed, is not followed further.              *)
EXTENDS ProfileStore, RuleList, Snowflake, TLC

CONSTANT MaxPending    \* bound: requests to the database of profiles and replies

VARIABLE part

(* No operation tells one profile from another.                                *)
SameProfiles == Permutations(Profiles)

DataInit ==
    /\ part \in {"store", "rules", "snowflake"}
    /\ StoreInit /\ RulesInit /\ SnowflakeInit
    /\ part # "snowflake" => now = 1

DataNext ==
    /\ UNCHANGED part
    /\ \/ /\ part = "store" /\ StoreNext /\ UNCHANGED <<ruleVars, snowflakeVars>>
          /\ Len(requests') + Len(replies') <= MaxPending
       \/ part = "rules" /\ ~spoiled /\ RulesNext /\ UNCHANGED <<storeVars, snowflakeVars>>
       \/ part = "snowflake" /\ SnowflakeNext /\ UNCHANGED <<storeVars, ruleVars>>

DataSpec == DataInit /\ [][DataNext]_<<part, storeVars, ruleVars, snowflakeVars>>
=============================================================================
