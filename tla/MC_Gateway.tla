----------------------------- MODULE MC_Gateway -----------------------------
(***************************************************************************)
(* Small instances for TLC of what the gateway has from Athena: the tables *)
(* it polls, and the tokens it is shown.  They share no state, so one run  *)
(* takes them one at a time: the initial state chooses which one works,    *)
(* and the other rests.                                                    *)
(***************************************************************************)
EXTENDS MC_GatewayConfig, MC_ProjectAccess

VARIABLE part

gatewayVars == <<part, vars, accessVars>>

GatewayInit ==
  /\ part \in {"tables", "tokens"}
  /\ Init /\ AccessInit
  /\ part = "tables" \/ log[1].hosts = CHOOSE h \in HostMaps : TRUE

GatewayNext ==
  /\ \/ part = "tables" /\ Next /\ UNCHANGED accessVars
     \/ part = "tokens" /\ AccessNext /\ UNCHANGED vars
  /\ UNCHANGED part

\* FairSpec and AccessSpec: each part is fair while it works.
GatewaySpec ==
  /\ GatewayInit /\ [][GatewayNext]_gatewayVars
  /\ WF_vars(part = "tables" /\ Poll)
  /\ WF_accessVars(part = "tokens" /\ Tick)
  /\ WF_accessVars(part = "tokens" /\ (Issue \/ NoToken))
=============================================================================
