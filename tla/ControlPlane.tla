---------------------------- MODULE ControlPlane -----------------------------
(***************************************************************************)
(* The parts of the web process: dashboard cache, deploys and rollbacks,     *)
(* access, voice.  They share no variable, so a behaviour shows one of them  *)
(* at work while the others rest; every interleaving of two of them projects *)
(* to two such behaviours.                                                   *)
(***************************************************************************)
EXTENDS DashboardCache, Deployments, WebAccess, VoiceSession

VARIABLE part   (* the part at work *)

vars == <<dashboardVars, deployVars, accessVars, voiceVars, part>>

Init ==
  /\ part \in {"dashboard", "deployments", "access", "voice"}
  /\ DashboardInit
  /\ DeploymentsInit
  /\ AccessInit
  /\ VoiceInit

Next ==
  /\ UNCHANGED part
  /\ \/ /\ part = "dashboard" /\ DashboardNext
        /\ UNCHANGED <<deployVars, accessVars, voiceVars>>
     \/ /\ part = "deployments" /\ DeploymentsNext
        /\ UNCHANGED <<dashboardVars, accessVars, voiceVars>>
     \/ /\ part = "access" /\ AccessNext
        /\ UNCHANGED <<dashboardVars, deployVars, voiceVars>>
     \/ /\ part = "voice" /\ VoiceNext
        /\ UNCHANGED <<dashboardVars, deployVars, accessVars>>

(* time passes *)
Ticks == part = "access" /\ Tick /\ UNCHANGED <<dashboardVars, deployVars, voiceVars, part>>

(* the gateway's loop; then dispatch, job and spoken result of a request *)
Works(A) == part = "voice" /\ A /\ UNCHANGED <<dashboardVars, deployVars, accessVars, part>>

Spec ==
  /\ Init /\ [][Next]_vars
  /\ WF_vars(Ticks)
  /\ WF_vars(Works(Receive))
  /\ \A t \in Turns : WF_vars(Works(Served(t)))

TypeOK == DashboardTypeOK /\ DeploymentsTypeOK /\ AccessTypeOK /\ VoiceTypeOK
=============================================================================
