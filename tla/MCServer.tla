------------------------------ MODULE MCServer ------------------------------
EXTENDS MCLed, Server

LedServerFairSpec ==
  /\ LedInit /\ ServerInit /\ [][ServerNext]_allVars
  /\ EventLoopFairness
  /\ ReplicationFairness
  /\ ServerFairness
=============================================================================
