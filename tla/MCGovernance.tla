---------------------------- MODULE MCGovernance ----------------------------
\* One workspace founded by u1, a second one that any user may create.
EXTENDS Governance, TLC

CONSTANTS u1, u2, w1, w2

MCFounder == [w \in Workspaces |-> u1]
MCOrgOf == [w \in Workspaces |-> "o"]
=============================================================================
