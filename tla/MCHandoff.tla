------------------------------- MODULE MCHandoff -------------------------------
EXTENDS Handoff
================================================================================
