------------------------------- MODULE MCContent -------------------------------
(* Content for TLC, cut to the behaviours in which no wait ends unanswered,   *)
(* no ReloadContent runs and no version is refused for what it is.            *)
EXTENDS Content

NoneDisturbed == Undisturbed /\ refused = NoVersions
================================================================================
