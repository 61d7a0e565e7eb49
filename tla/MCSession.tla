------------------------------ MODULE MCSession ------------------------------
(* Instances of Session for TLC: the sequences a cfg cannot write, and the  *)
(* three scenes of one run. In "turns" the rows are mounted and lines,      *)
(* calls, a notice and the stop hook meet; in "esc" one line, one call and  *)
(* a steer meet an Esc and a failing provider from the first moment of      *)
(* startup on; in "lives" the coordinator fails and is restarted for its    *)
(* tools under two lines, or a line and a notice, or a line and an Esc.     *)
EXTENDS Session
CONSTANTS l1, l2, c1, c2
OneLine == <<l1>>
TwoLines == <<l1, l2>>
OneCall == <<c1>>
TwoCalls == <<c1, c2>>

VARIABLE scene
OneLife == deaths = 0 /\ changes = 0 /\ s.drain = "no"
NoNudge == s.inputs \cap Nudges = {}
Plays ==
  \/ scene = "turns" /\ steered = {} /\ fails = 0 /\ cancels = 0 /\ OneLife
  \/ scene = "esc" /\ submitted <= 1 /\ issued <= 1 /\ noted = {} /\ NoNudge /\ OneLife
  \/ /\ scene = "lives" /\ issued <= 1 /\ steered = {} /\ fails = 0 /\ NoNudge
     /\ submitted + Cardinality(noted) + cancels <= 2
     /\ s.drain = "no" \/ (noted = {} /\ cancels = 0)

Scenes == IF startup = "watched" THEN {"turns", "lives"} ELSE {"esc"}
SceneInit == Init /\ scene \in Scenes
SceneNext == Next /\ UNCHANGED scene /\ Plays'
SceneSpec == SceneInit /\ [][SceneNext]_<<vars, scene>> /\ Fairness
=============================================================================
