---------------------------- MODULE ControlPlane ----------------------------
(***************************************************************************)
(* What the requests that change the server promise: each takes effect at  *)
(* one moment, or never.  A state is what the settings report and which    *)
(* processor serves with which live parameter; nothing in between two      *)
(* requests is ever in force, whatever the requests interleave with.       *)
(***************************************************************************)
CONSTANTS
  Names,     \* names of the processors
  Live,      \* names that have a live-settable parameter
  Levels,    \* values of those parameters
  NoLevel,   \* the parameter of a processor that has none
  Settings,  \* all settings: a name for "processor", a level for each of Live
  Startup    \* the settings at the start

VARIABLES
  reported,  \* the settings in force
  serving    \* name and level of the processor that receives packets

controlVars == <<reported, serving>>

Constructed(s) ==
  LET n == s["processor"]
  IN  [name |-> n, level |-> IF n \in Live THEN s[n] ELSE NoLevel]

Init == reported = Startup /\ serving = Constructed(Startup)

\* Another processor, by name.  With which parameter it serves is not promised.
Select ==
  \E n \in Names, v \in Levels \cup {NoLevel} :
    /\ serving' = [name |-> n, level |-> v]
    /\ reported' = [reported EXCEPT !["processor"] = n]

\* The parameter of the processor that serves.
Adjust ==
  \E v \in Levels :
    /\ serving.name \in Live
    /\ serving' = [serving EXCEPT !.level = v]
    /\ reported' = [reported EXCEPT ![serving.name] = v]

\* All settings at once, and a processor constructed from them.
Replace ==
  \E s \in Settings : reported' = s /\ serving' = Constructed(s)

Next == Select \/ Adjust \/ Replace

Spec == Init /\ [][Next]_controlVars
=============================================================================
