----------------------------- MODULE Sharpener -----------------------------
(***************************************************************************)
(* What the sharpening stage promises the filter that hands it a picture:  *)
(* the picture is swept at most once, the answer says what became of it,   *)
(* and a stage that answers that it did nothing is over for the playback.  *)
(* How many pools and workers are behind it, and whether it experiments    *)
(* with them, is not seen.                                                 *)
(***************************************************************************)

VARIABLES
    service,    \* "on" or "off"
    picture,    \* "none", or how the picture in hand is: "raw", "sharp" or "torn"
    answer      \* "none", or what the stage says of it

vars == <<service, picture, answer>>

Verdict(p) == CASE p = "raw" -> "unchanged" [] p = "sharp" -> "ok" [] p = "torn" -> "uncertain"

Init == service = "on" /\ picture = "none" /\ answer = "none"

Take ==
    /\ service = "on" /\ picture = "none"
    /\ picture' = "raw"
    /\ UNCHANGED <<service, answer>>

\* The picture is given back without a request to sharpen it.
Refuse ==
    /\ picture = "raw" /\ answer = "none"
    /\ picture' = "none"
    /\ UNCHANGED <<service, answer>>

Sweep ==
    /\ picture = "raw" /\ answer = "none"
    /\ picture' \in {"sharp", "torn"}
    /\ answer' \in {"none", Verdict(picture')}
    /\ UNCHANGED service

Answer ==
    /\ picture # "none" /\ answer = "none"
    /\ answer' = Verdict(picture)
    /\ UNCHANGED <<service, picture>>

\* Sharpened or torn pictures may come from a stage that goes on.
Give ==
    /\ answer # "none"
    /\ picture' = "none" /\ answer' = "none"
    /\ service' \in CASE answer = "ok"        -> {service}
                      [] answer = "unchanged" -> {"off"}
                      [] answer = "uncertain" -> {service, "off"}

SwitchOff ==
    /\ picture = "none"
    /\ service' = "off"
    /\ UNCHANGED <<picture, answer>>

Next == Take \/ Refuse \/ Sweep \/ Answer \/ Give \/ SwitchOff

Spec == Init /\ [][Next]_vars
=============================================================================
