------------------------------- MODULE Scanner -------------------------------
(***************************************************************************)
(* The door's camera (qr-scanner.tsx): one effect per chosen camera or      *)
(* retry, whose code runs on after its cleanup: the import, the permission  *)
(* prompt and the opening of the device are slow, and a cleanup in the      *)
(* middle of them finds nothing to stop yet.                                *)
(***************************************************************************)
EXTENDS SequencesExt, FiniteSetsExt

CONSTANTS Cameras,    \* in the order getCameras lists them
          Score,      \* what a camera's label suggests: 2 external, 0 built in
          NoCamera, MaxEffects

ASSUME ScannerAssumption == /\ Cameras \in Seq(ToSet(Cameras))
                            /\ Score \in [ToSet(Cameras) -> 0..2]
                            /\ NoCamera \notin ToSet(Cameras) /\ MaxEffects \in Nat \ {0}

VARIABLES plugged,  \* cameras the browser would list
          saved,    \* cameraId, as kept per lane
          cameras,  \* those the screen lists, in that order
          fault,    \* the error on the screen: "none", "missing", "unavailable"
          effects   \* the effect's runs, the last one live unless unmounted
scannerVars == <<plugged, saved, cameras, fault, effects>>

Current == Len(effects)

(* Which camera (camera-choice.ts) ****************************************)
Best(found) == {i \in DOMAIN Cameras : /\ Cameras[i] \in found
                                        /\ \A c \in found : Score[c] <= Score[Cameras[i]]}

\* The saved one if it is listed; else the best label, the first of equals.
PickCamera(kept, found) ==
    IF found = {} THEN NoCamera
    ELSE IF kept \in found THEN kept ELSE Cameras[Min(Best(found))]

(* The effect, and its cleanup ********************************************)
NewEffect == [at |-> "import", stopped |-> FALSE, wants |-> saved', cam |-> NoCamera,
              stream |-> "none"]

\* scanner.stop() releases a camera that scans; while it is still being opened
\* there is nothing to release, and the rejection is swallowed.
Cleaned(f) == [f EXCEPT !.stopped = TRUE, !.stream = IF @ = "open" THEN "closing" ELSE @]

Cleanup(fs) == [k \in DOMAIN fs |-> IF fs[k].stopped THEN fs[k] ELSE Cleaned(fs[k])]

\* While mounted.
Rerun == ~effects[Current].stopped /\ Current < MaxEffects
         /\ effects' = Append(Cleanup(effects), NewEffect)

\* The operator picks another camera: remembered, and the effect runs again.
Choose(c) == /\ c \in cameras /\ c # saved /\ saved' = c
             /\ Rerun /\ UNCHANGED <<plugged, cameras, fault>>

RetryCamera == /\ UNCHANGED saved /\ Rerun /\ UNCHANGED <<plugged, cameras, fault>>

\* devicechange
PlugChanges(c) == /\ plugged' = IF c \in plugged THEN plugged \ {c} ELSE plugged \cup {c}
                  /\ UNCHANGED saved /\ Rerun /\ UNCHANGED <<cameras, fault>>

Unmount == /\ effects' = Cleanup(effects) /\ effects' # effects
           /\ UNCHANGED <<plugged, saved, cameras, fault>>

Becomes(k, f) == effects' = [effects EXCEPT ![k] = f]
End(k) == Becomes(k, [effects[k] EXCEPT !.at = "ended"])

\* catch: only a live effect writes the error.
Throws(k) == /\ effects[k].at \in {"import", "list", "start"}
             /\ End(k)
             /\ fault' = IF effects[k].stopped THEN fault ELSE "unavailable"
             /\ UNCHANGED <<plugged, saved, cameras>>

LibraryReady(k) ==
    /\ effects[k].at = "import"
    /\ IF effects[k].stopped THEN End(k) ELSE Becomes(k, [effects[k] EXCEPT !.at = "list"])
    /\ UNCHANGED <<plugged, saved, cameras, fault>>

\* getCameras answers: choose, and start opening.
Listed(k) ==
    /\ effects[k].at = "list"
    /\ LET chosen == PickCamera(effects[k].wants, plugged)
       IN IF effects[k].stopped THEN End(k) /\ UNCHANGED <<cameras, fault>>
          ELSE /\ cameras' = plugged
               /\ IF chosen = NoCamera THEN End(k) /\ fault' = "missing"
                  ELSE /\ Becomes(k, [effects[k] EXCEPT !.at = "start", !.cam = chosen])
                       /\ UNCHANGED fault
    /\ UNCHANGED <<plugged, saved>>

\* A plausible bug: the effect does not look again once the device is open.
OpenedBlind(f) == [f EXCEPT !.at = "live", !.stream = "open"]

\* An effect that was cleaned up meanwhile has to stop its own camera.
Opened(f) == IF f.stopped THEN [f EXCEPT !.at = "ended", !.stream = "closing"]
                          ELSE [f EXCEPT !.at = "live", !.stream = "open"]

Started(k) == /\ effects[k].at = "start"
              /\ Becomes(k, Opened(effects[k]))
              /\ fault' = IF effects[k].stopped THEN fault ELSE "none"
              /\ UNCHANGED <<plugged, saved, cameras>>

Closed(k) == /\ effects[k].stream = "closing"
             /\ Becomes(k, [effects[k] EXCEPT !.stream = "none"])
             /\ UNCHANGED <<plugged, saved, cameras, fault>>

ScannerInit ==
    /\ plugged \in SUBSET ToSet(Cameras) /\ saved \in ToSet(Cameras) \cup {NoCamera}
    /\ cameras = {} /\ fault = "none"
    /\ effects = <<[at |-> "import", stopped |-> FALSE, wants |-> saved, cam |-> NoCamera,
                    stream |-> "none"]>>

ScannerNext ==
    \/ \E c \in ToSet(Cameras) : Choose(c) \/ PlugChanges(c)
    \/ RetryCamera \/ Unmount
    \/ \E k \in DOMAIN effects : Throws(k) \/ LibraryReady(k) \/ Listed(k) \/ Started(k) \/ Closed(k)

ScannerSpec == ScannerInit /\ [][ScannerNext]_scannerVars

(* What must hold *********************************************************)
\* Only the last effect is live; every earlier one has been cleaned up.
ScannerInv ==
    /\ plugged \subseteq ToSet(Cameras) /\ fault \in {"none", "missing", "unavailable"}
    /\ cameras \subseteq ToSet(Cameras) /\ Current \in 1..MaxEffects
    /\ \A k \in DOMAIN effects : k < Current => effects[k].stopped

\* However slow the import, the permission or the device, and whatever the
\* operator presses meanwhile: no camera is held by an effect that is gone
\* (unless its release is on the way), a camera that scans shows no error, and
\* it is the one the selector shows: the operator's, if it is plugged in
\* (the effect and cleanup of QrScanner, pickCamera).
CameraIsOurs ==
    \A k \in DOMAIN effects : effects[k].stream = "open" =>
        /\ k = Current /\ ~effects[k].stopped /\ fault = "none"
        /\ effects[k].cam = PickCamera(saved, cameras)
        /\ saved \in cameras => effects[k].cam = saved
        /\ saved \notin cameras =>
               \A c \in cameras : Score[c] <= Score[effects[k].cam]
==============================================================================
