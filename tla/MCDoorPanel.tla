----------------------------- MODULE MCDoorPanel -----------------------------
(***************************************************************************)
(* A door station, explored part by part: its screen while somebody types   *)
(* (searches and walk-ins on one lane) and while badges come out (prints,   *)
(* corrections and reloads over two lanes), its printer, its camera and the *)
(* labels it prints, which share no state: the panel's latch is an outcome  *)
(* to the screen and an effect of the printer's failures.                   *)
(***************************************************************************)
EXTENDS DoorPanel, Printer, Scanner, MCBadge

CONSTANTS ann, bob, an, a, code, d1, d2, usb, lid

VARIABLE part
vars == <<panelVars, printerVars, scannerVars, label, part>>

MCCameras == <<lid, usb>>
MCScore == [c \in {lid, usb} |-> IF c = usb THEN 2 ELSE 0]

\* "a" finds both, "an" (which could be a badge's code) only one of them.
MCFound == [t \in {a, an, code} |-> IF t = a THEN {ann, bob}
                                    ELSE IF t = an THEN {ann} ELSE {}]

Typing == edit = NoEdit /\ lane = d1 /\ Len(owners) <= 1 /\ ~latch
          /\ fallback = Nothing /\ (prints = {} \/ banner = Working)

Printing == /\ box = Nothing /\ search = "none" /\ walkIn = "closed"
            /\ edit # NoEdit => lane = d1 /\ Cardinality(prints) <= 1 /\ ~latch

AnyLabel == CHOOSE l \in Labels : TRUE

MCInit == /\ part \in {"typing", "printing", "printer", "camera", "badge"}
          /\ PanelInit /\ lane = d1 /\ PrinterInit /\ ScannerInit
          /\ IF part = "badge" THEN BadgeInit ELSE label = AnyLabel
          /\ part # "printer" => ~tray /\ rawMode
          /\ part # "camera" => saved = usb /\ plugged = {usb}

MCNext == /\ UNCHANGED <<part, label>>
          /\ \/ /\ \/ part = "typing" /\ PanelNext /\ Typing'
                   \/ part = "printing" /\ PanelNext /\ Printing'
                /\ UNCHANGED <<printerVars, scannerVars>>
             \/ /\ part = "printer" /\ PrinterNext
                /\ UNCHANGED <<panelVars, scannerVars>>
             \/ /\ part = "camera" /\ ScannerNext
                /\ UNCHANGED <<panelVars, printerVars>>

\* PrinterFairness, where the printer is what is explored.
MCPrinterFairness == /\ WF_printerVars(part = "printer" /\ Imported)
                     /\ \A k \in Polls : WF_printerVars(part = "printer" /\ Poll(k))
                     /\ \A k \in Slots : WF_printerVars(part = "printer" /\ Step(k))

MCSpec == MCInit /\ [][MCNext]_vars /\ PanelFairness /\ MCPrinterFairness

\* The three keep their shape.
StationInv == PanelInv /\ PrinterInv /\ ScannerInv
==================================================================================
