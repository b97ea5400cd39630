------------------------------- MODULE Printer -------------------------------
(***************************************************************************)
(* How a door station reaches its badge printer (lib/checkin/print-client): *)
(* the QZ Tray library is imported once, one socket to the tray is shared   *)
(* by every probe and every print, and two displays are fed by them: the    *)
(* pill of PrinterStatus, by probes, and the panel's latch "stop dialling"  *)
(* by failed prints.  A tray is quit and restarted, a printer is unplugged, *)
(* a setting is changed, while calls are anywhere on their way.             *)
(***************************************************************************)
EXTENDS Naturals

CONSTANTS Polls, Retries, Prints,   \* the calls in flight at once, by who makes them
          Renders                   \* can this station draw a TSPL badge?

ASSUME PrinterAssumption == Renders \in BOOLEAN

VARIABLES lib,      \* qzPromise: the library's import, made once per tab
          tray,     \* does QZ Tray run?
          socket,   \* qz.websocket: "closed", "connecting", "open"
          device,   \* what printers.find answers: "ready", "unset" or "gone"
          rawMode,  \* does this tray's version expose the raw options?
          language, \* the station's setting: "zpl" or "tspl"
          call,     \* where each call is
          pill,     \* PrinterStatus: health
          qzUnreachable \* the panel stops dialling (a ref of the panel)
printerVars == <<lib, tray, socket, device, rawMode, language, call, pill, qzUnreachable>>

Slots == Polls \cup Retries \cup Prints
stationVars == <<tray, device, rawMode, language>>

(* How a call ends ********************************************************)
\* A plausible bug: only the Retry button tells the panel.
RetryRearms(k) == IF k \in Retries THEN FALSE ELSE qzUnreachable

\* onRecovered, from the interval's probes and from the button alike.
Recovered(k) == FALSE

Healthy(k) == /\ pill' = "ready" /\ qzUnreachable' = Recovered(k)

\* isPersistentPrintFailure: a rejected label does not stop the dialling.
Persistent(kind) == kind \in {"transport", "printer"}

PrintFails(kind) == qzUnreachable' = (qzUnreachable \/ Persistent(kind)) /\ UNCHANGED pill

Fails(k, kind, reason) ==
    /\ call' = [call EXCEPT ![k] = "idle"]
    /\ IF k \in Prints THEN PrintFails(kind) ELSE pill' = reason /\ UNCHANGED qzUnreachable

(* A call *****************************************************************)
\* getQz: the promise is cached whether it resolves or rejects.
GetQz(k) == /\ call' = [call EXCEPT ![k] = "qz"]
            /\ lib' = IF lib = "none" THEN "loading" ELSE lib

\* Every 30 s, and on mount.
Poll(k) == /\ k \in Polls /\ call[k] = "idle"
           /\ GetQz(k) /\ UNCHANGED <<stationVars, socket, pill, qzUnreachable>>

\* The button is shown for a known failure and disabled while it runs.
RetryProbe(k) == /\ k \in Retries /\ call[k] = "idle"
            /\ pill \notin {"checking", "ready"}
            /\ GetQz(k) /\ UNCHANGED <<stationVars, socket, pill, qzUnreachable>>

CanRender == language = "zpl" \/ Renders

\* thermalPrint dials only while not latched; printBadge draws first.
PrintBadge(k) ==
    /\ k \in Prints /\ call[k] = "idle" /\ ~qzUnreachable
    /\ IF CanRender THEN GetQz(k) /\ UNCHANGED <<pill, qzUnreachable>>
                    ELSE PrintFails("printer") /\ UNCHANGED <<lib, call>>
    /\ UNCHANGED <<stationVars, socket>>

Imported == /\ lib = "loading" /\ lib' \in {"loaded", "failed"}
            /\ UNCHANGED <<stationVars, socket, call, pill, qzUnreachable>>

\* ensureConnected: an open socket is used, a closed one is dialled, and
\* dialling one that is being dialled is refused by the library.
Connect(k) ==
    /\ call[k] = "qz" /\ lib \in {"loaded", "failed"}
    /\ IF lib = "loaded" /\ socket # "connecting"
       THEN /\ call' = [call EXCEPT ![k] = IF socket = "open" THEN "find" ELSE "connect"]
            /\ socket' = IF socket = "open" THEN "open" ELSE "connecting"
            /\ UNCHANGED <<pill, qzUnreachable>>
       ELSE Fails(k, "transport", "unreachable") /\ UNCHANGED socket
    /\ UNCHANGED <<stationVars, lib>>

Connected(k) ==
    /\ call[k] = "connect"
    /\ IF tray THEN /\ socket' = "open" /\ call' = [call EXCEPT ![k] = "find"]
                    /\ UNCHANGED <<pill, qzUnreachable>>
               ELSE socket' = "closed" /\ Fails(k, "transport", "unreachable")
    /\ UNCHANGED <<stationVars, lib>>

\* printers.find: it rejects, or answers with a printer or with none.  A probe
\* ends here; a print goes on with whatever was answered.
FindPrinter(k) ==
    /\ call[k] = "find"
    /\ IF socket # "open" \/ device = "gone" THEN Fails(k, "printer", "missing")
       ELSE IF k \in Prints
       THEN call' = [call EXCEPT ![k] = "send"] /\ UNCHANGED <<pill, qzUnreachable>>
       ELSE /\ call' = [call EXCEPT ![k] = "idle"]
            /\ IF device = "ready" THEN Healthy(k) ELSE pill' = "unset" /\ UNCHANGED qzUnreachable
    /\ UNCHANGED <<stationVars, lib, socket>>

\* isRawOnly, of the options stripToRawOptions leaves: where the tray does not
\* expose them, nothing can be stripped and the check refuses.
RawOnly == rawMode

\* The options are stripped and verified before anything is sent.
Send(k) ==
    /\ call[k] = "send"
    /\ \/ ~RawOnly /\ Fails(k, "transport", pill)
       \/ RawOnly /\ Fails(k, "job", pill)
       \/ /\ RawOnly /\ socket = "open" /\ device = "ready"
          /\ call' = [call EXCEPT ![k] = "idle"] /\ UNCHANGED <<pill, qzUnreachable>>
    /\ UNCHANGED <<stationVars, lib, socket>>

(* The station ************************************************************)
TrayStops == /\ tray /\ tray' = FALSE
             /\ socket' = IF socket = "open" THEN "closed" ELSE socket
             /\ UNCHANGED <<device, rawMode, language, lib, call, pill, qzUnreachable>>
TrayStarts == /\ ~tray /\ tray' = TRUE
              /\ UNCHANGED <<device, rawMode, language, socket, lib, call, pill, qzUnreachable>>

\* Cables, and the printer's name in the settings.
DeviceChanges == /\ device' \in {"ready", "unset", "gone"} \ {device}
                 /\ UNCHANGED <<tray, rawMode, language, socket, lib, call, pill, qzUnreachable>>
SetPrinterLanguage == /\ language' \in {"zpl", "tspl"} \ {language}
                      /\ UNCHANGED <<tray, device, rawMode, socket, lib, call, pill, qzUnreachable>>

PrinterInit ==
    /\ lib = "none" /\ socket = "closed" /\ tray \in BOOLEAN /\ rawMode \in BOOLEAN
    /\ device = "ready" /\ language = "zpl"
    /\ call = [k \in Slots |-> "idle"] /\ pill = "checking" /\ qzUnreachable = FALSE

Step(k) == Connect(k) \/ Connected(k) \/ FindPrinter(k) \/ Send(k)

PrinterNext ==
    \/ \E k \in Slots : Poll(k) \/ RetryProbe(k) \/ PrintBadge(k) \/ Step(k)
    \/ Imported
    \/ TrayStops \/ TrayStarts \/ DeviceChanges \/ SetPrinterLanguage

\* The interval fires for ever, and every call gets its answer.
PrinterFairness == /\ WF_printerVars(Imported)
                   /\ \A k \in Polls : WF_printerVars(Poll(k))
                   /\ \A k \in Slots : WF_printerVars(Step(k))

PrinterSpec == PrinterInit /\ [][PrinterNext]_printerVars /\ PrinterFairness

(* What must hold *********************************************************)
\* The socket is dialled by exactly one call at a time; nothing connects or
\* prints before the library is there.
PrinterInv ==
    /\ lib \in {"none", "loading", "loaded", "failed"}
    /\ socket \in {"closed", "connecting", "open"}
    /\ pill \in {"checking", "ready", "unset", "missing", "unreachable"}
    /\ \A k \in Slots : /\ call[k] \in {"idle", "qz", "connect", "find", "send"}
                        /\ call[k] \in {"connect", "find", "send"} => lib = "loaded"
                        /\ call[k] = "send" => k \in Prints
                        /\ call[k] = "connect" =>
                               socket = "connecting" /\ \A j \in Slots \ {k} : call[j] # "connect"

\* Once the station is well and stays well, thermal printing comes back on its
\* own and the pill says so, whatever failed before and whichever calls were on
\* their way (PrinterStatus polls, onRecovered clears qzUnreachable).  It takes
\* an import that did not fail: getQz keeps a failed one for ever.
Well == tray /\ device = "ready" /\ rawMode /\ CanRender /\ lib # "failed"
PrinterComesBack == <>[]Well => <>[](~qzUnreachable /\ pill = "ready")
==============================================================================
