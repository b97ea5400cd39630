\* A door station: late searches, overlapping prints, forms, lanes, reloads;
\* a printer that fails and comes back; a camera switched while it opens; the
\* labels themselves.
CONSTANTS
    ann = ann
    bob = bob
    a = a
    an = an
    code = code
    d1 = d1
    d2 = d2
    People = {ann, bob}
    Texts = {a, an, code}
    Scannable = {code}
    SlugLike = {an}
    Found <- MCFound
    Nothing = Nothing
    Lanes = {d1, d2}
    usb = usb
    lid = lid
    Polls = {q1, q2}
    Retries = {r1}
    Prints = {pr1}
    Renders = FALSE
    Cameras <- MCCameras
    Score <- MCScore
    NoCamera = NoCamera
    MaxEffects = 3
    RecentLimit = 1
    MaxAdmitted = 2
    Glyph <- MCGlyph
    Labels <- MCLabels
SPECIFICATION MCSpec
INVARIANTS StationInv CameraIsOurs LabelIsSafe LabelIsWhole
PROPERTIES NothingLatches PrinterComesBack
CHECK_DEADLOCK FALSE
