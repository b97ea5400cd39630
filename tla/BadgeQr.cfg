\* The badge as it is deployed: the default host, a code of eight characters.
CONSTANTS
    Glyph <- MCGlyph
    Labels <- MCLabels
SPECIFICATION BadgeSpec
INVARIANT QrHasQuietZone
CHECK_DEADLOCK FALSE
