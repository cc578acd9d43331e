\* What the console computes, and what must catch up, side by side.
CONSTANTS
    Panels = {"traffic", "runs", "cbor", "cards", "links"}
SPECIFICATION Spec
INVARIANTS
    TreeTellsTable RoundTrip CardsAgree
PROPERTIES
    ListCatchesUp VerdictCatchesUp
\* A panel may be left alone for good.
CHECK_DEADLOCK FALSE
