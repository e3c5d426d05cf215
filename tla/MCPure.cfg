\* A draw of the jitter is the least, a middle or the largest.  A keyword or two
\* of each list: in two lists at once ("crash", "broken"), inside another keyword
\* ("blocked" has "locked"), or in one list only (the others).
SPECIFICATION MCSpec
CONSTANTS
    Uses <- AllUses
    Atoms <- AllAtoms
    Json <- AllJson
    Height <- Depth
    Payloads <- Bodies
    Draws = {0, 37, 99}
    Vocabulary = {"refund", "locked", "blocked", "crash", "broken", "error",
                  "feature", "awful", "urgent", "down", "cannot", "how to"}
INVARIANT HashIsContent
PROPERTIES
    SpreadsOut
    
CHECK_DEADLOCK FALSE
