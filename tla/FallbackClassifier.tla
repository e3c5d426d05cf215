-------------------------- MODULE FallbackClassifier ---------------------------
(***************************************************************************)
(* The rule-based classifier of a degraded ticket: the first rule that has *)
(* a keyword in the text gives the category, three word lists tried in     *)
(* turn the priority.  A text is the set of the keywords found in it, and  *)
(* one keyword is found inside another: "blocked" has "locked" in it.      *)
(*                                                                         *)
(* The classifier keeps no state.  The behaviours enumerate its inputs in  *)
(* the order of "says at least as much": each step adds a keyword to the   *)
(* text, and the properties compare what the two texts come out as.        *)
(***************************************************************************)
EXTENDS Naturals, Sequences, FiniteSetsExt

CONSTANT Vocabulary   \* bound: the keywords a text may have

CategoryKeywords == <<
    [category |-> "BILLING", keywords |->
        {"charge", "invoice", "refund", "payment", "billed", "subscription", "price"}],
    [category |-> "ACCOUNT", keywords |->
        {"password", "login", "log in", "locked", "access", "sign in", "account", "2fa",
         "reset"}],
    [category |-> "TECHNICAL", keywords |->
        {"crash", "error", "bug", "broken", "500", "fails", "not working", "doesn't work",
         "freeze", "exception"}],
    [category |-> "FEATURE_REQUEST", keywords |->
        {"feature", "request", "would be nice", "please add", "suggestion", "wish"}],
    [category |-> "COMPLAINT", keywords |->
        {"terrible", "worst", "angry", "unacceptable", "disappointed", "awful",
         "frustrated"}]>>

URGENT == {"urgent", "asap", "immediately", "critical", "down", "outage", "emergency"}
HIGH == {"crash", "cannot", "can't", "blocked", "broken", "data loss", "security"}
LOW == {"question", "how do i", "how to", "wondering", "clarify"}

\* What the constant stands for.
VocabularyAssumption ==
    Vocabulary \subseteq UNION {CategoryKeywords[i].keywords : i \in DOMAIN CategoryKeywords}
                         \cup URGENT \cup HIGH \cup LOW

VARIABLE text   \* the keywords for which text.includes(k)

\* The keywords that are found wherever k is.
Within(k) == IF k = "blocked" THEN {"blocked", "locked"} ELSE {k}

Includes(keywords) == keywords \cap text # {}

\* Each rule that matches, by its place in the list.
Matching == {i \in DOMAIN CategoryKeywords : Includes(CategoryKeywords[i].keywords)}

Bug_LastMatch ==
    IF Matching = {} THEN "OTHER" ELSE CategoryKeywords[Max(Matching)].category

Categorize == IF Matching = {} THEN "OTHER" ELSE CategoryKeywords[Min(Matching)].category

Prioritize ==
    CASE Includes(URGENT) -> "URGENT"
      [] ~Includes(URGENT) /\ Includes(HIGH) -> "HIGH"
      [] ~Includes(URGENT) /\ ~Includes(HIGH) /\ Includes(LOW) -> "LOW"
      [] OTHER -> "MEDIUM"

Init == text = {}

Mentions(k) == text' = text \cup Within(k)

Next == \E k \in Vocabulary : Mentions(k)

Spec == Init /\ [][Next]_text

-----------------------------------------------------------------------------

\* The categories in the order the rules try them; OTHER is what is left.
RuleOf(category) ==
    IF category = "OTHER" THEN Len(CategoryKeywords) + 1
    ELSE CHOOSE i \in DOMAIN CategoryKeywords : CategoryKeywords[i].category = category

\* What a text that says more may come out as.
Escalates(priority) ==
    CASE priority = "URGENT" -> {"URGENT"}
      [] priority = "HIGH" -> {"HIGH", "URGENT"}
      [] priority = "LOW" -> {"LOW", "HIGH", "URGENT"}
      [] priority = "MEDIUM" -> {"MEDIUM", "LOW", "HIGH", "URGENT"}

\* A text that says more than another comes out in the same category or in one
\* an earlier rule gives: no word of a later rule takes a ticket from an earlier.
\* And more words never calm a ticket down, however politely the rest is asked:
\* nothing that was pressing is less so for what stands beside it.
SayingMoreEscalates ==
    [][/\ RuleOf(Categorize') <= RuleOf(Categorize)
       /\ Prioritize' \in Escalates(Prioritize)]_text
=============================================================================
