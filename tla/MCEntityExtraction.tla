------------------------- MODULE MCEntityExtraction -------------------------
\* EntityExtraction for TLC: two chunks that share a fact, and a whole text.
EXTENDS EntityExtraction
CONSTANTS f1, f2, f3
MCMentions == <<{f1, f2}, {f2, f3}, {f1}>>
=============================================================================
