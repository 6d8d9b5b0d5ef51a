-------------------------- MODULE MCRecommendations --------------------------
\* The instances of Recommendations that TLC checks.
EXTENDS Recommendations

\* A record stays valid for the instant after its own.
MCValid == [c \in Claims \cup {Clear} |-> 1]
=============================================================================
