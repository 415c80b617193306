-------------------------- MODULE MCCandidateSort --------------------------
EXTENDS CandidateSort

\* Two capped peers, and behind them a capped one and a last resort.
TieredPriority == <<0, 0, 1, 1>>
TieredCap      == <<1, 2, 1, Uncapped>>

\* Three peers of one tier, two of them capped.
PeerPriority == <<0, 0, 0>>
PeerCap      == <<1, 1, Uncapped>>
=============================================================================
