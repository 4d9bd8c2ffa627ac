----------------------------- MODULE MCGameTime -----------------------------
EXTENDS GameTime

\* The first effect takes any voice; the second has a channel of its own.
MCEffectChannel == [e \in Effects |-> IF e = "bell" THEN 1 ELSE AnyVoice]
MCEffectVolume == [e \in Effects |-> IF e = "rain" THEN 2 ELSE 1]
=============================================================================
