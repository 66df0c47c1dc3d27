--------------------------- MODULE MCMemoryCache ---------------------------
EXTENDS MemoryCache

CONSTANTS ka, kb

\* Two keys with different lifetimes, as cluster://incidents and cluster://nodes.
MCKeyTTL == [k \in Keys |-> IF k = ka THEN 1 ELSE 2]

=============================================================================
