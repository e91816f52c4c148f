----------------------------- MODULE MCStorage -----------------------------
EXTENDS Storage
CONSTANTS r, s, x, y, z, k1, k2, k3

\* As in the code the map and the hash table are equally long, and the first entry after the heads of the chains is
\* a directive, k3.  x has the first bucket: its record gets the number of that entry when it is the first.  z is
\* behind k2 and k3 in their chain; its entry follows that of k3 and has the bucket of y.
MCSum == [n \in {x, y, z, k1, k2, k3} |-> CASE n = x -> 8 [] n = y -> 1 [] n = k1 -> 2 [] n \in {k2, k3, z} -> 5]
MCKeywords == <<k1, k2, k3>>
MCContents == {<<1, r>>, <<1, s>>, <<0, Empty>>}
Sym == Permutations({r, s})
=============================================================================
